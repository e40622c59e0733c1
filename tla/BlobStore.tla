----------------------------- MODULE BlobStore -----------------------------
(***************************************************************************)
(* What a blob store promises its callers (Store.Write: it "stores a new   *)
(* blob and returns its location", which "can be given to a Read call to   *)
(* return the stored blob"): a location handed out is nobody else's, and   *)
(* what it holds does not change until it is released.  Locations that are *)
(* not in use may hold anything.                                           *)
(***************************************************************************)
EXTENDS Integers

VARIABLES
    live,      \* the locations in use, each with its blob
    content    \* what every location ever written holds

Taken == {loc[1] : loc \in live}

Init == live = {} /\ content = << >>

\* a location nobody uses is handed out, with the blob already in it
HandOut(s, b) ==
    /\ s \notin Taken
    /\ s \in DOMAIN content /\ content[s] = b
    /\ live' = live \cup {<<s, b>>}
    /\ UNCHANGED content

GiveBack(loc) ==
    /\ live' = live \ {loc}
    /\ UNCHANGED content

\* something is written where no location in use is
Scribble ==
    /\ DOMAIN content \subseteq DOMAIN content'
    /\ \A s \in Taken : content'[s] = content[s]
    /\ UNCHANGED live

Next ==
    \/ \E s \in DOMAIN content : HandOut(s, content[s])
    \/ \E loc \in live : GiveBack(loc)
    \/ Scribble

Spec == Init /\ [][Next]_<<live, content>>
=============================================================================
