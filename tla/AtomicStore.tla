---------------------------- MODULE AtomicStore -----------------------------
(***************************************************************************)
(* What the blob store promises to those who use it: names with contents;  *)
(* a request asks for a change of some of them, and the change is made     *)
(* whole, at one moment, once, or not at all.  Files, the gate, the        *)
(* collector and restarts are not in it; module Blobs, which has them, is  *)
(* shown to implement it.                                                  *)
(***************************************************************************)
CONSTANTS Digest, Names, Clients

VARIABLES
    content,  \* what each name holds: the digests of its files
    asked     \* the change each client waits for: names with new contents

Changes == UNION {[N -> SUBSET Digest] : N \in SUBSET Names}
Nothing == [n \in {} |-> {}]

Init ==
    /\ content = [n \in Names |-> {}]
    /\ asked = [c \in Clients |-> Nothing]

Ask(c) ==
    /\ asked[c] = Nothing
    /\ \E new \in Changes : asked' = [asked EXCEPT ![c] = new]
    /\ UNCHANGED content

Make(c) ==
    /\ content' = [n \in Names |-> IF n \in DOMAIN asked[c] THEN asked[c][n] ELSE content[n]]
    /\ asked' = [asked EXCEPT ![c] = Nothing]

\* Refused, failed or given up; an agent that is killed gives up all of them.
GiveUp ==
    /\ \E C \in SUBSET Clients :
        asked' = [c \in Clients |-> IF c \in C THEN Nothing ELSE asked[c]]
    /\ UNCHANGED content

Remove(n) ==
    /\ content' = [content EXCEPT ![n] = {}]
    /\ UNCHANGED asked

Next ==
    \/ GiveUp
    \/ \E c \in Clients : Make(c) \/ Ask(c)
    \/ \E n \in Names : Remove(n)

Spec == Init /\ [][Next]_<<content, asked>>
=============================================================================
