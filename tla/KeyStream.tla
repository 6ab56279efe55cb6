---- MODULE KeyStream ----
(***************************************************************************)
(* What a stream cipher promises its user: for each key and last 64 bits   *)
(* of the nonce there is one cyclic stream of Size bytes, Seek goes        *)
(* anywhere in it, and each Draw returns the bytes that follow the ones    *)
(* before it, however the draws are cut.                                   *)
(***************************************************************************)
EXTENDS Integers, Sequences

CONSTANTS Keys, Seconds, Size, MaxDraw

VARIABLES key, second, pos, drawn

streamVars == <<key, second, pos, drawn>>

Init == key \in Keys /\ second = 0 /\ pos = 0 /\ drawn = <<>>

SetKey(k) == key' = k /\ second' = 0 /\ pos' = 0 /\ drawn' = <<>>

Seek(s, p) == second' = s /\ pos' = p /\ drawn' = <<>> /\ UNCHANGED key

Draw(n) ==
    /\ drawn' = [i \in 1..n |-> [key |-> key, second |-> second,
                                 pos |-> (pos + i - 1) % Size]]
    /\ pos' = (pos + n) % Size
    /\ UNCHANGED <<key, second>>

Next ==
    \/ \E k \in Keys : SetKey(k)
    \/ \E s \in Seconds, p \in 0..(Size - 1) : Seek(s, p)
    \/ \E n \in 0..MaxDraw : Draw(n)

Spec == Init /\ [][Next]_streamVars
====
