----------------------------- MODULE MCReadLoop -----------------------------
(***************************************************************************)
(* Packets for TLC: from empty to full, so that the length takes one byte  *)
(* or two, encrypted or not, and on either side of being timely.           *)
(***************************************************************************)
EXTENDS ReadLoop

MCKinds == {[size |-> 0,   flags |-> AllFlags.NoFlags,     stamp |-> Now - 30],
            [size |-> 512, flags |-> AllFlags.Handshake,   stamp |-> Now + 1],
            [size |-> 512, flags |-> AllFlags.TestMessage, stamp |-> Now],
            [size |-> 112, flags |-> AllFlags.NoFlags,     stamp |-> Now - 31]}
=============================================================================
