----------------------------- MODULE MCByteSet -----------------------------
(***************************************************************************)
(* An instance of ByteSet for TLC, in which every table of a scaled down   *)
(* size is reached.                                                        *)
(***************************************************************************)
EXTENDS ByteSetUse

\* One value in two, all but the ends, the first word.
MCOthers ==
    {[k \in 0 .. TableBytes - 1 |-> {0}],
     [k \in 0 .. TableBytes - 1 |->
        Byte \ {v % ByteBits : v \in {w \in {0, ByteMax} : w \div ByteBits = k}}],
     [k \in 0 .. TableBytes - 1 |-> IF k < WordBytes THEN Byte ELSE {}]}

MCSlices == {<<0, ByteMax>>, <<2, 1, 2>>}
=============================================================================
