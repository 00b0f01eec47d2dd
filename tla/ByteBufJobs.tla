---------------------------- MODULE ByteBufJobs ----------------------------
(***************************************************************************)
(* The unit proofs of byte buffers as one of the families of Jobs, with the *)
(* course of a unit proof that all of them share.                          *)
(***************************************************************************)
EXTENDS Integers

CONSTANTS
    Tools,
    MaxFaults,
    Byte,
    MaxStringLen,     \* MAX_STRING_LEN of buffers, cursors and lists
    BufSizeMax,       \* the largest size_t
    MaxBuf,           \* MAX_BUFFER_SIZE of byte buffers, lists and strings
    CatSize,
    Be16, Be32, Be64  \* the widths of integers, in bytes

VARIABLES
    tool, proof, pc, obj, mem, arg, old, ret, want, faults

Proof == INSTANCE UnitProof WITH SizeMax <- BufSizeMax

ByteBuf == INSTANCE ByteBufUnitProofs WITH
    SizeMax <- BufSizeMax, MaxBufferSize <- MaxBuf,
    Width <- [be16 |-> Be16, be32 |-> Be32, be64 |-> Be64]

ASSUME BufMaximaMakeSense ==
    /\ Proof!ToolsAreKnown /\ Proof!MaxFaultsIsNat /\ Proof!SizeMaxIsNat
    /\ ByteBuf!BitsAreBytes /\ ByteBuf!BuffersAreShort
    /\ ByteBuf!WidthsArePositive /\ ByteBuf!MaximaArePositive
=============================================================================
