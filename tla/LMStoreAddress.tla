--------------------------- MODULE LMStoreAddress ---------------------------
(***************************************************************************)
(* The virtual addresses by which a program gives orders to the LMStore:   *)
(* LMStorePass::blockDescriptorGen writes them into the linker script, and *)
(* LMStore::DecodeAddress reads them.  An address is the sequence of its   *)
(* hexadecimal digits.                                                     *)
(***************************************************************************)
EXTENDS Integers, Sequences

Digits == 0..15

\* A number in hexadecimal, with a leading zero if it has one digit.  Numbers
\* of four digits and more are beyond what blockDescriptorGen's buffer holds.
Hex(n) == IF n < 256 THEN <<n \div 16, n % 16>>
          ELSE <<n \div 256, (n \div 16) % 16, n % 16>>

\* The second digit of the address of an operation.
Code(op) ==
    CASE op = "NoReadAlloc"    -> 1
      [] op = "Access"         -> 2
      [] op = "NoWriteDealloc" -> 3
      [] op = "ReadAlloc"      -> 4
      [] op = "WriteDealloc"   -> 5

\* The address of operation op on a block with an LMRef entry, a blockSID and a
\* size.  The address of an access does not depend on the block.
blockDescriptorGen(op, ref, id, size) ==
    <<7, Code(op)>> \o Hex(ref) \o
    CASE op = "Access"       -> <<0, 0, 0, 0>>
      [] op = "WriteDealloc" -> Hex(id) \o <<0, 0>>
      [] OTHER               -> Hex(id) \o Hex(size)

\* LMStore::getOpCode.
getOpCode(v) == CHOOSE op \in {"NoReadAlloc", "Access", "NoWriteDealloc",
                               "ReadAlloc", "WriteDealloc"} : Code(op) = v[2]

\* LMStore::DecodeAddress: of the identifier of a block that is deallocated, it
\* reads the first digit only.
DecodeAddress(v) ==
    LET op == getOpCode(v)
    IN  [op   |-> op,
         ref  |-> 16 * v[3] + v[4],
         id   |-> CASE op \in {"NoReadAlloc", "ReadAlloc"}     -> 16 * v[5] + v[6]
                    [] op \in {"NoWriteDealloc", "WriteDealloc"} -> v[5]
                    [] op = "Access"                           -> 0,
         size |-> IF op = "Access" THEN 0 ELSE 16 * v[7] + v[8]]
=============================================================================
