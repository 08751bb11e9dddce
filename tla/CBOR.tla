-------------------------------- MODULE CBOR --------------------------------
(***************************************************************************)
(* CBOR items (Sources/PotentCBOR/CBOR.swift) and the symbols they are     *)
(* written with.  A symbol is a head, which is the initial byte with the   *)
(* integer or float that follows it, or one byte of a string.  Integers    *)
(* are words of which UIntMax is the largest; Int, the type of counts and  *)
(* offsets, ends at IntMax.                                                *)
(***************************************************************************)
EXTENDS Integers, SequencesExt

CONSTANTS
  IntMax,      \* largest Int
  Heads,       \* the heads streams are made of
  MaxStream    \* bound: symbols of a stream that is read

ASSUME IntMaxAssumption == IntMax \in Nat \ {0} /\ MaxStream \in 1..IntMax - 1

UIntMax    == 2 * IntMax + 1
Indefinite == -1

\* arg is the integer, count, length, tag or number, or Indefinite.
Symbol(kind, arg) == [kind |-> kind, arg |-> arg]
Break    == Symbol("break", 0)
Reserved == Symbol("reserved", 0)   \* an initial byte without meaning

Strings  == {"bytes", "text"}
Floats   == {"half", "float", "double"}
Scalars  == {"unsigned", "negative", "simple", "constant"} \union Floats

\* The bytes of a string: a Bad one is no UTF-8.
Byte  == Symbol("byte", 0)
Bad   == Symbol("byte", 1)
Bytes == {Byte, Bad}

\* An item: a scalar, the bytes of a string, a tagged item, an array, or a
\* map, whose keys and values alternate.  The constants false, true, null
\* and undefined are 20 to 23.
Item(kind, arg, items) == [kind |-> kind, arg |-> arg, items |-> items]
NoItem == Item("none", 0, <<>>)

Pairs(items)    == 1..(Len(items) \div 2)
Key(items, i)   == items[2 * i - 1]
Value(items, i) == items[2 * i]

=============================================================================
