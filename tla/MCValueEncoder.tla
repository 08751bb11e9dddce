---------------------------- MODULE MCValueEncoder ----------------------------
(***************************************************************************)
(* ValueEncoder on small instances, one for each discipline that its       *)
(* clients follow: a codec whose Transform never refuses a container; the  *)
(* ASN.1 codec, which may, on flat values; and any client at all.          *)
(***************************************************************************)
EXTENDS ValueEncoder

VARIABLE client   \* the discipline of this session

Codec == INSTANCE ValueEncoder WITH
  Keys <- {"a"}, RollUpThrows <- FALSE, LexicalRelease <- TRUE
ASN1 == INSTANCE ValueEncoder WITH
  NestInNested <- FALSE, ClientSwallows <- FALSE, LexicalRelease <- TRUE
Undisciplined == INSTANCE ValueEncoder WITH
  Keys <- {"a"}

Allocated == {c \in Containers : kind[c] # "none"}

MCInit == Init /\ client \in {"codec", "flat", "any"}

CodecStep == client = "codec" /\ Codec!Next
FlatStep  == client = "flat" /\ ASN1!Next /\ Cardinality(Allocated') <= 2
AnyStep   == client = "any" /\ Undisciplined!Next

MCNext == UNCHANGED client /\ (CodecStep \/ FlatStep \/ AnyStep)
MCSpec == MCInit /\ [][MCNext]_<<vars, client>>

(***************************************************************************)
(* What holds of the codecs only: no trap is reached and no placeholder is *)
(* rolled up; of a Transform that refuses nothing, canEncodeNewValue knows *)
(* whether the encoder was used; and of ASN.1 on flat values, an error     *)
(* that a deinit delayed is reported.                                      *)
(***************************************************************************)
CodecsNeverTrap    == /\ client # "any" => NoTrap
                      /\ client = "codec" => NoPlaceholderRolledUp /\ CanEncodeIffUnused
FlatErrorsReported == client = "flat" => DelayedErrorReported

(* The encoder implements OrderedTree, for the codecs: items end up in the   *)
(* order they were requested, nested containers included, and what was       *)
(* handed over as a value is complete and never written again.               *)
CodecsBuildTree ==
  /\ client # "any" => Tree!Init
  /\ [][client # "any" => UNCHANGED Tree!treeVars \/ Tree!Next]_<<vars, client>>
=============================================================================
