-------------------------------- MODULE Token --------------------------------
(***************************************************************************)
(* The user data the driver hands to the platform with every submission    *)
(* queue entry and gets back with its completion (runtime/slab.rs, Token). *)
(* One machine word packs a kind bit, a slot index and a generation.       *)
(*                                                                         *)
(* MaxSlots is 2^INDEX_BITS and GenerationMask is 2^GENERATION_BITS - 1;   *)
(* the masks of the code are the remainders below.                         *)
(***************************************************************************)
EXTENDS Integers

CONSTANTS
  MaxSlots,        \* MAX_SLOTS, how many slots an index can address
  GenerationMask   \* the largest generation the token layout can hold

ASSUME TokenAssumption ==
  /\ MaxSlots \in Nat \ {0}
  /\ GenerationMask \in Nat \ {0}

TokenKind == {"Operation", "Cancel"}

\* Mutant: slots start at generation 0.
ZeroGeneration  == 0

FirstGeneration == 1
Generations     == FirstGeneration .. GenerationMask
Indices         == 0 .. MaxSlots - 1

KindBit(kind) == IF kind = "Operation" THEN 0 ELSE 1

NewToken(kind, index, generation) ==
  KindBit(kind)
    + 2 * ((index % MaxSlots) + MaxSlots * (generation % (GenerationMask + 1)))

Kind(token)       == IF token % 2 = 0 THEN "Operation" ELSE "Cancel"
Index(token)      == (token \div 2) % MaxSlots
Generation(token) == ((token \div 2) \div MaxSlots) % (GenerationMask + 1)

ToCancel(token)    == NewToken("Cancel", Index(token), Generation(token))
ToOperation(token) == NewToken("Operation", Index(token), Generation(token))

\* Every word the platform could hand back as user data.
Words == 0 .. 2 * MaxSlots * (GenerationMask + 1) - 1

\* The tokens insert can mint.
OpTokens == {NewToken("Operation", i, g) : i \in Indices, g \in Generations}
=============================================================================
