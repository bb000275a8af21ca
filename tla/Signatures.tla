----------------------------- MODULE Signatures -----------------------------
(***************************************************************************)
(* Reading a method's arguments by its cached signature.  The cache keeps   *)
(* the first METHOD_SIG_MAX - 1 characters; the hook walks what is left     *)
(* twice, once to pull the values out of a va_list or a jvalue array and    *)
(* once to encode them, with two parsers that do not share their code.      *)
(***************************************************************************)
EXTENDS Integers, SequencesExt

CONSTANTS
  Types,     \* type descriptors, as sequences of characters
  MaxTypes,  \* parameters of a method
  MaxArgs    \* MAX_EXTRACTED_ARGS

End == "end"
Primitives == {"I", "J", "F", "D"}    \* Z, B, C and S are read as I is

\* The form the JVM gives a descriptor: brackets, then a primitive or a class name
\* between "L" and the first ";".  No character of a name is the terminator.
Descriptor(t) ==
  \E d \in DOMAIN t :
    /\ \A q \in 1 .. d - 1 : t[q] = "["
    /\ \/ t[d] \in Primitives /\ d = Len(t)
       \/ /\ t[d] = "L" /\ d < Len(t) /\ t[Len(t)] = ";"
          /\ \A q \in d + 1 .. Len(t) - 1 : t[q] \notin {";", End}

ASSUME SignatureAssumption ==
  /\ \A t \in Types : t \in Seq(Range(t)) /\ Descriptor(t)
  /\ MaxTypes \in Nat /\ MaxArgs \in Nat

VARIABLES
  params,    \* the types of the parameters the caller passes
  sig,       \* the signature the cache kept, terminator included
  place,     \* the position of the parser at work
  pulled,    \* per value taken: how it was read
  encoded,   \* per record written: the sign and the element sign
  phase

sigVars == <<params, sig, place, pulled, encoded, phase>>

Signature(types) == <<"(">> \o FlattenSeq(types) \o <<")", "V">>

SigInit ==
  /\ params \in SeqOf(Types, MaxTypes)
  /\ \E n \in 0 .. Len(Signature(params)) : sig = SubSeq(Signature(params), 1, n) \o <<End>>
  /\ place = 2
  /\ pulled = <<>> /\ encoded = <<>>
  /\ phase = IF sig[1] = "(" THEN "extract" ELSE "done"

Char == sig[place]

\* Where the first c is, from p on; one past the last character if there is none.
Seek(p, c) ==
  LET found == {q \in p .. Len(sig) : sig[q] = c} IN IF found = {} THEN Len(sig) + 1 ELSE Min(found)
Missing(p, c) == Seek(p, c) > Len(sig)

\* The first character from p on that does not open an array.
ItemAt(p) == Min({q \in p .. Len(sig) : sig[q] # "["})

\* sig_advance_one: past one descriptor, or nowhere if it is cut.
Malformed(p) ==
  LET e == ItemAt(p)
  IN \/ sig[e] = "L" /\ Missing(e, ";")
     \/ e > p /\ sig[e] = End
Advance(p) == LET e == ItemAt(p) IN IF sig[e] = "L" THEN Seek(e, ";") + 1 ELSE e + 1

\* How a type is read from a va_list: a float is promoted to double.
ReadAs(c) == CASE c = "I" -> "int" [] c = "J" -> "long" [] c \in {"F", "D"} -> "double" [] OTHER -> "pointer"

\* One round of extract_va_args and extract_jvalue_args: a reference is taken
\* before its descriptor is known to be whole.
Extract ==
  /\ phase = "extract"
  /\ Char \notin {")", End} /\ Len(pulled) < MaxArgs
  /\ Char \in {"L", "["} \cup Primitives
  /\ pulled' = Append(pulled, [char |-> Char, as |-> ReadAs(Char)])
  /\ IF Malformed(place)
     THEN place' = 2 /\ phase' = "encode"
     ELSE place' = Advance(place) /\ UNCHANGED phase
  /\ UNCHANGED <<params, sig, encoded>>

\* The end, no room left, or no type known.
EndExtract ==
  /\ phase = "extract"
  /\ \/ Char \in {")", End}
     \/ Len(pulled) = MaxArgs
     \/ Char \notin {"L", "["} \cup Primitives
  /\ place' = 2 /\ phase' = "encode"
  /\ UNCHANGED <<params, sig, pulled, encoded>>

\* Wrong variant: the element of an array is one character.
SkipOneCharElement(p) ==
  IF sig[p] # "L" THEN ItemAt(p) + 1
  ELSE IF Missing(p, ";") THEN Len(sig) ELSE Seek(p, ";") + 1

\* The encoder's own walk: to the semicolon or the terminator, and past whatever
\* ends the brackets of an array, the terminator too.
Skip(p) ==
  LET e == ItemAt(p)
  IN IF sig[e] # "L" THEN e + 1
     ELSE IF Missing(e, ";") THEN Len(sig) ELSE Seek(e, ";") + 1

MoreToEncode == Len(encoded) < Len(pulled)

\* One round of vis_encode_typed_args.
Encode ==
  /\ phase = "encode"
  /\ MoreToEncode /\ Char \notin {")", End}
  /\ encoded' = Append(encoded,
       [char |-> Char, item |-> sig[ItemAt(place)]])
  /\ place' = Skip(place)
  /\ UNCHANGED <<params, sig, pulled, phase>>

EndEncode ==
  /\ phase = "encode"
  /\ MoreToEncode => Char \in {")", End}
  /\ phase' = "done"
  /\ UNCHANGED <<params, sig, place, pulled, encoded>>

SigNext == Extract \/ EndExtract \/ Encode \/ EndEncode

SigSpec == SigInit /\ [][SigNext]_sigVars
-----------------------------------------------------------------------------
(* Properties.                                                              *)

\* The sign of an array's elements, whatever its depth; of another type itself.
ItemOf(type) == type[Min({q \in DOMAIN type : type[q] # "["})]

\* Wherever the cache cut the signature, each value is read as what the caller
\* passed in its place (a wrong read shifts all that follow); its record has the
\* sign it was read under, and an array the sign of its elements; and the encoder,
\* which may step over the terminator, never looks at what is behind it.
ParsersAgree ==
  /\ Len(pulled) <= Len(params)
  /\ \A i \in DOMAIN pulled :
       /\ pulled[i].as = ReadAs(params[i][1])
       /\ pulled[i].char = params[i][1]
  /\ \A i \in DOMAIN encoded :
       /\ encoded[i].char = pulled[i].char
       /\ encoded[i].item \in {ItemOf(params[i]), End}
  /\ phase = "encode" /\ MoreToEncode => place <= Len(sig)
  /\ phase = "done" /\ sig[1] = "(" => Len(encoded) = Len(pulled)
=============================================================================
