------------------------------ MODULE WireCodec ------------------------------
(***************************************************************************)
(* How values travel in an event: the hook encodes the arguments into one   *)
(* framed string, defers objects by a placeholder or renders them in place, *)
(* each string is cut to the room it has, and the reader substitutes what   *)
(* it rendered and decodes.  Six hooks (NewStringUTF, GetStringUTFChars,    *)
(* ThrowNew, ExceptionClear, FatalError, DefineClass) frame their arguments *)
(* by hand: they clip a text at a byte and do not escape it.                *)
(*                                                                          *)
(* A value is a record [kind, text, extra], an array [kind, of, items,      *)
(* more]; a text is a sequence of characters, a character the sequence of   *)
(* its bytes.                                                               *)
(***************************************************************************)
EXTENDS Integers, SequencesExt

CONSTANTS
  Arguments,   \* argument lists of a method call
  Objects,     \* receivers, fields' values, returned values, objects passed to JNI
  Limits,      \* room for a string, EV_STR_MAX_BYTES
  Aheads,      \* refs in the sidecar before the event pushes its own
  MaxRefs,     \* EVENT_PIPE_MAX_REFS
  MaxEmbedded  \* bytes of a text that a hook puts into a record by hand: 200 to 500

VARIABLES
  input,    \* [route, subject, args, ahead, limit]
  event,    \* [args, str, extra, kind]: the strings and the kind of the event
  shown,    \* [args, subject]: what the reader decodes
  stage

wireVars == <<input, event, shown, stage>>

\* The places an object has in an event.  A method call has typed arguments too;
\* the objects passed to another JNI function are arguments without a subject.
\* A sixth route, "embedded", has arguments framed by hand and no subject.
Routes == {"receiver", "passed", "returned", "field_receiver", "field_value"}

NoValue == [kind |-> "null", text |-> <<>>, extra |-> <<>>]
NoEvent == [args |-> <<>>, str |-> <<>>, extra |-> <<>>, kind |-> "null"]

Bytes(text) == FlattenSeq(text)
-----------------------------------------------------------------------------
(* Framing.                                                                 *)

\* Wrong variant: the placeholder's marker is not escaped.
FramingWithoutMarker == {1, 2, 3, 4, 5}

Framing == {1, 2, 3, 4, 5, 26}

Esc == 5
Marker == 26
Flip(b) == IF (b \div 64) % 2 = 1 THEN b - 64 ELSE b + 64   \* b ^ 0x40

Escape(s) == FlattenSeq([i \in DOMAIN s |-> IF s[i] \in Framing THEN <<Esc, Flip(s[i])>> ELSE <<s[i]>>])

UnescapeByte(r, b) ==
  CASE r.esc -> [out |-> Append(r.out, Flip(b)), esc |-> FALSE]
    [] ~r.esc /\ b = Esc -> [out |-> r.out, esc |-> TRUE]
    [] OTHER -> [out |-> Append(r.out, b), esc |-> FALSE]

Unescaped(s) ==
  LET run[i \in 0 .. Len(s)] ==
        IF i = 0 THEN [out |-> <<>>, esc |-> FALSE] ELSE UnescapeByte(run[i - 1], s[i])
  IN run[Len(s)]

\* An escape byte at the very end stands for itself.
Unescape(s) ==
  LET r == Unescaped(s) IN IF r.esc THEN Append(r.out, Esc) ELSE r.out

SplitByte(parts, x, b) ==
  IF x = b THEN Append(parts, <<>>) ELSE [parts EXCEPT ![Len(parts)] = Append(@, x)]

Split(s, b) ==
  LET run[i \in 0 .. Len(s)] == IF i = 0 THEN <<<<>>>> ELSE SplitByte(run[i - 1], s[i], b)
  IN run[Len(s)]

IndexOf(s, b) == SelectInSeq(s, LAMBDA x : x = b)
Before(s, b) == IF IndexOf(s, b) = 0 THEN s ELSE SubSeq(s, 1, IndexOf(s, b) - 1)
After(s, b) == IF IndexOf(s, b) = 0 THEN <<>> ELSE SubSeq(s, IndexOf(s, b) + 1, Len(s))
-----------------------------------------------------------------------------
(* The hook's side.  Arguments and objects are records with a kind: the     *)
(* sign character of the wire format.                                       *)

Sig(kind) == CASE kind = "string" -> 115 [] kind = "class" -> 99 [] kind = "object" -> 76
               [] kind = "int" -> 73 [] kind = "array" -> 91 [] OTHER -> 112

ObjectKinds == {"string", "class", "object"}

\* A value and what it prints besides its text, each escaped.
Content(o) ==
  Escape(Bytes(o.text)) \o (IF o.extra = <<>> THEN <<>> ELSE <<3>> \o Escape(Bytes(o.extra)))

\* renderRefChunk, and vis_encode_typed_args for all kinds but arrays.
Record(o) == <<Sig(o.kind), 1>> \o Content(o) \o <<2>>

\* vis_encode_array_items: an element sign, the elements, how many are left out.
ArrayRecord(a) ==
  <<Sig("array"), 1, Sig(a.of)>>
  \o FlattenSeq([i \in DOMAIN a.items |-> <<4>> \o Content(a.items[i])])
  \o (IF a.more = <<>> THEN <<>> ELSE <<4, 43>> \o Bytes(a.more)) \o <<2>>

EncodeArgs(args) ==
  FlattenSeq([i \in DOMAIN args |->
    IF args[i].kind = "array" THEN ArrayRecord(args[i]) ELSE Record(args[i])])

Placeholder(slot) == <<Marker, slot + 1>>

\* _log_obj_arg_call, _log_obj2_arg_call: deferred, or given up as null.
EncodePassed(n, ahead) ==
  FlattenSeq([i \in 1 .. n |->
    IF ahead + i <= MaxRefs THEN Placeholder(ahead + i - 1) ELSE <<Sig("null"), 1, 110, 2>>])

Clip(s) == SubSeq(s, 1, IF Len(s) <= MaxEmbedded THEN Len(s) ELSE MaxEmbedded)

\* Clipped, not escaped.
EmbeddedContent(o) ==
  (IF o.kind = "int" THEN Bytes(o.text) ELSE Clip(Bytes(o.text)))
  \o (IF o.extra = <<>> THEN <<>> ELSE <<3>> \o Clip(Bytes(o.extra)))

\* A record of a hook that frames it by hand.
EmbeddedRecord(o) == <<Sig(o.kind), 1>> \o EmbeddedContent(o) \o <<2>>

EncodeEmbedded(args) == FlattenSeq([i \in DOMAIN args |-> EmbeddedRecord(args[i])])

\* fill_object_strings and field_obj_parts: a placeholder under the deferred kind;
\* with the sidecar full the object is rendered in place, under its own kind for
\* a field's value and under the deferred kind for all others.
FillStrings(route, o, slot) ==
  IF slot < MaxRefs THEN [kind |-> "deferred", str |-> Placeholder(slot), extra |-> <<>>]
  ELSE [kind |-> IF route = "field_value" THEN o.kind ELSE "deferred",
        str |-> Bytes(o.text), extra |-> Bytes(o.extra)]

\* Wrong variant: a blind cut.
SafeLengthBlind(s, n) == IF n < Len(s) THEN n ELSE Len(s)

\* safe_trunc_len: back from a cut character, then from a cut placeholder or pair.
SafeLength(s, n) ==
  LET Whole == {k \in 0 .. n : k = 0 \/ s[k + 1] \notin 128 .. 191}
      k == Max(Whole)
  IN Max({j \in 0 .. k : j = 0 \/ s[j] \notin {Esc, Marker}})

CutTo(s, limit) == IF Len(s) <= limit THEN s ELSE SubSeq(s, 1, SafeLength(s, limit))
-----------------------------------------------------------------------------
(* The reader's side.                                                       *)

SubstituteByte(r, b, chunks) ==
  CASE r.mark /\ b - 1 \in 0 .. Len(chunks) - 1 -> [out |-> r.out \o chunks[b], mark |-> FALSE]
    [] r.mark /\ b - 1 \notin 0 .. Len(chunks) - 1 ->
         [out |-> r.out \o (IF b = Marker THEN <<Marker>> ELSE <<Marker, b>>), mark |-> b = Marker]
    [] ~r.mark /\ b = Marker -> [out |-> r.out, mark |-> TRUE]
    [] OTHER -> [out |-> Append(r.out, b), mark |-> FALSE]

Substituted(s, chunks) ==
  LET run[i \in 0 .. Len(s)] ==
        IF i = 0 THEN [out |-> <<>>, mark |-> FALSE] ELSE SubstituteByte(run[i - 1], s[i], chunks)
  IN run[Len(s)]

\* substitutePlaceholders.
Substitute(s, chunks) ==
  LET r == Substituted(s, chunks) IN IF r.mark THEN Append(r.out, Marker) ELSE r.out

KindOf(sig) == CASE sig = 115 -> "string" [] sig = 99 -> "class" [] sig = 76 -> "object"
                 [] sig = 73 -> "int" [] sig = 91 -> "array" [] OTHER -> "null"

Plain(kind, text, extra) == [kind |-> kind, text |-> text, extra |-> extra]

\* buildJNIValue for all kinds but arrays.
Leaf(kind, raw) ==
  CASE kind = "null" -> NoValue
    [] kind = "object" -> Plain(kind, Unescape(Before(raw, 3)), Unescape(After(raw, 3)))
    [] kind = "int" -> Plain(kind, raw, <<>>)
    [] OTHER -> Plain(kind, Unescape(raw), <<>>)

Digits == 48 .. 57
IsMore(part) == Len(part) > 1 /\ part[1] = 43 /\ \A i \in 2 .. Len(part) : part[i] \in Digits

BuildArray(raw) ==
  LET parts == Split(SubSeq(raw, 3, Len(raw)), 4)
      more == IsMore(parts[Len(parts)])
      items == IF more THEN Front(parts) ELSE parts
  IN IF Len(raw) > 2 /\ raw[2] = 4
     THEN [kind |-> "array", items |-> [i \in DOMAIN items |-> Leaf(KindOf(raw[1]), items[i])],
           more |-> IF more THEN Tail(parts[Len(parts)]) ELSE <<>>]
     ELSE [kind |-> "array", items |-> <<>>, more |-> <<>>]

Build(kind, raw) == IF kind = "array" THEN BuildArray(raw) ELSE Leaf(kind, raw)

\* A record without one sign character before the first 1 is skipped.
DecodeRecord(values, r) ==
  IF IndexOf(r, 1) = 2 THEN Append(values, Build(KindOf(r[1]), After(r, 1))) ELSE values

DecodeRecords(records) ==
  LET run[i \in 0 .. Len(records)] ==
        IF i = 0 THEN <<>> ELSE DecodeRecord(run[i - 1], records[i])
  IN run[Len(records)]

DecodeArgs(s) == DecodeRecords(Split(s, 2))

\* parseRenderedChunk.
ParseChunk(c) ==
  LET body == IF Last(c) = 2 THEN SubSeq(c, 3, Len(c) - 1) ELSE SubSeq(c, 3, Len(c))
  IN IF Len(c) < 2 \/ KindOf(c[1]) \notin ObjectKinds THEN NoValue
     ELSE IF Len(c) < 3 \/ c[2] # 1 THEN Plain(KindOf(c[1]), <<>>, <<>>)
     ELSE Plain(KindOf(c[1]), Unescape(Before(body, 3)), Unescape(After(body, 3)))

\* dispatchCall, dispatchReturn, dispatchEvent: the deferred kind is expanded,
\* but not for the receiver of a field access; then decodeSingleReceiver,
\* buildReturnValue.
DecodeSubject(route, e) ==
  LET v == IF e.kind = "deferred" /\ route # "field_receiver" THEN ParseChunk(e.str)
           ELSE Plain(e.kind, e.str, e.extra)
  IN IF v.kind \in ObjectKinds THEN v ELSE NoValue
-----------------------------------------------------------------------------
(* What there is to encode.                                                 *)

Continuation == 128 .. 191

\* Modified UTF-8: of the bytes of a character all but the first continue it.
IsCharacter(c) ==
  /\ c \in Seq(0 .. 255) /\ c # <<>>
  /\ \A i \in DOMAIN c : c[i] \in Continuation <=> i # 1

\* Without the slash, which the reader turns into a dot, and the word "null", which
\* it takes for a null reference.
IsText(t) ==
  /\ t \in Seq(Range(t)) /\ \A c \in Range(t) : IsCharacter(c) /\ c # <<47>>
  /\ Bytes(t) # <<110, 117, 108, 108>>

\* What a value of this kind prints; a number needs no escape.
IsValue(v, kind) ==
  /\ IsText(v.text) /\ IsText(v.extra)
  /\ v.extra # <<>> => kind = "object"
  /\ kind = "int" => \A c \in Range(v.text) : c[1] \notin Framing

\* No element is empty or begins with a plus sign, and what is left out is counted
\* in digits.
IsArray(a) ==
  /\ a.kind = "array" /\ a.of \in ObjectKinds \cup {"int"}
  /\ a.items \in Seq(Range(a.items))
  /\ \A v \in Range(a.items) : IsValue(v, a.of) /\ v.text # <<>> /\ v.text[1][1] # 43
  /\ a.more \in Seq({<<b>> : b \in Digits})

ASSUME WireAssumption ==
  /\ MaxRefs \in Nat /\ MaxEmbedded \in Nat /\ Aheads \subseteq Nat
  /\ Limits \subseteq Nat /\ \A n \in Limits : n >= 2
  /\ \A o \in Objects : o.kind \in ObjectKinds /\ IsValue(o, o.kind)
  /\ \A args \in Arguments :
       /\ args \in Seq(Range(args))
       /\ \A v \in Range(args) : IF v.kind = "array" THEN IsArray(v)
                                 ELSE v.kind \in ObjectKinds \cup {"int"} /\ IsValue(v, v.kind)
-----------------------------------------------------------------------------
(* The way of one event.                                                    *)

\* What is framed by hand holds no arrays.
Embeddings == {args \in Arguments : \A v \in Range(args) : v.kind # "array"}

\* The sidecar holds what filtered events left there, or the ref of the receiver
\* of the same field access.
WireInit ==
  /\ input \in [route : Routes, subject : Objects, args : {<<>>}, ahead : Aheads, limit : Limits]
            \cup [route : {"receiver"}, subject : Objects, args : Arguments, ahead : Aheads, limit : Limits]
            \cup [route : {"embedded"}, subject : Objects, args : Embeddings, ahead : Aheads, limit : Limits]
  /\ event = NoEvent
  /\ shown = [args |-> <<>>, subject |-> NoValue]
  /\ stage = "hook"

\* An object passed to IsSameObject and the like is passed twice.
ArgsString ==
  CASE input.route = "passed" -> EncodePassed(2, input.ahead)
    [] input.route = "embedded" -> EncodeEmbedded(input.args)
    [] OTHER -> EncodeArgs(input.args)

Subjectless == {"passed", "embedded"}

HookEncodes ==
  /\ stage = "hook"
  /\ LET filled == IF input.route \in Subjectless THEN NoEvent
                   ELSE FillStrings(input.route, input.subject, input.ahead)
     IN event' = [args |-> ArgsString, str |-> filled.str, extra |-> filled.extra, kind |-> filled.kind]
  /\ stage' = "append"
  /\ UNCHANGED <<input, shown>>

OnStrings(Op(_)) ==
  event' = [args |-> Op(event.args), str |-> Op(event.str), extra |-> Op(event.extra), kind |-> event.kind]

\* append_str on every string.
AppendStrings ==
  /\ stage = "append"
  /\ OnStrings(LAMBDA s : CutTo(s, input.limit))
  /\ stage' = "receive"
  /\ UNCHANGED <<input, shown>>

\* What the reader renders: the refs of the datagram's sidecar.  Those ahead
\* belong to other objects.
RenderedRefs ==
  LET own == CASE input.route = "passed" -> 2 [] input.route = "embedded" -> 0 [] OTHER -> 1
      n == IF input.ahead + own < MaxRefs THEN input.ahead + own ELSE MaxRefs
      stray == Plain("class", <<<<120>>>>, <<>>)
  IN [i \in 1 .. n |-> Record(IF i <= input.ahead THEN stray ELSE input.subject)]

\* dispatchEvent, on every string.
ReaderSubstitutes ==
  /\ stage = "receive"
  /\ OnStrings(LAMBDA s : Substitute(s, RenderedRefs))
  /\ stage' = "decode"
  /\ UNCHANGED <<input, shown>>

ReaderDecodes ==
  /\ stage = "decode"
  /\ shown' = [args |-> DecodeArgs(event.args), subject |-> DecodeSubject(input.route, event)]
  /\ stage' = "done"
  /\ UNCHANGED <<input, event>>

WireNext == HookEncodes \/ AppendStrings \/ ReaderSubstitutes \/ ReaderDecodes

WireSpec == WireInit /\ [][WireNext]_wireVars
-----------------------------------------------------------------------------
(* Properties.                                                              *)

\* A value of some kind as the log should show it.
ShownAs(kind, o) == Plain(kind, Bytes(o.text), Bytes(o.extra))
AsIs(o) == ShownAs(o.kind, o)

\* The arguments as the log should show them: an object passed to a JNI function
\* is given up when the sidecar is full.
TrueArgs ==
  IF input.route = "passed"
  THEN [i \in 1 .. 2 |-> IF input.ahead + i <= MaxRefs THEN input.subject ELSE NoValue]
  ELSE input.args

\* A text is shown whole, or broken off between two characters.
BeginsText(bytes, text) == \E n \in 0 .. Len(text) : bytes = Bytes(SubSeq(text, 1, n))

BeginsValue(v, kind, o) ==
  \/ v = ShownAs(kind, o)
  \/ v.kind = kind /\ BeginsText(v.text, o.text) /\ v.extra = <<>>
  \/ v.kind = kind /\ v.text = Bytes(o.text) /\ BeginsText(v.extra, o.extra)

\* An array is shown up to some element, the last one broken off.  The count of
\* elements left out may lose digits; what is left of it without a digit, its sign
\* or the separator before it, shows as one more element.
BeginsArray(v, a) ==
  /\ v.kind = "array"
  /\ BeginsText(v.more, a.more)
  /\ \A i \in DOMAIN v.items :
       \/ i < Len(v.items) /\ i \in DOMAIN a.items /\ v.items[i] = ShownAs(a.of, a.items[i])
       \/ i = Len(v.items) /\ i \in DOMAIN a.items /\ BeginsValue(v.items[i], a.of, a.items[i])
       \/ i = Len(a.items) + 1 /\ a.more # <<>> /\ v.items[i].text \in {<<>>, <<43>>}

WholeArg(v, a) ==
  IF a.kind = "array"
  THEN v = [kind |-> "array", more |-> Bytes(a.more),
            items |-> [i \in DOMAIN a.items |-> ShownAs(a.of, a.items[i])]]
  ELSE v = AsIs(a)

BeginsArg(v, a) == IF a.kind = "array" THEN BeginsArray(v, a) ELSE BeginsValue(v, a.kind, a)

Uncut == Len(ArgsString) <= input.limit

\* A value that a record framed by hand can carry: its texts are not clipped and
\* hold no framing byte, for those hooks do not escape.
Embeddable(o) == \A t \in {o.text, o.extra} :
  Len(Bytes(t)) <= MaxEmbedded /\ \A c \in Range(t) : c[1] \notin Framing

Carried == input.route = "embedded" => \A o \in Range(input.args) : Embeddable(o)

\* What has room in the event reaches the log as it is: every argument that the
\* encoders escape, with framing bytes, markers and multi-byte characters in its
\* text, and the object the event is about, whichever slot of the sidecar it
\* got, when it was deferred.  The exception are the records that six hooks frame
\* by hand: of these only a text that is not clipped and has no framing byte.
FittingIsShown == stage = "done" /\ Uncut /\ Carried =>
  /\ Len(shown.args) = Len(TrueArgs)
  /\ \A i \in DOMAIN shown.args : WholeArg(shown.args[i], TrueArgs[i])
  /\ input.ahead < MaxRefs /\ input.route \notin {"field_receiver"} \cup Subjectless =>
       shown.subject = AsIs(input.subject)

\* Wherever the room ends, the log shows the first arguments as they are and of
\* the last one a beginning: append_str's cut invents no argument, breaks no
\* character, leaves no half of an escape pair or of a placeholder behind.  It
\* speaks of this cut, not of the clip of a record framed by hand, which is blind
\* to characters.
CutKeepsFraming == stage = "done" /\ Carried =>
  /\ Len(shown.args) <= Len(TrueArgs)
  /\ \A i \in DOMAIN shown.args :
       IF i < Len(shown.args) THEN WholeArg(shown.args[i], TrueArgs[i])
       ELSE BeginsArg(shown.args[i], TrueArgs[i])

\* Text in a record framed by hand is shown as it is when nothing is clipped or
\* cut, as go/value.go:248-253 says of all values "embedded inside the \x01-\x04
\* framed arg/array/chunk encoding (string contents, class names, toString
\* results)": they "may themselves contain those framing bytes", and "the C
\* encoder (vis_append_escaped)" and the chunk builder escape such a byte.
EmbeddedTextShown ==
  LET Unclipped(o) == \A t \in {o.text, o.extra} : Len(Bytes(t)) <= MaxEmbedded
  IN stage = "done" /\ Uncut /\ input.route = "embedded"
     /\ (\A o \in Range(input.args) : Unclipped(o)) =>
       /\ Len(shown.args) = Len(input.args)
       /\ \A i \in DOMAIN shown.args : WholeArg(shown.args[i], input.args[i])

\* The object of a field access is shown like that of a call, as src/README.md:229
\* prints it ("[GetObjectField] this=ApplicationInfo{...} nativeLibraryDir: ...") and
\* hook_logging.c:337 says ("KindObject for instance field accesses").
FieldReceiverShown ==
  stage = "done" /\ input.route = "field_receiver" /\ input.ahead < MaxRefs =>
    shown.subject = AsIs(input.subject)
=============================================================================
