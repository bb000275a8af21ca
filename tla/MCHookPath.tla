----------------------------- MODULE MCHookPath -----------------------------
(***************************************************************************)
(* The components that a hook passes one after the other, checked in one    *)
(* run: `part` is the one that moves in a behavior, the others stand in     *)
(* their initial state.                                                     *)
(***************************************************************************)
EXTENDS ConfigGate, IdCache, RangeSet, JlAlloc, HookScopes, WireCodec, Signatures

VARIABLE part

Parts == {"gate", "ids", "ranges", "alloc", "scopes", "wire", "sigs"}

vars == <<gateVars, idVars, rangeVars, allocVars, scopeVars, wireVars, sigVars, part>>
-----------------------------------------------------------------------------
(* Four literals, two of which spell one name; names that share a slot.     *)

MCNameOf == [p \in {"p1", "p2", "p3", "p4"} |-> CASE p = "p3" -> "n2" [] p = "p4" -> "n3" [] OTHER -> "n1"]
MCHashOf == [n \in {"n1", "n2", "n3"} |-> IF n = "n3" THEN 0 ELSE 1]
MCConfigs == {
  [include |-> NoList, exclude |-> {"n1"}],
  [include |-> {"n2"}, exclude |-> {}],
  [include |-> {"n1", "n3"}, exclude |-> {"n3"}]}

MCIdHash == [id \in {"m1", "m2", "m3"} |-> IF id = "m3" THEN 0 ELSE 1]

(* Neighbouring libraries of one package, one of them in the maps only, one  *)
(* of another package beside the payload.                                    *)

MCSegment == [lib \in {"liba", "libb", "libother", "payload"} |->
  CASE lib = "liba" -> <<1, 3>> [] lib = "libb" -> <<3, 4>>
    [] lib = "libother" -> <<5, 6>> [] OTHER -> <<6, 7>>]
MCPathNames == [lib \in {"liba", "libb", "libother", "payload"} |->
  IF lib = "libother" THEN {"other"} ELSE {"app"}]
MCProcessNames == <<"app", "other">>

(* Texts with framing bytes, markers and characters of two bytes.           *)

a == <<97>>
s == <<115>>
eAcute == <<195, 169>>
Value(kind, text, extra) == [kind |-> kind, text |-> text, extra |-> extra]
Number(digits) == Value("int", digits, <<>>)
Array(of, items, more) == [kind |-> "array", of |-> of, items |-> items, more |-> more]

MCObjects == {
  Value("string", <<a, eAcute>>, <<>>),
  Value("string", <<s, <<2>>, <<26>>>>, <<>>),
  Value("class", <<eAcute>>, <<>>),
  Value("object", <<a>>, <<<<5>>, eAcute>>),
  Value("object", <<<<26>>, <<1>>>>, <<<<3>>>>)}
MCValues == MCObjects \cup {
  Number(<<<<49>>, <<50>>>>),
  Array("int", <<Number(<<<<49>>>>), Number(<<<<50>>>>)>>, <<>>),
  Array("int", <<>>, <<>>),
  Array("object", <<Value("string", <<<<4>>, eAcute>>, <<>>), Value("object", <<a>>, <<<<5>>>>)>>,
        <<<<49>>, <<50>>>>)}
MCArguments == {<<v>> : v \in MCValues} \cup {<<v, w>> : v, w \in MCValues}

MCTypes == {<<"I">>, <<"D">>, <<"L", "A", ";">>, <<"[", "J">>, <<"[", "[", "L", "A", ";">>}
-----------------------------------------------------------------------------
MCInit ==
  /\ part \in Parts
  /\ part # "gate" => config = [include |-> NoList, exclude |-> {"n1"}]
  /\ part # "ranges" => cmdline = NoPackage /\ visible = FALSE
  /\ part # "wire" => input = [route |-> "returned", subject |-> Value("class", <<eAcute>>, <<>>),
                               args |-> <<>>, ahead |-> 0, limit |-> 99]
  /\ part # "sigs" => params = <<>> /\ sig = <<End>>
  /\ GateInit /\ IdInit /\ RangeInit /\ AllocInit /\ ScopeInit /\ WireInit /\ SigInit

MCNext ==
  /\ UNCHANGED part
  /\ \/ /\ part = "gate" /\ GateNext
        /\ UNCHANGED <<idVars, rangeVars, allocVars, scopeVars, wireVars, sigVars>>
     \/ /\ part = "ids" /\ IdNext
        /\ UNCHANGED <<gateVars, rangeVars, allocVars, scopeVars, wireVars, sigVars>>
     \/ /\ part = "ranges" /\ RangeNext
        /\ UNCHANGED <<gateVars, idVars, allocVars, scopeVars, wireVars, sigVars>>
     \/ /\ part = "alloc" /\ AllocNext
        /\ UNCHANGED <<gateVars, idVars, rangeVars, scopeVars, wireVars, sigVars>>
     \/ /\ part = "scopes" /\ ScopeNext
        /\ UNCHANGED <<gateVars, idVars, rangeVars, allocVars, wireVars, sigVars>>
     \/ /\ part = "wire" /\ WireNext
        /\ UNCHANGED <<gateVars, idVars, rangeVars, allocVars, scopeVars, sigVars>>
     \/ /\ part = "sigs" /\ SigNext
        /\ UNCHANGED <<gateVars, idVars, rangeVars, allocVars, scopeVars, wireVars>>

MCSpec == MCInit /\ [][MCNext]_vars /\ GateFairness
=============================================================================
