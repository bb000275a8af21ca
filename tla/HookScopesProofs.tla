--------------------------- MODULE HookScopesProofs ---------------------------
(***************************************************************************)
(* The re-entrancy guard, the critical-section counter and the exceptions of *)
(* a thread are right again after every hook, at any depth of nesting.       *)
(*                                                                           *)
(* What holds between two operations of a hook is a label: the level that    *)
(* the guard is at, what is known of exceptions, and what is known of        *)
(* critical sections.  Each sequence a hook or a helper may perform is shown *)
(* to lead from its label at the start to one at which a hook may return.    *)
(***************************************************************************)
EXTENDS HookScopes, TLAPS

\* What is known of exceptions: those pending are the ones the app is entitled to
\* (eq); there are none (none); the app's own is pending (own); only one of the
\* logger's calls is (failed); one may be, of code that was rendered (thrown);
\* the app's own was cleared (taken).  ExceptionsAgree says it of the state.
Exceptions == {"eq", "none", "own", "failed", "thrown", "taken"}
\* What is known of critical sections: none is open (outside); the count is right
\* (any), and one is open (inside); one was entered or left and is not yet
\* counted (entered, left).  SectionsAgree says it of the state.
Sectioned == {"outside", "any", "inside", "entered", "left"}
\* What holds of a hook between two operations; level is g_in_hook.
Labels == [level : Nat, ex : Exceptions, cs : Sectioned]
Label(v, e, c) == [level |-> v, ex |-> e, cs |-> c]

\* Everything a hook's sequence may hold.
HelperNames == {"Fill", "Arguments", "Result", "IsInstance", "ClassName", "ObjectClassName",
                "ToString", "StringValue", "ArrayItems", "ObjectArrayItems"}
Ops == HelperNames \cup {"up", "down", "jni", "mint", "delete", "log", "fail", "clear", "throw", "original",
   "throw_own", "clear_own", "enter", "refuse", "leave", "count", "uncount", "method", "render"}

\* Operations that change nothing a label tells.
Plain(op, l) ==
  \/ op = "log"
  \/ op = "delete" /\ l.cs = "outside"
  \/ op = "mint" /\ l.ex \in {"eq", "none", "own", "taken"} /\ l.cs = "outside"
  \/ op = "jni" /\ l.ex = "none" /\ l.cs = "outside"
  \/ op \in HelperNames /\ l.ex \in {"eq", "none"} /\ l.cs = "outside"

\* An operation of a hook that was called at level b takes it from l to m exactly.
Exact(op, l, m, b) ==
  \/ Plain(op, l) /\ m = l
  \/ op = "up" /\ m = Label(l.level + 1, l.ex, l.cs)
  \/ op = "down" /\ l.level > 0 /\ m = Label(l.level - 1, l.ex, l.cs)
  \/ op = "fail" /\ l.ex = "none" /\ l.cs = "outside" /\ m = Label(l.level, "failed", l.cs)
  \/ op = "clear" /\ l.ex \in {"none", "failed", "thrown"} /\ l.cs = "outside" /\ m = Label(l.level, "none", l.cs)
  \/ op = "clear" /\ l.ex \in {"own", "taken"} /\ l.cs = "outside" /\ m = Label(l.level, "taken", l.cs)
  \/ op = "throw" /\ l.ex = "taken" /\ l.cs = "outside" /\ m = Label(l.level, "own", l.cs)
  \/ op \in {"original", "throw_own"} /\ m = Label(l.level, "eq", l.cs)
  \/ op = "clear_own" /\ m = Label(l.level, "none", l.cs)
  \/ op \in {"enter", "refuse"} /\ l.level = b /\ l.cs = "any"
       /\ m = Label(b, "eq", IF b = 0 THEN "entered" ELSE "any")
  \/ op = "leave" /\ l.level = b /\ l.cs = "inside"
       /\ m = Label(b, "eq", IF b = 0 THEN "left" ELSE "any")
  \/ op = "count" /\ l.cs = "entered" /\ m = Label(l.level, l.ex, "any")
  \/ op = "uncount" /\ l.cs = "left" /\ m = Label(l.level, l.ex, "any")
  \/ op = "method" /\ l.level = b /\ l.ex = "eq" /\ l.cs = "outside" /\ m = Label(b, "eq", "outside")
  \/ op = "render" /\ l.level > 0 /\ l.ex = "none" /\ l.cs = "outside" /\ m = Label(l.level, "thrown", "outside")

\* What is known after l is known of k.
Weaker(l, k) == k = l \/ (l.ex = "none" /\ k = Label(l.level, "eq", l.cs))

\* The same, if something that is known has to be forgotten first.
Leads(op, l, m, b) == \E k \in Labels : Weaker(l, k) /\ Exact(op, k, m, b)

\* The operations take the hook from l to m.
Runs(ops, l, m, b) ==
  /\ ops \in Seq(Ops)
  /\ \E lab \in [1 .. Len(ops) + 1 -> Labels] :
       /\ lab[1] = l /\ lab[Len(ops) + 1] = m
       /\ \A i \in 1 .. Len(ops) : Leads(ops[i], lab[i], lab[i + 1], b)

\* A hook that was called at level b may return.
Ended(l, b) == l.level = b /\ l.ex \in {"eq", "none", "own"} /\ l.cs \in {"outside", "any"}

\* The operations left take the hook to where it may return.
Finishes(ops, l, b) == \E m \in Labels : Runs(ops, l, m, b) /\ Ended(m, b)

\* A hook that has nothing to do stays where it is.
LEMMA RunsNone ==
  ASSUME NEW l \in Labels, NEW b
  PROVE  Runs(<<>>, l, l, b)
<1> DEFINE lab == [i \in 1 .. 1 |-> l]
<1>1. lab \in [1 .. Len(<<>>) + 1 -> Labels] /\ lab[1] = l /\ lab[Len(<<>>) + 1] = l
  OBVIOUS
<1>2. <<>> \in Seq(Ops) /\ \A i \in 1 .. Len(<<>>) : FALSE
  OBVIOUS
<1> QED
  BY <1>1, <1>2 DEF Runs

\* Two sequences after one another: the labels are joined at the middle one.
LEMMA RunsConcat ==
  ASSUME NEW b, NEW l \in Labels, NEW m \in Labels, NEW z \in Labels, NEW s, NEW t,
         Runs(s, l, m, b), Runs(t, m, z, b)
  PROVE  Runs(s \o t, l, z, b)
<1>1. s \in Seq(Ops) /\ t \in Seq(Ops)
  BY DEF Runs
<1>2. PICK f \in [1 .. Len(s) + 1 -> Labels] :
        /\ f[1] = l /\ f[Len(s) + 1] = m
        /\ \A i \in 1 .. Len(s) : Leads(s[i], f[i], f[i + 1], b)
  BY DEF Runs
<1>3. PICK g \in [1 .. Len(t) + 1 -> Labels] :
        /\ g[1] = m /\ g[Len(t) + 1] = z
        /\ \A i \in 1 .. Len(t) : Leads(t[i], g[i], g[i + 1], b)
  BY DEF Runs
<1>4. PICK p \in Nat, q \in Nat : p = Len(s) /\ q = Len(t)
  BY <1>1
<1>5. /\ s \o t \in Seq(Ops) /\ Len(s \o t) = p + q
      /\ \A i \in 1 .. p + q : (s \o t)[i] = IF i <= p THEN s[i] ELSE t[i - p]
  BY <1>1, <1>4
<1> DEFINE h == [i \in 1 .. p + q + 1 |-> IF i <= p THEN f[i] ELSE g[i - p]]
<1>6. h \in [1 .. p + q + 1 -> Labels]
  <2>1. ASSUME NEW i \in 1 .. p + q + 1 PROVE (IF i <= p THEN f[i] ELSE g[i - p]) \in Labels
    <3>1. CASE i <= p
      BY <1>2, <1>4, <3>1
    <3>2. CASE ~(i <= p)
      <4>1. i - p \in 1 .. q + 1
        BY <3>2
      <4> QED
        BY <1>3, <1>4, <3>2, <4>1
    <3> QED
      BY <3>1, <3>2
  <2> QED
    BY <2>1
<1>7. h[1] = l /\ h[p + q + 1] = z /\ \A i \in 1 .. p + 1 : h[i] = f[i]
  <2>1. \A i \in 1 .. p + 1 : h[i] = f[i]
    <3> SUFFICES ASSUME NEW i \in 1 .. p + 1 PROVE h[i] = f[i]
      OBVIOUS
    <3>1. i \in 1 .. p + q + 1
      OBVIOUS
    <3>2. CASE i <= p
      BY <3>1, <3>2
    <3>3. CASE i = p + 1
      <4>1. h[i] = g[1]
        BY <3>1, <3>3
      <4> QED
        BY <1>2, <1>3, <1>4, <3>3, <4>1
    <3> QED
      BY <3>2, <3>3
  <2>2. h[p + q + 1] = g[q + 1]
    OBVIOUS
  <2>3. 1 \in 1 .. p + 1
    OBVIOUS
  <2> QED
    BY <1>2, <1>3, <1>4, <2>1, <2>2, <2>3
<1>8. ASSUME NEW i \in 1 .. p + q PROVE Leads((s \o t)[i], h[i], h[i + 1], b)
  <2>1. CASE i <= p
    <3>1. i \in 1 .. p /\ i \in 1 .. p + 1 /\ i + 1 \in 1 .. p + 1
      BY <2>1
    <3>2. h[i] = f[i] /\ h[i + 1] = f[i + 1] /\ (s \o t)[i] = s[i]
      BY <1>5, <1>7, <2>1, <3>1
    <3>3. Leads(s[i], f[i], f[i + 1], b)
      BY <1>2, <1>4, <3>1
    <3> HIDE DEF h
    <3> QED
      BY <3>2, <3>3
  <2>2. CASE ~(i <= p)
    <3>1. i - p \in 1 .. q /\ i + 1 \in 1 .. p + q + 1 /\ i \in 1 .. p + q + 1 /\ ~(i + 1 <= p)
          /\ (i + 1) - p = (i - p) + 1
      BY <2>2
    <3>2. h[i] = g[i - p] /\ h[i + 1] = g[(i - p) + 1] /\ (s \o t)[i] = t[i - p]
      BY <1>5, <2>2, <3>1
    <3>3. Leads(t[i - p], g[i - p], g[(i - p) + 1], b)
      BY <1>3, <1>4, <3>1
    <3> HIDE DEF h
    <3> QED
      BY <3>2, <3>3
  <2> QED
    BY <2>1, <2>2
<1> HIDE DEF h
<1> QED
  BY <1>5, <1>6, <1>7, <1>8 DEF Runs

\* A sequence that leads somewhere does so by its first operation and the rest.
LEMMA RunsFirst ==
  ASSUME NEW b, NEW ops, NEW l, NEW z, Runs(ops, l, z, b), ops # <<>>
  PROVE  /\ Head(ops) \in Ops /\ Tail(ops) \in Seq(Ops)
         /\ \E m \in Labels : Leads(Head(ops), l, m, b) /\ Runs(Tail(ops), m, z, b)
<1>1. ops \in Seq(Ops)
  BY DEF Runs
<1>2. PICK f \in [1 .. Len(ops) + 1 -> Labels] :
        /\ f[1] = l /\ f[Len(ops) + 1] = z
        /\ \A i \in 1 .. Len(ops) : Leads(ops[i], f[i], f[i + 1], b)
  BY DEF Runs
<1>3. PICK n \in Nat : n + 1 = Len(ops)
  <2>1. Len(ops) \in Nat \ {0}
    BY <1>1
  <2> QED
    BY <2>1
<1>4. /\ Tail(ops) \in Seq(Ops) /\ Len(Tail(ops)) = n /\ Head(ops) = ops[1] /\ Head(ops) \in Ops
      /\ \A i \in 1 .. n : Tail(ops)[i] = ops[i + 1]
  BY <1>1, <1>3
<1> DEFINE g == [i \in 1 .. n + 1 |-> f[i + 1]]
<1>5. g \in [1 .. n + 1 -> Labels]
  BY <1>2, <1>3
<1>6. g[1] = f[2] /\ g[n + 1] = z
  BY <1>2, <1>3
<1>7. ASSUME NEW i \in 1 .. n PROVE Leads(Tail(ops)[i], g[i], g[i + 1], b)
  <2>1. i + 1 \in 1 .. n + 1 /\ i \in 1 .. n + 1
    OBVIOUS
  <2>2. g[i] = f[i + 1] /\ g[i + 1] = f[(i + 1) + 1]
    BY <2>1
  <2>3. Leads(ops[i + 1], f[i + 1], f[(i + 1) + 1], b)
    BY <1>2, <1>3, <2>1
  <2> HIDE DEF g
  <2> QED
    BY <1>4, <2>2, <2>3
<1>8. Leads(Head(ops), l, f[2], b) /\ f[2] \in Labels
  <2>1. 1 \in 1 .. Len(ops) /\ 1 + 1 = 2 /\ 2 \in 1 .. Len(ops) + 1
    BY <1>3
  <2>2. Leads(ops[1], f[1], f[1 + 1], b)
    BY <1>2, <2>1
  <2> QED
    BY <1>2, <1>4, <2>1, <2>2
<1> HIDE DEF g
<1>9. Runs(Tail(ops), f[2], z, b)
  BY <1>4, <1>5, <1>6, <1>7 DEF Runs
<1> QED
  BY <1>4, <1>8, <1>9

\* Nothing left to do: the label is the last one.
LEMMA RunsOver ==
  ASSUME NEW b, NEW l, NEW z, Runs(<<>>, l, z, b)
  PROVE  l = z
BY DEF Runs

\* One operation.
LEMMA RunsOne ==
  ASSUME NEW b, NEW op \in Ops, NEW l \in Labels, NEW m \in Labels, Leads(op, l, m, b)
  PROVE  Runs(<<op>>, l, m, b)
<1> DEFINE lab == [i \in 1 .. 2 |-> IF i = 1 THEN l ELSE m]
<1>1. <<op>> \in Seq(Ops) /\ Len(<<op>>) = 1
  OBVIOUS
<1>2. lab \in [1 .. 2 -> Labels] /\ lab[1] = l /\ lab[2] = m
  OBVIOUS
<1> HIDE DEF lab
<1>3. \A i \in 1 .. 1 : Leads(<<op>>[i], lab[i], lab[i + 1], b)
  <2>1. \A i \in 1 .. 1 : i = 1 /\ i + 1 = 2
    OBVIOUS
  <2> QED
    BY <1>2, <2>1
<1> QED
  BY <1>1, <1>2, <1>3 DEF Runs

\* One operation more, in front.
LEMMA RunsCons ==
  ASSUME NEW b, NEW op \in Ops, NEW l \in Labels, NEW m \in Labels, NEW z \in Labels, NEW ops,
         Leads(op, l, m, b), Runs(ops, m, z, b)
  PROVE  Runs(<<op>> \o ops, l, z, b)
BY RunsOne, RunsConcat

\* Two operations, by the label between them.
LEMMA Run2 ==
  ASSUME NEW b, NEW o1 \in Ops, NEW o2 \in Ops,
         NEW l1 \in Labels, NEW l2 \in Labels, NEW l3 \in Labels,
         Leads(o1, l1, l2, b), Leads(o2, l2, l3, b)
  PROVE  Runs(<<o1, o2>>, l1, l3, b)
<1> DEFINE lab == [i \in 1 .. 3 |-> IF i = 1 THEN l1 ELSE IF i = 2 THEN l2 ELSE l3]
<1>1. <<o1, o2>> \in Seq(Ops) /\ Len(<<o1, o2>>) = 2
  OBVIOUS
<1>2. lab \in [1 .. 3 -> Labels] /\ lab[1] = l1 /\ lab[2] = l2 /\ lab[3] = l3
  OBVIOUS
<1> HIDE DEF lab
<1>3. ASSUME NEW i \in 1 .. 2 PROVE Leads(<<o1, o2>>[i], lab[i], lab[i + 1], b)
  <2>1. i = 1 \/ i = 2
    OBVIOUS
  <2>2. CASE i = 1
    BY <1>2, <2>2
  <2>3. CASE i = 2
    BY <1>2, <2>3
  <2> QED
    BY <2>1, <2>2, <2>3
<1> QED
  BY <1>1, <1>2, <1>3 DEF Runs

\* Three operations, by the labels between them.
LEMMA Run3 ==
  ASSUME NEW b, NEW o1 \in Ops, NEW o2 \in Ops, NEW o3 \in Ops,
         NEW l1 \in Labels, NEW l2 \in Labels, NEW l3 \in Labels, NEW l4 \in Labels,
         Leads(o1, l1, l2, b), Leads(o2, l2, l3, b), Leads(o3, l3, l4, b)
  PROVE  Runs(<<o1, o2, o3>>, l1, l4, b)
<1> DEFINE lab == [i \in 1 .. 4 |-> IF i = 1 THEN l1 ELSE IF i = 2 THEN l2 ELSE IF i = 3 THEN l3 ELSE l4]
<1>1. <<o1, o2, o3>> \in Seq(Ops) /\ Len(<<o1, o2, o3>>) = 3
  OBVIOUS
<1>2. lab \in [1 .. 4 -> Labels] /\ lab[1] = l1 /\ lab[2] = l2 /\ lab[3] = l3 /\ lab[4] = l4
  OBVIOUS
<1> HIDE DEF lab
<1>3. ASSUME NEW i \in 1 .. 3 PROVE Leads(<<o1, o2, o3>>[i], lab[i], lab[i + 1], b)
  <2>1. i = 1 \/ i = 2 \/ i = 3
    OBVIOUS
  <2>2. CASE i = 1
    BY <1>2, <2>2
  <2>3. CASE i = 2
    BY <1>2, <2>3
  <2>4. CASE i = 3
    BY <1>2, <2>4
  <2> QED
    BY <2>1, <2>2, <2>3, <2>4
<1> QED
  BY <1>1, <1>2, <1>3 DEF Runs

\* Four operations, by the labels between them.
LEMMA Run4 ==
  ASSUME NEW b, NEW o1 \in Ops, NEW o2 \in Ops, NEW o3 \in Ops, NEW o4 \in Ops,
         NEW l1 \in Labels, NEW l2 \in Labels, NEW l3 \in Labels, NEW l4 \in Labels, NEW l5 \in Labels,
         Leads(o1, l1, l2, b), Leads(o2, l2, l3, b), Leads(o3, l3, l4, b), Leads(o4, l4, l5, b)
  PROVE  Runs(<<o1, o2, o3, o4>>, l1, l5, b)
<1> DEFINE lab == [i \in 1 .. 5 |-> IF i = 1 THEN l1 ELSE IF i = 2 THEN l2 ELSE IF i = 3 THEN l3 ELSE IF i = 4 THEN l4 ELSE l5]
<1>1. <<o1, o2, o3, o4>> \in Seq(Ops) /\ Len(<<o1, o2, o3, o4>>) = 4
  OBVIOUS
<1>2. lab \in [1 .. 5 -> Labels] /\ lab[1] = l1 /\ lab[2] = l2 /\ lab[3] = l3 /\ lab[4] = l4 /\ lab[5] = l5
  OBVIOUS
<1> HIDE DEF lab
<1>3. ASSUME NEW i \in 1 .. 4 PROVE Leads(<<o1, o2, o3, o4>>[i], lab[i], lab[i + 1], b)
  <2>1. i = 1 \/ i = 2 \/ i = 3 \/ i = 4
    OBVIOUS
  <2>2. CASE i = 1
    BY <1>2, <2>2
  <2>3. CASE i = 2
    BY <1>2, <2>3
  <2>4. CASE i = 3
    BY <1>2, <2>4
  <2>5. CASE i = 4
    BY <1>2, <2>5
  <2> QED
    BY <2>1, <2>2, <2>3, <2>4, <2>5
<1> QED
  BY <1>1, <1>2, <1>3 DEF Runs

\* Five operations, by the labels between them.
LEMMA Run5 ==
  ASSUME NEW b, NEW o1 \in Ops, NEW o2 \in Ops, NEW o3 \in Ops, NEW o4 \in Ops, NEW o5 \in Ops,
         NEW l1 \in Labels, NEW l2 \in Labels, NEW l3 \in Labels, NEW l4 \in Labels, NEW l5 \in Labels, NEW l6 \in Labels,
         Leads(o1, l1, l2, b), Leads(o2, l2, l3, b), Leads(o3, l3, l4, b), Leads(o4, l4, l5, b), Leads(o5, l5, l6, b)
  PROVE  Runs(<<o1, o2, o3, o4, o5>>, l1, l6, b)
<1> DEFINE lab == [i \in 1 .. 6 |-> IF i = 1 THEN l1 ELSE IF i = 2 THEN l2 ELSE IF i = 3 THEN l3 ELSE IF i = 4 THEN l4 ELSE IF i = 5 THEN l5 ELSE l6]
<1>1. <<o1, o2, o3, o4, o5>> \in Seq(Ops) /\ Len(<<o1, o2, o3, o4, o5>>) = 5
  OBVIOUS
<1>2. lab \in [1 .. 6 -> Labels] /\ lab[1] = l1 /\ lab[2] = l2 /\ lab[3] = l3 /\ lab[4] = l4 /\ lab[5] = l5 /\ lab[6] = l6
  OBVIOUS
<1> HIDE DEF lab
<1>3. ASSUME NEW i \in 1 .. 5 PROVE Leads(<<o1, o2, o3, o4, o5>>[i], lab[i], lab[i + 1], b)
  <2>1. i = 1 \/ i = 2 \/ i = 3 \/ i = 4 \/ i = 5
    OBVIOUS
  <2>2. CASE i = 1
    BY <1>2, <2>2
  <2>3. CASE i = 2
    BY <1>2, <2>3
  <2>4. CASE i = 3
    BY <1>2, <2>4
  <2>5. CASE i = 4
    BY <1>2, <2>5
  <2>6. CASE i = 5
    BY <1>2, <2>6
  <2> QED
    BY <2>1, <2>2, <2>3, <2>4, <2>5, <2>6
<1> QED
  BY <1>1, <1>2, <1>3 DEF Runs

\* Six operations, by the labels between them.
LEMMA Run6 ==
  ASSUME NEW b, NEW o1 \in Ops, NEW o2 \in Ops, NEW o3 \in Ops, NEW o4 \in Ops, NEW o5 \in Ops, NEW o6 \in Ops,
         NEW l1 \in Labels, NEW l2 \in Labels, NEW l3 \in Labels, NEW l4 \in Labels, NEW l5 \in Labels, NEW l6 \in Labels, NEW l7 \in Labels,
         Leads(o1, l1, l2, b), Leads(o2, l2, l3, b), Leads(o3, l3, l4, b), Leads(o4, l4, l5, b), Leads(o5, l5, l6, b), Leads(o6, l6, l7, b)
  PROVE  Runs(<<o1, o2, o3, o4, o5, o6>>, l1, l7, b)
<1> DEFINE lab == [i \in 1 .. 7 |-> IF i = 1 THEN l1 ELSE IF i = 2 THEN l2 ELSE IF i = 3 THEN l3 ELSE IF i = 4 THEN l4 ELSE IF i = 5 THEN l5 ELSE IF i = 6 THEN l6 ELSE l7]
<1>1. <<o1, o2, o3, o4, o5, o6>> \in Seq(Ops) /\ Len(<<o1, o2, o3, o4, o5, o6>>) = 6
  OBVIOUS
<1>2. lab \in [1 .. 7 -> Labels] /\ lab[1] = l1 /\ lab[2] = l2 /\ lab[3] = l3 /\ lab[4] = l4 /\ lab[5] = l5 /\ lab[6] = l6 /\ lab[7] = l7
  OBVIOUS
<1> HIDE DEF lab
<1>3. ASSUME NEW i \in 1 .. 6 PROVE Leads(<<o1, o2, o3, o4, o5, o6>>[i], lab[i], lab[i + 1], b)
  <2>1. i = 1 \/ i = 2 \/ i = 3 \/ i = 4 \/ i = 5 \/ i = 6
    OBVIOUS
  <2>2. CASE i = 1
    BY <1>2, <2>2
  <2>3. CASE i = 2
    BY <1>2, <2>3
  <2>4. CASE i = 3
    BY <1>2, <2>4
  <2>5. CASE i = 4
    BY <1>2, <2>5
  <2>6. CASE i = 5
    BY <1>2, <2>6
  <2>7. CASE i = 6
    BY <1>2, <2>7
  <2> QED
    BY <2>1, <2>2, <2>3, <2>4, <2>5, <2>6, <2>7
<1> QED
  BY <1>1, <1>2, <1>3 DEF Runs

\* Seven operations, by the labels between them.
LEMMA Run7 ==
  ASSUME NEW b, NEW o1 \in Ops, NEW o2 \in Ops, NEW o3 \in Ops, NEW o4 \in Ops, NEW o5 \in Ops, NEW o6 \in Ops, NEW o7 \in Ops,
         NEW l1 \in Labels, NEW l2 \in Labels, NEW l3 \in Labels, NEW l4 \in Labels, NEW l5 \in Labels, NEW l6 \in Labels, NEW l7 \in Labels, NEW l8 \in Labels,
         Leads(o1, l1, l2, b), Leads(o2, l2, l3, b), Leads(o3, l3, l4, b), Leads(o4, l4, l5, b), Leads(o5, l5, l6, b), Leads(o6, l6, l7, b), Leads(o7, l7, l8, b)
  PROVE  Runs(<<o1, o2, o3, o4, o5, o6, o7>>, l1, l8, b)
<1> DEFINE lab == [i \in 1 .. 8 |-> IF i = 1 THEN l1 ELSE IF i = 2 THEN l2 ELSE IF i = 3 THEN l3 ELSE IF i = 4 THEN l4 ELSE IF i = 5 THEN l5 ELSE IF i = 6 THEN l6 ELSE IF i = 7 THEN l7 ELSE l8]
<1>1. <<o1, o2, o3, o4, o5, o6, o7>> \in Seq(Ops) /\ Len(<<o1, o2, o3, o4, o5, o6, o7>>) = 7
  OBVIOUS
<1>2. lab \in [1 .. 8 -> Labels] /\ lab[1] = l1 /\ lab[2] = l2 /\ lab[3] = l3 /\ lab[4] = l4 /\ lab[5] = l5 /\ lab[6] = l6 /\ lab[7] = l7 /\ lab[8] = l8
  OBVIOUS
<1> HIDE DEF lab
<1>3. ASSUME NEW i \in 1 .. 7 PROVE Leads(<<o1, o2, o3, o4, o5, o6, o7>>[i], lab[i], lab[i + 1], b)
  <2>1. i = 1 \/ i = 2 \/ i = 3 \/ i = 4 \/ i = 5 \/ i = 6 \/ i = 7
    OBVIOUS
  <2>2. CASE i = 1
    BY <1>2, <2>2
  <2>3. CASE i = 2
    BY <1>2, <2>3
  <2>4. CASE i = 3
    BY <1>2, <2>4
  <2>5. CASE i = 4
    BY <1>2, <2>5
  <2>6. CASE i = 5
    BY <1>2, <2>6
  <2>7. CASE i = 6
    BY <1>2, <2>7
  <2>8. CASE i = 7
    BY <1>2, <2>8
  <2> QED
    BY <2>1, <2>2, <2>3, <2>4, <2>5, <2>6, <2>7, <2>8
<1> QED
  BY <1>1, <1>2, <1>3 DEF Runs

\* What can be finished knowing that the exceptions agree can be finished knowing that
\* there is none: a helper that ran leaves its caller knowing more.
LEMMA StrongerStart ==
  ASSUME NEW b, NEW ops, NEW l \in Labels, Finishes(ops, l, b), l.ex = "eq", NEW k \in Labels,
         k = Label(l.level, "none", l.cs)
  PROVE  Finishes(ops, k, b)
<1>1. PICK z \in Labels : Runs(ops, l, z, b) /\ Ended(z, b)
  BY DEF Finishes
<1>2. CASE ops = <<>>
  <2>1. z = l
    BY <1>1, <1>2, RunsOver
  <2>2. Ended(k, b)
    BY <1>1, <2>1 DEF Ended, Label
  <2> QED
    BY <1>2, <2>2, RunsNone DEF Finishes
<1>3. CASE ops # <<>>
  <2>1. PICK m \in Labels : Leads(Head(ops), l, m, b) /\ Runs(Tail(ops), m, z, b)
    BY <1>1, <1>3, RunsFirst
  <2>2. PICK w \in Labels : Weaker(l, w) /\ Exact(Head(ops), w, m, b)
    BY <2>1 DEF Leads
  <2>3. w = l
    BY <2>2 DEF Weaker
  <2>4. k.ex = "none" /\ k.level = l.level /\ k.cs = l.cs /\ l = Label(l.level, "eq", l.cs)
    BY DEF Label, Labels
  <2>5. Weaker(k, l)
    BY <2>4 DEF Weaker
  <2>6. Leads(Head(ops), k, m, b)
    BY <2>2, <2>3, <2>5 DEF Leads
  <2>7. ops \in Seq(Ops) /\ Head(ops) \in Ops /\ ops = <<Head(ops)>> \o Tail(ops)
    <3>1. ops \in Seq(Ops)
      BY <1>1 DEF Runs
    <3> QED
      BY <1>3, <3>1
  <2>8. Runs(<<Head(ops)>> \o Tail(ops), k, z, b)
    BY <2>1, <2>6, <2>7, RunsCons
  <2> QED
    BY <1>1, <2>7, <2>8 DEF Finishes
<1> QED
  BY <1>2, <1>3

-----------------------------------------------------------------------------
\* The parts of a label.
LEMMA Labelled ==
  ASSUME NEW v \in Nat, NEW e \in Exceptions, NEW c \in Sectioned
  PROVE  /\ Label(v, e, c) \in Labels
         /\ Label(v, e, c).level = v /\ Label(v, e, c).ex = e /\ Label(v, e, c).cs = c
BY DEF Label, Labels

\* A label is its parts.
LEMMA OneOfLabels ==
  ASSUME NEW l \in Labels
  PROVE  l = Label(l.level, l.ex, l.cs) /\ l.level \in Nat /\ l.ex \in Exceptions /\ l.cs \in Sectioned
BY DEF Label, Labels

\* An exact step needs nothing to be forgotten.
LEMMA ExactLeads ==
  ASSUME NEW op, NEW l \in Labels, NEW m, NEW b, Exact(op, l, m, b)
  PROVE  Leads(op, l, m, b)
BY DEF Leads, Weaker

\* set_reentrant_call raises and lowers the level by one.
LEMMA RaiseLower ==
  ASSUME NEW b, NEW v \in Nat, NEW e \in Exceptions, NEW c \in Sectioned
  PROVE  /\ Leads("up", Label(v, e, c), Label(v + 1, e, c), b)
         /\ Leads("down", Label(v + 1, e, c), Label(v, e, c), b)
         /\ v + 1 \in Nat
<1>1. v + 1 \in Nat /\ v + 1 > 0 /\ (v + 1) - 1 = v
  OBVIOUS
<1>2. /\ Exact("up", Label(v, e, c), Label(v + 1, e, c), b)
      /\ Exact("down", Label(v + 1, e, c), Label(v, e, c), b)
  BY <1>1, Labelled DEF Exact
<1> QED
  BY <1>1, <1>2, Labelled, ExactLeads

\* Operations that change nothing a label tells leave it as it is.
LEMMA RunsIdle ==
  ASSUME NEW b, NEW l \in Labels, NEW ops \in Seq(Ops),
         \A i \in 1 .. Len(ops) : Plain(ops[i], l)
  PROVE  Runs(ops, l, l, b)
<1>1. PICK n \in Nat : n = Len(ops)
  OBVIOUS
<1> DEFINE lab == [i \in 1 .. n + 1 |-> l]
<1>2. lab \in [1 .. n + 1 -> Labels] /\ lab[1] = l /\ lab[n + 1] = l
  OBVIOUS
<1>3. ASSUME NEW i \in 1 .. n PROVE Leads(ops[i], lab[i], lab[i + 1], b)
  <2>1. lab[i] = l /\ lab[i + 1] = l
    OBVIOUS
  <2> HIDE DEF lab
  <2>2. Exact(ops[i], l, l, b)
    BY <1>1 DEF Exact
  <2> QED
    BY <2>1, <2>2, ExactLeads
<1> HIDE DEF lab
<1> QED
  BY <1>1, <1>2, <1>3 DEF Runs

\* Operations that leave a label as it is where helpers may run.
Quiet == HelperNames \cup {"log", "delete", "mint"}

\* Helpers, log calls and deferred objects, in any number, leave a label as it is, since a helper either
\* does nothing or balances what it does.
LEMMA RunsQuiet ==
  ASSUME NEW b, NEW v \in Nat, NEW e \in {"eq", "none"}, NEW ops \in Seq(Quiet)
  PROVE  Runs(ops, Label(v, e, "outside"), Label(v, e, "outside"), b)
<1>1. ops \in Seq(Ops)
  BY DEF Quiet, Ops
<1>2. e \in Exceptions /\ "outside" \in Sectioned
  BY DEF Exceptions, Sectioned
<1>3. \A i \in 1 .. Len(ops) : ops[i] \in Quiet
  OBVIOUS
<1>4. ASSUME NEW op \in Quiet PROVE Plain(op, Label(v, e, "outside"))
  BY <1>2, Labelled DEF Plain, Quiet
<1> QED
  BY <1>1, <1>2, <1>3, <1>4, RunsIdle, Labelled

\* Logging changes nothing.
LEMMA RunsLog ==
  ASSUME NEW b, NEW l \in Labels
  PROVE  Runs(<<"log">>, l, l, b) /\ Leads("log", l, l, b)
<1>1. Exact("log", l, l, b)
  BY DEF Exact, Plain
<1>2. "log" \in Ops
  BY DEF Ops
<1> QED
  BY <1>1, <1>2, ExactLeads, RunsOne

\* A raise and a lower around something.
LEMMA RunsBracket ==
  ASSUME NEW b, NEW v \in Nat, NEW e \in Exceptions, NEW f \in Exceptions, NEW c \in Sectioned, NEW ops,
         Runs(ops, Label(v + 1, e, c), Label(v + 1, f, c), b)
  PROVE  Runs(<<"up">> \o ops \o <<"down">>, Label(v, e, c), Label(v, f, c), b)
<1>1. "up" \in Ops /\ "down" \in Ops /\ v + 1 \in Nat
  BY DEF Ops
<1>2. Leads("up", Label(v, e, c), Label(v + 1, e, c), b) /\ Leads("down", Label(v + 1, f, c), Label(v, f, c), b)
  BY RaiseLower
<1>3. Runs(<<"up">>, Label(v, e, c), Label(v + 1, e, c), b) /\ Runs(<<"down">>, Label(v + 1, f, c), Label(v, f, c), b)
  BY <1>1, <1>2, Labelled, RunsOne
<1>4. Runs(<<"up">> \o ops, Label(v, e, c), Label(v + 1, f, c), b)
  BY <1>1, <1>3, Labelled, RunsConcat
<1> QED
  BY <1>1, <1>3, <1>4, Labelled, RunsConcat

\* Labels between the calls of a helper.
None(v) == Label(v, "none", "outside")
Failed(v) == Label(v, "failed", "outside")
Thrown(v) == Label(v, "thrown", "outside")

\* The JNI calls of helpers, with no exception pending and no section open.
LEMMA HelperSteps ==
  ASSUME NEW b, NEW v \in Nat
  PROVE  /\ None(v) \in Labels /\ Failed(v) \in Labels /\ Thrown(v) \in Labels
         /\ Leads("jni", None(v), None(v), b)
         /\ Leads("delete", None(v), None(v), b)
         /\ Leads("fail", None(v), Failed(v), b)
         /\ Leads("clear", None(v), None(v), b)
         /\ Leads("clear", Failed(v), None(v), b)
         /\ Leads("clear", Thrown(v), None(v), b)
         /\ v > 0 => Leads("render", None(v), Thrown(v), b)
         /\ \A h \in HelperNames : Leads(h, None(v), None(v), b)
<1>1. "none" \in Exceptions /\ "failed" \in Exceptions /\ "thrown" \in Exceptions /\ "outside" \in Sectioned
  BY DEF Exceptions, Sectioned
<1>2. None(v) \in Labels /\ Failed(v) \in Labels /\ Thrown(v) \in Labels
  BY <1>1, Labelled DEF None, Failed, Thrown
<1>3. /\ None(v).level = v /\ None(v).ex = "none" /\ None(v).cs = "outside"
      /\ Failed(v).level = v /\ Failed(v).ex = "failed" /\ Failed(v).cs = "outside"
      /\ Thrown(v).level = v /\ Thrown(v).ex = "thrown" /\ Thrown(v).cs = "outside"
  BY <1>1, Labelled DEF None, Failed, Thrown
<1>4. /\ None(v) = Label(v, "none", "outside")
      /\ Failed(v) = Label(v, "failed", "outside")
      /\ Thrown(v) = Label(v, "thrown", "outside")
  BY DEF None, Failed, Thrown
<1>5. Exact("jni", None(v), None(v), b)
  BY <1>3 DEF Exact, Plain
<1>6. Exact("delete", None(v), None(v), b)
  BY <1>3 DEF Exact, Plain
<1>7. Exact("fail", None(v), Failed(v), b)
  BY <1>3, <1>4 DEF Exact
<1>8. Exact("clear", None(v), None(v), b)
  BY <1>3, <1>4 DEF Exact
<1>9. Exact("clear", Failed(v), None(v), b)
  BY <1>3, <1>4 DEF Exact
<1>10. Exact("clear", Thrown(v), None(v), b)
  BY <1>3, <1>4 DEF Exact
<1>11. v > 0 => Exact("render", None(v), Thrown(v), b)
  BY <1>3, <1>4 DEF Exact
<1>12. \A h \in HelperNames : Exact(h, None(v), None(v), b)
  BY <1>3 DEF Exact, Plain
<1> QED
  BY <1>2, <1>5, <1>6, <1>7, <1>8, <1>9, <1>10, <1>11, <1>12, ExactLeads

\* The sequences of visualize.c that raise, call, clear and lower.
LEMMA HelperPieces ==
  ASSUME NEW b, NEW v \in Nat
  PROVE  /\ Runs(<<"up", "jni", "down">>, None(v), None(v), b)
         /\ Runs(<<"up", "fail", "clear", "down">>, None(v), None(v), b)
         /\ Runs(<<"up", "jni", "clear", "down">>, None(v), None(v), b)
         /\ Runs(<<"up", "jni", "fail", "clear", "down">>, None(v), None(v), b)
         /\ Runs(<<"up", "jni", "render", "clear", "jni", "down">>, None(v), None(v), b)
         /\ Runs(<<"up", "jni", "down", "ClassName", "up", "delete", "down">>, None(v), None(v), b)
         /\ Runs(<<"down", "jni">>, None(v + 1), None(v), b)
         /\ Runs(<<"down", "fail", "clear", "up">>, None(v + 1), None(v + 1), b)
         /\ Runs(<<"up", "jni">>, None(v), None(v + 1), b)
         /\ Runs(<<"up">>, None(v), None(v + 1), b)
         /\ Runs(<<"down">>, None(v + 1), None(v), b)
<1>1. v + 1 \in Nat /\ v + 1 > 0
  OBVIOUS
<1>2. /\ Leads("up", None(v), None(v + 1), b) /\ Leads("down", None(v + 1), None(v), b)
  BY RaiseLower DEF None, Exceptions, Sectioned
<1>3. /\ "up" \in Ops /\ "down" \in Ops /\ "jni" \in Ops /\ "fail" \in Ops /\ "clear" \in Ops
      /\ "render" \in Ops /\ "delete" \in Ops /\ "ClassName" \in Ops /\ "ClassName" \in HelperNames
  BY DEF Ops, HelperNames
<1>4. /\ None(v) \in Labels /\ Failed(v) \in Labels
      /\ Leads("jni", None(v), None(v), b) /\ Leads("fail", None(v), Failed(v), b)
      /\ Leads("clear", Failed(v), None(v), b) /\ Leads("ClassName", None(v), None(v), b)
  BY <1>3, HelperSteps
<1>5. /\ None(v + 1) \in Labels /\ Failed(v + 1) \in Labels /\ Thrown(v + 1) \in Labels
      /\ Leads("jni", None(v + 1), None(v + 1), b) /\ Leads("fail", None(v + 1), Failed(v + 1), b)
      /\ Leads("delete", None(v + 1), None(v + 1), b) /\ Leads("clear", None(v + 1), None(v + 1), b)
      /\ Leads("clear", Failed(v + 1), None(v + 1), b) /\ Leads("clear", Thrown(v + 1), None(v + 1), b)
      /\ Leads("render", None(v + 1), Thrown(v + 1), b)
  BY <1>1, HelperSteps
<1>6. Runs(<<"up", "jni", "down">>, None(v), None(v), b)
  BY <1>2, <1>3, <1>4, <1>5, Run3
<1>7. Runs(<<"up", "fail", "clear", "down">>, None(v), None(v), b)
  BY <1>2, <1>3, <1>4, <1>5, Run4
<1>8. Runs(<<"up", "jni", "clear", "down">>, None(v), None(v), b)
  BY <1>2, <1>3, <1>4, <1>5, Run4
<1>9. Runs(<<"up", "jni", "fail", "clear", "down">>, None(v), None(v), b)
  BY <1>2, <1>3, <1>4, <1>5, Run5
<1>10. Runs(<<"up", "jni", "render", "clear", "jni", "down">>, None(v), None(v), b)
  BY <1>2, <1>3, <1>4, <1>5, Run6
<1>11. Runs(<<"up", "jni", "down", "ClassName", "up", "delete", "down">>, None(v), None(v), b)
  BY <1>2, <1>3, <1>4, <1>5, Run7
<1>12. Runs(<<"down", "jni">>, None(v + 1), None(v), b)
  BY <1>2, <1>3, <1>4, <1>5, Run2
<1>13. Runs(<<"down", "fail", "clear", "up">>, None(v + 1), None(v + 1), b)
  BY <1>2, <1>3, <1>4, <1>5, Run4
<1>14. Runs(<<"up", "jni">>, None(v), None(v + 1), b)
  BY <1>2, <1>3, <1>4, <1>5, Run2
<1>15. Runs(<<"up">>, None(v), None(v + 1), b) /\ Runs(<<"down">>, None(v + 1), None(v), b)
  BY <1>2, <1>3, <1>4, <1>5, RunsOne
<1> QED
  BY <1>6, <1>7, <1>8, <1>9, <1>10, <1>11, <1>12, <1>13, <1>14, <1>15

\* Up to two of some sequences that come back to where they start.
LEMMA RunsFew ==
  ASSUME NEW b, NEW l \in Labels, NEW S, \A s \in S : Runs(s, l, l, b), NEW ops \in Few(S)
  PROVE  Runs(ops, l, l, b)
<1>1. CASE ops = <<>>
  BY <1>1, RunsNone
<1>2. CASE ops \in S
  BY <1>2
<1>3. CASE ops \in {x \o y : x, y \in S}
  <2>1. PICK x \in S, y \in S : ops = x \o y
    BY <1>3
  <2> QED
    BY <2>1, RunsConcat
<1> QED
  BY <1>1, <1>2, <1>3 DEF Few

\* Sequences of helpers alone.
LEMMA QuietTexts ==
  /\ AnObject \subseteq Seq(Quiet) /\ <<>> \in Seq(Quiet)
  /\ \A h \in HelperNames : <<h>> \in Seq(Quiet)
  /\ <<"IsInstance", "StringValue">> \in Seq(Quiet)
  /\ <<"IsInstance", "ObjectClassName", "ToString">> \in Seq(Quiet)
  /\ <<"log">> \in Seq(Quiet) /\ <<"mint">> \in Seq(Quiet)
BY DEF AnObject, Quiet, HelperNames

\* An element of an object array is read outside the counter that its reader raised.
LEMMA ElementsRun ==
  ASSUME NEW b, NEW v \in Nat
  PROVE  /\ \A s \in Element : Runs(s, None(v + 1), None(v + 1), b)
         /\ \A s \in BadElement : Runs(s, None(v + 1), None(v + 1), b)
<1>1. None(v) \in Labels /\ None(v + 1) \in Labels /\ v + 1 \in Nat
  BY HelperSteps
<1>2. ASSUME NEW s \in Element PROVE Runs(s, None(v + 1), None(v + 1), b)
  <2>1. PICK e \in {<<>>, <<"IsInstance", "StringValue">>, <<"IsInstance", "ObjectClassName", "ToString">>} :
          s = <<"down", "jni">> \o e \o <<"up">>
    BY DEF Element
  <2>2. e \in Seq(Quiet)
    BY QuietTexts
  <2>3. Runs(e, None(v), None(v), b)
    BY <2>2, RunsQuiet DEF None
  <2>4. Runs(<<"down", "jni">>, None(v + 1), None(v), b) /\ Runs(<<"up">>, None(v), None(v + 1), b)
    BY HelperPieces
  <2>5. Runs(<<"down", "jni">> \o e, None(v + 1), None(v), b)
    BY <1>1, <2>3, <2>4, RunsConcat
  <2> QED
    BY <1>1, <2>1, <2>4, <2>5, RunsConcat
<1>3. ASSUME NEW s \in BadElement PROVE Runs(s, None(v + 1), None(v + 1), b)
  <2>1. s = <<>> \/ s = <<"down", "fail", "clear", "up">>
    BY DEF BadElement
  <2>2. Runs(<<>>, None(v + 1), None(v + 1), b)
    BY <1>1, RunsNone
  <2>3. Runs(<<"down", "fail", "clear", "up">>, None(v + 1), None(v + 1), b)
    BY HelperPieces
  <2> QED
    BY <2>1, <2>2, <2>3
<1> QED
  BY <1>2, <1>3

\* The helpers, by name.
LEMMA HelpersAre ==
  /\ DOMAIN Visualize = HelperNames \ {"Fill", "Arguments", "Result"}
  /\ Helpers = HelperNames
BY DEF Helpers, HelperNames, Visualize

\* vis_to_string: with a class name in front or not, whether toString runs, fails or
\* throws.
LEMMA ToStringRuns ==
  ASSUME NEW b, NEW v \in Nat, NEW ops \in Visualize["ToString"]
  PROVE  Runs(ops, None(v), None(v), b)
<1>1. PICK x \in {<<>>, <<"ObjectClassName">>},
           y \in {<<>>, <<"up", "jni", "down">>, <<"up", "jni", "fail", "clear", "down">>,
                  <<"up", "jni", "render", "clear", "jni", "down">>} : ops = x \o y
  BY DEF Visualize
<1>2. None(v) \in Labels
  BY HelperSteps
<1>3. Runs(x, None(v), None(v), b)
  <2>1. x \in Seq(Quiet)
    BY QuietTexts DEF HelperNames
  <2> QED
    BY <2>1, RunsQuiet DEF None
<1>4. Runs(<<>>, None(v), None(v), b)
  BY <1>2, RunsNone
<1>5. Runs(y, None(v), None(v), b)
  BY <1>4, HelperPieces
<1> QED
  BY <1>1, <1>2, <1>3, <1>5, RunsConcat

\* Rendering an object array, whether its last element can be read or not.
LEMMA ObjectArrayItemsRuns ==
  ASSUME NEW b, NEW v \in Nat, NEW ops \in Visualize["ObjectArrayItems"]
  PROVE  Runs(ops, None(v), None(v), b)
<1>1. PICK x \in Few(Element), y \in BadElement : ops = <<"up", "jni">> \o x \o y \o <<"down">>
  BY DEF Visualize
<1>2. None(v) \in Labels /\ None(v + 1) \in Labels /\ v + 1 \in Nat
  <2>1. v + 1 \in Nat
    OBVIOUS
  <2> QED
    BY <2>1, HelperSteps
<1>3. Runs(x, None(v + 1), None(v + 1), b) /\ Runs(y, None(v + 1), None(v + 1), b)
  <2>1. \A s \in Element : Runs(s, None(v + 1), None(v + 1), b)
    BY ElementsRun
  <2>2. Runs(x, None(v + 1), None(v + 1), b)
    BY <1>2, <2>1, RunsFew
  <2>3. Runs(y, None(v + 1), None(v + 1), b)
    BY ElementsRun
  <2> QED
    BY <2>2, <2>3
<1>4. Runs(<<"up", "jni">>, None(v), None(v + 1), b) /\ Runs(<<"down">>, None(v + 1), None(v), b)
  BY HelperPieces
<1>5. Runs(<<"up", "jni">> \o x, None(v), None(v + 1), b)
  BY <1>2, <1>3, <1>4, RunsConcat
<1>6. Runs(<<"up", "jni">> \o x \o y, None(v), None(v + 1), b)
  BY <1>2, <1>3, <1>5, RunsConcat
<1> QED
  BY <1>1, <1>2, <1>4, <1>6, RunsConcat

\* Every helper of visualize.c ends as it started: level back, no exception left behind.
LEMMA VisualizeRuns ==
  ASSUME NEW b, NEW v \in Nat, NEW h \in DOMAIN Visualize, NEW ops \in Visualize[h]
  PROVE  Runs(ops, None(v), None(v), b)
<1>1. \/ h = "IsInstance" \/ h = "ClassName" \/ h = "ObjectClassName" \/ h = "ToString"
      \/ h = "StringValue" \/ h = "ArrayItems" \/ h = "ObjectArrayItems"
  BY HelpersAre DEF HelperNames
<1>2. CASE h = "IsInstance"
  <2>1. ops \in {<<"up", "jni", "down">>, <<"up", "fail", "clear", "down">>}
    BY <1>2 DEF Visualize
  <2> QED
    BY <2>1, HelperPieces
<1>3. CASE h = "ClassName"
  <2>1. ops \in {<<"up", "jni", "clear", "down">>, <<"up", "jni", "fail", "clear", "down">>,
                 <<"up", "jni", "render", "clear", "jni", "down">>}
    BY <1>3 DEF Visualize
  <2> QED
    BY <2>1, HelperPieces
<1>4. CASE h = "ObjectClassName"
  <2>1. ops \in {<<"up", "jni", "down">>, <<"up", "jni", "down", "ClassName", "up", "delete", "down">>}
    BY <1>4 DEF Visualize
  <2> QED
    BY <2>1, HelperPieces
<1>5. CASE h = "ToString"
  BY <1>5, ToStringRuns
<1>6. CASE h = "StringValue" \/ h = "ArrayItems"
  <2>1. ops = <<"up", "jni", "down">>
    BY <1>6 DEF Visualize
  <2> QED
    BY <2>1, HelperPieces
<1>7. CASE h = "ObjectArrayItems"
  BY <1>7, ObjectArrayItemsRuns
<1> QED
  BY <1>1, <1>2, <1>3, <1>4, <1>5, <1>6, <1>7

\* Up to two sequences of helpers are a sequence of helpers.
LEMMA FewQuiet ==
  ASSUME NEW S, S \subseteq Seq(Quiet)
  PROVE  Few(S) \subseteq Seq(Quiet)
<1> SUFFICES ASSUME NEW s \in Few(S) PROVE s \in Seq(Quiet)
  OBVIOUS
<1>1. s = <<>> \/ s \in S \/ \E x \in S, y \in S : s = x \o y
  BY DEF Few
<1>2. \A x \in S, y \in S : x \o y \in Seq(Quiet)
  <2> SUFFICES ASSUME NEW x \in S, NEW y \in S PROVE x \o y \in Seq(Quiet)
    OBVIOUS
  <2>1. x \in Seq(Quiet) /\ y \in Seq(Quiet)
    OBVIOUS
  <2> QED
    BY <2>1
<1> QED
  BY <1>1, <1>2, QuietTexts

\* fill_object_strings and the encoding of arguments consist of helpers.
LEMMA SharedTexts ==
  /\ Fill \subseteq Seq(Quiet)
  /\ TypedArguments \subseteq Seq(Quiet)
<1>1. Fill \subseteq Seq(Quiet)
  BY QuietTexts DEF Fill
<1> DEFINE S == AnObject \cup {<<"ArrayItems">>, <<"ObjectArrayItems">>}
<1>2. S \subseteq Seq(Quiet)
  BY QuietTexts DEF HelperNames
<1>3. TypedArguments = Few(S)
  BY DEF TypedArguments
<1> HIDE DEF S
<1>4. Few(S) \subseteq Seq(Quiet)
  BY <1>2, FewQuiet
<1> QED
  BY <1>1, <1>3, <1>4

\* The logging of a result, deferred, skipped or in place, ends as it started.
LEMMA ResultRuns ==
  ASSUME NEW b, NEW v \in Nat, NEW e \in {"eq", "none"}, NEW ops \in Result
  PROVE  Runs(ops, Label(v, e, "outside"), Label(v, e, "outside"), b)
<1>0. e \in Exceptions /\ "outside" \in Sectioned /\ v + 1 \in Nat
  BY DEF Exceptions, Sectioned
<1>1. Label(v, e, "outside") \in Labels /\ Label(v + 1, e, "outside") \in Labels
  BY <1>0, Labelled
<1>2. ops = <<>> \/ ops = <<"log">> \/ \E f \in Fill : ops = <<"up">> \o f \o <<"log", "down">>
  BY DEF Result
<1>3. CASE \E f \in Fill : ops = <<"up">> \o f \o <<"log", "down">>
  <2>1. PICK f \in Fill : ops = <<"up">> \o f \o <<"log", "down">>
    BY <1>3
  <2>2. f \in Seq(Quiet)
    BY SharedTexts
  <2>3. Runs(f, Label(v + 1, e, "outside"), Label(v + 1, e, "outside"), b)
    BY <1>0, <2>2, RunsQuiet
  <2>4. "up" \in Ops /\ "log" \in Ops /\ "down" \in Ops
    BY DEF Ops
  <2>5. /\ Leads("up", Label(v, e, "outside"), Label(v + 1, e, "outside"), b)
        /\ Leads("down", Label(v + 1, e, "outside"), Label(v, e, "outside"), b)
    BY <1>0, RaiseLower
  <2>6. Leads("log", Label(v + 1, e, "outside"), Label(v + 1, e, "outside"), b)
    BY <1>1, RunsLog
  <2>7. Runs(<<"up">>, Label(v, e, "outside"), Label(v + 1, e, "outside"), b)
    BY <1>1, <2>4, <2>5, RunsOne
  <2>8. Runs(<<"log", "down">>, Label(v + 1, e, "outside"), Label(v, e, "outside"), b)
    BY <1>1, <2>4, <2>5, <2>6, Run2
  <2>9. Runs(<<"up">> \o f, Label(v, e, "outside"), Label(v + 1, e, "outside"), b)
    BY <1>1, <2>3, <2>7, RunsConcat
  <2> QED
    BY <1>1, <2>1, <2>8, <2>9, RunsConcat
<1> QED
  BY <1>1, <1>2, <1>3, RunsNone, RunsLog
-----------------------------------------------------------------------------
\* Where the app stands when it calls a JNI function.
Place(h) == IF h = "LeaveCritical" THEN "inside" ELSE IF h = "EnterCritical" THEN "any" ELSE "outside"

\* The function a hook stands for brings the exceptions in agreement.
LEMMA OriginalSteps ==
  ASSUME NEW b, NEW v \in Nat, NEW e \in Exceptions, NEW c \in Sectioned
  PROVE  /\ Label(v, e, c) \in Labels /\ Label(v, "eq", c) \in Labels /\ Label(v, "none", c) \in Labels
         /\ Leads("original", Label(v, e, c), Label(v, "eq", c), b)
         /\ Leads("throw_own", Label(v, e, c), Label(v, "eq", c), b)
         /\ Leads("clear_own", Label(v, e, c), Label(v, "none", c), b)
<1>1. "none" \in Exceptions /\ "eq" \in Exceptions
  BY DEF Exceptions
<1>2. /\ Label(v, e, c) \in Labels /\ Label(v, "eq", c) \in Labels /\ Label(v, "none", c) \in Labels
      /\ Label(v, e, c).level = v /\ Label(v, e, c).cs = c
  BY <1>1, Labelled
<1>3. /\ Exact("original", Label(v, e, c), Label(v, "eq", c), b)
      /\ Exact("throw_own", Label(v, e, c), Label(v, "eq", c), b)
      /\ Exact("clear_own", Label(v, e, c), Label(v, "none", c), b)
  BY <1>2 DEF Exact
<1> QED
  BY <1>2, <1>3, ExactLeads

\* A called method starts where its caller stood.
LEMMA MethodStep ==
  ASSUME NEW b \in Nat
  PROVE  Label(b, "eq", "outside") \in Labels /\ Leads("method", Label(b, "eq", "outside"), Label(b, "eq", "outside"), b)
<1>1. "eq" \in Exceptions /\ "outside" \in Sectioned
  BY DEF Exceptions, Sectioned
<1>2. Exact("method", Label(b, "eq", "outside"), Label(b, "eq", "outside"), b)
  BY <1>1, Labelled DEF Exact
<1> QED
  BY <1>1, <1>2, Labelled, ExactLeads

\* Get...Critical and Release...Critical with the count that follows them.
LEMMA CriticalSteps ==
  ASSUME NEW b \in Nat
  PROVE  /\ \A c \in Sectioned : Label(b, "eq", c) \in Labels
         /\ \A op \in {"enter", "refuse"} :
              Leads(op, Label(b, "eq", "any"), Label(b, "eq", IF b = 0 THEN "entered" ELSE "any"), b)
         /\ Leads("leave", Label(b, "eq", "inside"), Label(b, "eq", IF b = 0 THEN "left" ELSE "any"), b)
         /\ Leads("count", Label(b, "eq", "entered"), Label(b, "eq", "any"), b)
         /\ Leads("uncount", Label(b, "eq", "left"), Label(b, "eq", "any"), b)
<1>1. "eq" \in Exceptions /\ {"any", "inside", "entered", "left"} \subseteq Sectioned
  BY DEF Exceptions, Sectioned
<1>2. \A c \in Sectioned : Label(b, "eq", c) \in Labels
  BY <1>1, Labelled
<1>3. ASSUME NEW op \in {"enter", "refuse"}
      PROVE  Exact(op, Label(b, "eq", "any"), Label(b, "eq", IF b = 0 THEN "entered" ELSE "any"), b)
  BY <1>1, Labelled DEF Exact
<1>4. Exact("leave", Label(b, "eq", "inside"), Label(b, "eq", IF b = 0 THEN "left" ELSE "any"), b)
  BY <1>1, Labelled DEF Exact
<1>5. Exact("count", Label(b, "eq", "entered"), Label(b, "eq", "any"), b)
  BY <1>1, Labelled DEF Exact
<1>6. Exact("uncount", Label(b, "eq", "left"), Label(b, "eq", "any"), b)
  BY <1>1, Labelled DEF Exact
<1> QED
  BY <1>1, <1>2, <1>3, <1>4, <1>5, <1>6, ExactLeads

\* A label a hook may return at.
LEMMA FinishesAt ==
  ASSUME NEW b \in Nat, NEW e \in {"eq", "none", "own"}, NEW c \in {"outside", "any"}, NEW ops, NEW l,
         Runs(ops, l, Label(b, e, c), b)
  PROVE  Finishes(ops, l, b)
<1>1. e \in Exceptions /\ c \in Sectioned
  BY DEF Exceptions, Sectioned
<1>2. Label(b, e, c) \in Labels /\ Ended(Label(b, e, c), b)
  BY <1>1, Labelled DEF Ended
<1> QED
  BY <1>2 DEF Finishes

\* A hook that is not logged returns as it should, at any level.
LEMMA BareFinishes ==
  ASSUME inHook \in Nat, NEW h \in Families, NEW ops \in Bare(h)
  PROVE  Finishes(ops, Label(inHook, "eq", Place(h)), inHook)
<1>1. PICK b \in Nat : b = inHook
  OBVIOUS
<1> DEFINE E(c) == Label(b, "eq", c)
<1>2. /\ "eq" \in {"eq", "none", "own"} /\ "none" \in {"eq", "none", "own"} /\ "eq" \in Exceptions
      /\ "outside" \in {"outside", "any"} /\ "any" \in {"outside", "any"}
      /\ "outside" \in Sectioned /\ "any" \in Sectioned
  BY DEF Exceptions, Sectioned
<1>3. /\ "method" \in Ops /\ "ClassName" \in Ops /\ "throw_own" \in Ops /\ "clear_own" \in Ops /\ "enter" \in Ops
      /\ "refuse" \in Ops /\ "leave" \in Ops /\ "count" \in Ops /\ "uncount" \in Ops /\ "original" \in Ops
  BY DEF Ops, HelperNames
<1>4. \A c \in Sectioned : E(c) \in Labels
  BY CriticalSteps
<1>5. /\ Leads("original", E("outside"), E("outside"), b)
      /\ Leads("throw_own", E("outside"), E("outside"), b)
      /\ Leads("clear_own", E("outside"), Label(b, "none", "outside"), b)
      /\ Label(b, "none", "outside") \in Labels
  BY <1>2, OriginalSteps
<1>6. CASE h = "Lookup"
  <2>1. ops = <<"method", "ClassName">> /\ Place(h) = "outside"
    BY <1>6 DEF Bare, Place
  <2>2. Leads("method", E("outside"), E("outside"), b)
    BY MethodStep
  <2>3. Runs(<<"ClassName">>, E("outside"), E("outside"), b)
    <3>1. <<"ClassName">> \in Seq(Quiet)
      BY DEF Quiet, HelperNames
    <3> QED
      BY <3>1, RunsQuiet
  <2>4. Leads("ClassName", E("outside"), E("outside"), b)
    <3>1. E("outside").ex = "eq" /\ E("outside").cs = "outside"
      BY <1>2, Labelled
    <3>2. Exact("ClassName", E("outside"), E("outside"), b)
      BY <3>1 DEF Exact, Plain, HelperNames
    <3> QED
      BY <1>2, <1>4, <3>2, ExactLeads
  <2>5. Runs(<<"method", "ClassName">>, E("outside"), E("outside"), b)
    BY <1>2, <1>3, <1>4, <2>2, <2>4, Run2
  <2> QED
    BY <1>1, <1>2, <2>1, <2>5, FinishesAt
<1>7. CASE h = "Throw"
  <2>1. ops = <<"throw_own">> /\ Place(h) = "outside"
    BY <1>7 DEF Bare, Place
  <2>2. Runs(<<"throw_own">>, E("outside"), E("outside"), b)
    BY <1>2, <1>3, <1>4, <1>5, RunsOne
  <2> QED
    BY <1>1, <1>2, <2>1, <2>2, FinishesAt
<1>8. CASE h = "Call"
  <2>1. ops = <<"method">> /\ Place(h) = "outside"
    BY <1>8 DEF Bare, Place
  <2>2. Runs(<<"method">>, E("outside"), E("outside"), b)
    BY <1>2, <1>3, <1>4, MethodStep, RunsOne
  <2> QED
    BY <1>1, <1>2, <2>1, <2>2, FinishesAt
<1>9. CASE h \in {"Occurred", "Check"}
  <2>1. ops = <<>> /\ Place(h) = "outside"
    BY <1>9 DEF Bare, Place
  <2>2. Runs(<<>>, E("outside"), E("outside"), b)
    BY <1>2, <1>4, RunsNone
  <2> QED
    BY <1>1, <1>2, <2>1, <2>2, FinishesAt
<1>10. CASE h \in {"Clear", "Describe"}
  <2>1. ops = <<"clear_own">> /\ Place(h) = "outside"
    BY <1>10 DEF Bare, Place
  <2>2. Runs(<<"clear_own">>, E("outside"), Label(b, "none", "outside"), b)
    BY <1>2, <1>3, <1>4, <1>5, RunsOne
  <2> QED
    BY <1>1, <1>2, <2>1, <2>2, FinishesAt
<1>11. CASE h = "EnterCritical"
  <2>1. PICK op \in {"enter", "refuse"} : ops = <<op>> \o (IF b = 0 THEN <<"count">> ELSE <<>>)
    BY <1>1, <1>11 DEF Bare
  <2>2. Place(h) = "any"
    BY <1>11 DEF Place
  <2>3. Leads(op, E("any"), E(IF b = 0 THEN "entered" ELSE "any"), b)
    BY CriticalSteps
  <2>4. E(IF b = 0 THEN "entered" ELSE "any") \in Labels
    BY <1>4 DEF Sectioned
  <2>5. Runs(<<op>>, E("any"), E(IF b = 0 THEN "entered" ELSE "any"), b)
    BY <1>2, <1>3, <1>4, <2>3, <2>4, RunsOne
  <2>6. Runs(IF b = 0 THEN <<"count">> ELSE <<>>, E(IF b = 0 THEN "entered" ELSE "any"), E("any"), b)
    <3>1. CASE b = 0
      <4>1. Leads("count", E("entered"), E("any"), b) /\ "entered" \in Sectioned
        BY CriticalSteps DEF Sectioned
      <4>2. Runs(<<"count">>, E("entered"), E("any"), b)
        BY <1>2, <1>3, <1>4, <4>1, RunsOne
      <4> QED
        BY <3>1, <4>2
    <3>2. CASE b # 0
      <4>1. Runs(<<>>, E("any"), E("any"), b)
        BY <1>2, <1>4, RunsNone
      <4> QED
        BY <3>2, <4>1
    <3> QED
      BY <3>1, <3>2
  <2>7. Runs(ops, E("any"), E("any"), b)
    BY <1>2, <1>4, <2>1, <2>4, <2>5, <2>6, RunsConcat
  <2> QED
    BY <1>1, <1>2, <2>2, <2>7, FinishesAt
<1>12. CASE h = "LeaveCritical"
  <2>1. ops = <<"leave">> \o (IF b = 0 THEN <<"uncount">> ELSE <<>>)
    BY <1>1, <1>12 DEF Bare
  <2>2. Place(h) = "inside" /\ "inside" \in Sectioned
    BY <1>12 DEF Place, Sectioned
  <2>3. Leads("leave", E("inside"), E(IF b = 0 THEN "left" ELSE "any"), b)
    BY CriticalSteps
  <2>4. E(IF b = 0 THEN "left" ELSE "any") \in Labels
    BY <1>4 DEF Sectioned
  <2>5. Runs(<<"leave">>, E("inside"), E(IF b = 0 THEN "left" ELSE "any"), b)
    BY <1>3, <1>4, <2>2, <2>3, <2>4, RunsOne
  <2>6. Runs(IF b = 0 THEN <<"uncount">> ELSE <<>>, E(IF b = 0 THEN "left" ELSE "any"), E("any"), b)
    <3>1. CASE b = 0
      <4>1. Leads("uncount", E("left"), E("any"), b) /\ "left" \in Sectioned
        BY CriticalSteps DEF Sectioned
      <4>2. Runs(<<"uncount">>, E("left"), E("any"), b)
        BY <1>2, <1>3, <1>4, <4>1, RunsOne
      <4> QED
        BY <3>1, <4>2
    <3>2. CASE b # 0
      <4>1. Runs(<<>>, E("any"), E("any"), b)
        BY <1>2, <1>4, RunsNone
      <4> QED
        BY <3>2, <4>1
    <3> QED
      BY <3>1, <3>2
  <2>7. Runs(ops, E("inside"), E("any"), b)
    BY <1>2, <1>4, <2>1, <2>2, <2>4, <2>5, <2>6, RunsConcat
  <2> QED
    BY <1>1, <1>2, <2>2, <2>7, FinishesAt
<1>13. CASE h \notin {"Lookup", "Throw", "Call", "Occurred", "Check", "Clear", "Describe", "EnterCritical", "LeaveCritical"}
  <2>1. ops = <<"original">> /\ Place(h) = "outside"
    BY <1>13 DEF Bare, Place
  <2>2. Runs(<<"original">>, E("outside"), E("outside"), b)
    BY <1>2, <1>3, <1>4, <1>5, RunsOne
  <2> QED
    BY <1>1, <1>2, <2>1, <2>2, FinishesAt
<1> QED
  BY <1>6, <1>7, <1>8, <1>9, <1>10, <1>11, <1>12, <1>13

\* Helpers and log calls between a raise and a lower.
LEMMA QuietBracket ==
  ASSUME NEW b, NEW v \in Nat, NEW e \in {"eq", "none"}, NEW s \in Seq(Quiet)
  PROVE  Runs(Bracket(s), Label(v, e, "outside"), Label(v, e, "outside"), b)
<1>1. v + 1 \in Nat /\ e \in Exceptions /\ "outside" \in Sectioned
  BY DEF Exceptions, Sectioned
<1>2. Runs(s, Label(v + 1, e, "outside"), Label(v + 1, e, "outside"), b)
  BY <1>1, RunsQuiet
<1>3. Runs(<<"up">> \o s \o <<"down">>, Label(v, e, "outside"), Label(v, e, "outside"), b)
  BY <1>1, <1>2, RunsBracket
<1> QED
  BY <1>3 DEF Bracket

\* Where a hook of a caller outside any hook starts.
Plainly == Label(0, "eq", "outside")

\* The pieces logged hooks are made of.
LEMMA PlainlyRuns ==
  /\ Plainly \in Labels
  /\ \A s \in Seq(Quiet) : Runs(s, Plainly, Plainly, 0) /\ Runs(Bracket(s), Plainly, Plainly, 0)
  /\ Runs(<<>>, Plainly, Plainly, 0)
  /\ Runs(<<"original">>, Plainly, Plainly, 0)
  /\ Runs(<<"throw_own">>, Plainly, Plainly, 0)
  /\ Runs(<<"original", "Result">>, Plainly, Plainly, 0)
  /\ Runs(<<"log", "method", "Result">>, Plainly, Plainly, 0)
  /\ Runs(<<"method", "ClassName">>, Plainly, Plainly, 0)
  /\ Runs(<<"log", "original">>, Plainly, Plainly, 0) /\ Runs(<<"original", "log">>, Plainly, Plainly, 0)
<1>1. "outside" \in Sectioned /\ "eq" \in Exceptions /\ 0 \in Nat /\ "eq" \in {"eq", "none"}
  BY DEF Exceptions, Sectioned
<1>2. Plainly \in Labels /\ Plainly.ex = "eq" /\ Plainly.cs = "outside"
  BY <1>1, Labelled DEF Plainly
<1>3. \A s \in Seq(Quiet) : Runs(s, Plainly, Plainly, 0) /\ Runs(Bracket(s), Plainly, Plainly, 0)
  BY <1>1, RunsQuiet, QuietBracket DEF Plainly
<1>4. Leads("original", Plainly, Plainly, 0) /\ Leads("throw_own", Plainly, Plainly, 0)
  BY <1>1, OriginalSteps DEF Plainly
<1>5. Leads("method", Plainly, Plainly, 0)
  BY <1>1, MethodStep DEF Plainly
<1>6. Leads("Result", Plainly, Plainly, 0) /\ Leads("ClassName", Plainly, Plainly, 0)
  <2>1. Exact("Result", Plainly, Plainly, 0) /\ Exact("ClassName", Plainly, Plainly, 0)
    BY <1>2 DEF Exact, Plain, HelperNames
  <2> QED
    BY <1>2, <2>1, ExactLeads
<1>7. Leads("log", Plainly, Plainly, 0)
  BY <1>2, RunsLog
<1>8. "original" \in Ops /\ "throw_own" \in Ops /\ "method" \in Ops /\ "Result" \in Ops /\ "log" \in Ops
      /\ "ClassName" \in Ops
  BY DEF Ops, HelperNames
<1>9. Runs(<<>>, Plainly, Plainly, 0)
  BY <1>2, RunsNone
<1>10. Runs(<<"original">>, Plainly, Plainly, 0) /\ Runs(<<"throw_own">>, Plainly, Plainly, 0)
  BY <1>2, <1>4, <1>8, RunsOne
<1>11. Runs(<<"original", "Result">>, Plainly, Plainly, 0)
  BY <1>2, <1>4, <1>6, <1>8, Run2
<1>12. Runs(<<"log", "method", "Result">>, Plainly, Plainly, 0)
  BY <1>2, <1>5, <1>6, <1>7, <1>8, Run3
<1>13. Runs(<<"method", "ClassName">>, Plainly, Plainly, 0)
  BY <1>2, <1>5, <1>6, <1>8, Run2
<1>14. Runs(<<"log", "original">>, Plainly, Plainly, 0) /\ Runs(<<"original", "log">>, Plainly, Plainly, 0)
  BY <1>2, <1>4, <1>7, <1>8, Run2
<1> QED
  BY <1>2, <1>3, <1>9, <1>10, <1>11, <1>12, <1>13, <1>14

\* The sequences of helpers and log calls in logged hooks.
LEMMA QuietBrackets ==
  /\ <<"ClassName", "log">> \in Seq(Quiet) /\ <<"log">> \in Seq(Quiet) /\ <<>> \in Seq(Quiet)
  /\ <<"Fill">> \in Seq(Quiet) /\ <<"Arguments">> \in Seq(Quiet)
  /\ <<"ArrayItems">> \in Seq(Quiet) /\ <<"ArrayItems", "log">> \in Seq(Quiet)
  /\ <<"log", "ArrayItems", "log">> \in Seq(Quiet)
  /\ <<"ObjectArrayItems">> \in Seq(Quiet) /\ <<"ObjectArrayItems", "log">> \in Seq(Quiet)
  /\ <<"log", "ObjectArrayItems", "log">> \in Seq(Quiet)
  /\ <<"ObjectArrayItems", "log", "mint", "log">> \in Seq(Quiet)
  /\ <<"ObjectArrayItems", "mint", "log">> \in Seq(Quiet)
  /\ <<"mint", "log">> \in Seq(Quiet) /\ <<"mint", "mint", "log">> \in Seq(Quiet)
  /\ <<"log", "mint", "log", "delete">> \in Seq(Quiet) /\ <<"log", "delete">> \in Seq(Quiet)
  /\ <<"ObjectClassName", "ArrayItems", "log">> \in Seq(Quiet)
  /\ <<"ObjectClassName", "ObjectArrayItems", "log">> \in Seq(Quiet)
  /\ <<"StringValue">> \in Seq(Quiet)
  /\ <<"ObjectClassName", "ToString", "IsInstance">> \in Seq(Quiet)
BY DEF Quiet, HelperNames

\* An object that is deferred leaves a logged hook as it is.
LEMMA DeferredRuns == Runs(Deferred, Plainly, Plainly, 0)
BY PlainlyRuns, QuietBrackets DEF Deferred

\* A logged hook that comes back to where it started may return.
LEMMA PlainlyFinishes ==
  ASSUME NEW ops, Runs(ops, Plainly, Plainly, 0)
  PROVE  Finishes(ops, Plainly, 0)
<1>1. 0 \in Nat /\ "eq" \in {"eq", "none", "own"} /\ "outside" \in {"outside", "any"}
  OBVIOUS
<1> QED
  BY <1>1, FinishesAt DEF Plainly

\* ExceptionOccurred clears the exception it logs and throws it again.
LEMMA OccurredRuns ==
  Finishes(Bracket(<<"clear", "log", "mint", "log", "clear", "throw">>), Label(0, "own", "outside"), 0)
<1> DEFINE W(v) == Label(v, "own", "outside")
           K(v) == Label(v, "taken", "outside")
<1>1. "own" \in Exceptions /\ "taken" \in Exceptions /\ "outside" \in Sectioned /\ 0 \in Nat /\ 1 \in Nat /\ 0 + 1 = 1
  BY DEF Exceptions, Sectioned
<1>2. /\ W(1) \in Labels /\ K(1) \in Labels /\ W(1).level = 1 /\ K(1).level = 1
      /\ W(1).ex = "own" /\ K(1).ex = "taken" /\ W(1).cs = "outside" /\ K(1).cs = "outside"
  BY <1>1, Labelled
<1>3. Exact("clear", W(1), K(1), 0)
  BY <1>2 DEF Exact
<1>4. Exact("clear", K(1), K(1), 0)
  BY <1>2 DEF Exact
<1>5. Exact("throw", K(1), W(1), 0)
  BY <1>2 DEF Exact
<1>6. "clear" \in Ops /\ "log" \in Ops /\ "mint" \in Ops /\ "throw" \in Ops
  BY DEF Ops
<1>6a. Exact("mint", K(1), K(1), 0)
  BY <1>2 DEF Exact, Plain
<1>7. /\ Leads("clear", W(1), K(1), 0) /\ Leads("log", K(1), K(1), 0) /\ Leads("mint", K(1), K(1), 0)
      /\ Leads("clear", K(1), K(1), 0) /\ Leads("throw", K(1), W(1), 0)
  BY <1>2, <1>3, <1>4, <1>5, <1>6a, ExactLeads, RunsLog
<1>8. Runs(<<"clear", "log", "mint", "log", "clear", "throw">>, W(1), W(1), 0)
  BY <1>2, <1>6, <1>7, Run6
<1> HIDE DEF K
<1>9. Runs(<<"up">> \o <<"clear", "log", "mint", "log", "clear", "throw">> \o <<"down">>, W(0), W(0), 0)
  BY <1>1, <1>8, RunsBracket
<1>10. "own" \in {"eq", "none", "own"} /\ "outside" \in {"outside", "any"}
  OBVIOUS
<1> QED
  BY <1>1, <1>9, <1>10, FinishesAt DEF Bracket

\* ExceptionClear clears first and renders then.
LEMMA ClearRuns ==
  ASSUME NEW w \in {<<>>, <<"StringValue">>}
  PROVE  Finishes(Bracket(<<"clear_own", "ObjectClassName", "ToString", "IsInstance">> \o w \o <<"log", "delete">>), Plainly, 0)
<1>1. /\ "none" \in Exceptions /\ "eq" \in Exceptions /\ "outside" \in Sectioned /\ 0 \in Nat /\ 1 \in Nat /\ 0 + 1 = 1
      /\ "none" \in {"eq", "none"}
  BY DEF Exceptions, Sectioned
<1>2. /\ Label(1, "eq", "outside") \in Labels /\ None(1) \in Labels
      /\ Leads("clear_own", Label(1, "eq", "outside"), None(1), 0)
  BY <1>1, OriginalSteps DEF None
<1>3. \A h \in HelperNames : Leads(h, None(1), None(1), 0)
  BY <1>1, HelperSteps
<1>4. /\ "clear_own" \in Ops /\ "ObjectClassName" \in Ops /\ "ToString" \in Ops /\ "IsInstance" \in Ops
      /\ "ObjectClassName" \in HelperNames /\ "ToString" \in HelperNames /\ "IsInstance" \in HelperNames
  BY DEF Ops, HelperNames
<1>5. Runs(<<"clear_own", "ObjectClassName", "ToString", "IsInstance">>, Label(1, "eq", "outside"), None(1), 0)
  BY <1>2, <1>3, <1>4, Run4
<1>6. Runs(w, None(1), None(1), 0) /\ Runs(<<"log", "delete">>, None(1), None(1), 0)
  <2>1. w \in Seq(Quiet) /\ <<"log", "delete">> \in Seq(Quiet)
    BY QuietBrackets
  <2> QED
    BY <1>1, <1>2, <2>1, RunsQuiet DEF None
<1>7. Runs(<<"clear_own", "ObjectClassName", "ToString", "IsInstance">> \o w, Label(1, "eq", "outside"), None(1), 0)
  BY <1>2, <1>5, <1>6, RunsConcat
<1> DEFINE s == <<"clear_own", "ObjectClassName", "ToString", "IsInstance">> \o w \o <<"log", "delete">>
<1>8. Runs(s, Label(1, "eq", "outside"), None(1), 0)
  BY <1>2, <1>6, <1>7, RunsConcat
<1> HIDE DEF s
<1>9. Runs(s, Label(0 + 1, "eq", "outside"), Label(0 + 1, "none", "outside"), 0)
  BY <1>1, <1>8 DEF None
<1>10. Runs(<<"up">> \o s \o <<"down">>, Label(0, "eq", "outside"), Label(0, "none", "outside"), 0)
  BY <1>1, <1>9, RunsBracket
<1>11. "none" \in {"eq", "none", "own"} /\ "outside" \in {"outside", "any"}
  OBVIOUS
<1>12. Finishes(Bracket(s), Plainly, 0)
  BY <1>1, <1>10, <1>11, FinishesAt DEF Bracket, Plainly
<1> QED
  BY <1>12 DEF s

\* The ExceptionDescribe hook: it logs and then clears.
LEMMA DescribeRuns == Finishes(<<"log", "clear_own">>, Plainly, 0)
<1>1. "eq" \in Exceptions /\ "outside" \in Sectioned /\ 0 \in Nat
  BY DEF Exceptions, Sectioned
<1>2. Plainly \in Labels /\ None(0) \in Labels /\ Leads("clear_own", Plainly, None(0), 0)
  BY <1>1, OriginalSteps DEF None, Plainly
<1>3. Leads("log", Plainly, Plainly, 0) /\ "log" \in Ops /\ "clear_own" \in Ops
  BY <1>2, RunsLog DEF Ops
<1>4. Runs(<<"log", "clear_own">>, Plainly, None(0), 0)
  BY <1>2, <1>3, Run2
<1>5. "none" \in {"eq", "none", "own"} /\ "outside" \in {"outside", "any"}
  OBVIOUS
<1> QED
  BY <1>1, <1>4, <1>5, FinishesAt DEF None

\* A log call after a hook that would have returned.
LEMMA FinishesWithLog ==
  ASSUME NEW ops, NEW l \in Labels, Finishes(ops, l, 0)
  PROVE  Finishes(ops \o Bracket(<<"log">>), l, 0)
<1>1. PICK z \in Labels : Runs(ops, l, z, 0) /\ Ended(z, 0)
  BY DEF Finishes
<1>2. z = Label(0, z.ex, z.cs) /\ z.ex \in Exceptions /\ z.cs \in Sectioned /\ 0 \in Nat
  BY <1>1, OneOfLabels DEF Ended
<1>3. Runs(<<"log">>, Label(0 + 1, z.ex, z.cs), Label(0 + 1, z.ex, z.cs), 0)
  <2>1. 0 + 1 \in Nat
    OBVIOUS
  <2> QED
    BY <1>2, <2>1, Labelled, RunsLog
<1>4. Runs(<<"up">> \o <<"log">> \o <<"down">>, Label(0, z.ex, z.cs), Label(0, z.ex, z.cs), 0)
  BY <1>2, <1>3, RunsBracket
<1>5. Runs(Bracket(<<"log">>), z, z, 0)
  BY <1>2, <1>4 DEF Bracket
<1>6. Runs(ops \o Bracket(<<"log">>), l, z, 0)
  BY <1>1, <1>5, RunsConcat
<1> QED
  BY <1>1, <1>6 DEF Finishes

\* Pieces of a logged hook after one another.
LEMMA PlainlyJoin ==
  ASSUME NEW s, NEW t, Runs(s, Plainly, Plainly, 0), Runs(t, Plainly, Plainly, 0)
  PROVE  Runs(s \o t, Plainly, Plainly, 0)
BY PlainlyRuns, RunsConcat

\* A logged hook returns as it should, whichever family it is of.
LEMMA LoggedFinishes ==
  ASSUME inHook = 0, pending \in BOOLEAN, NEW h \in Families, NEW ops \in Logged(h)
  PROVE  IF h = "Occurred" /\ pending THEN Finishes(ops, Label(0, "own", "outside"), 0)
         ELSE Finishes(ops, Label(0, "eq", Place(h)), 0)
<1>1. h \notin {"EnterCritical", "LeaveCritical"} => Label(0, "eq", Place(h)) = Plainly
  BY DEF Place, Plainly
<1>2. CASE h = "Register"
  <2>1. ops = <<"original">> \o Bracket(<<"ClassName", "log">>)
    BY <1>2 DEF Logged
  <2>2. Runs(ops, Plainly, Plainly, 0)
    BY <2>1, PlainlyRuns, QuietBrackets, PlainlyJoin
  <2> QED
    BY <1>1, <1>2, <2>2, PlainlyFinishes
<1>3. CASE h = "Reference"
  <2> DEFINE Body(a, r) == <<"original">> \o a \o r
             A == {Deferred, Bracket(<<"mint", "mint", "log">>), Bracket(<<"log">>)}
             R == {Deferred, <<"log">>}
  <2>1. Logged("Reference") = {Body(a, r) : a \in A, r \in R}
    BY DEF Logged
  <2>2. ops \in Logged("Reference")
    BY <1>3
  <2>3. Runs(<<"original">>, Plainly, Plainly, 0)
    BY PlainlyRuns
  <2>4. /\ Runs(Bracket(<<"mint", "mint", "log">>), Plainly, Plainly, 0) /\ Runs(Bracket(<<"log">>), Plainly, Plainly, 0)
        /\ Runs(<<"log">>, Plainly, Plainly, 0)
    BY PlainlyRuns, QuietBrackets
  <2>5. (\A a \in A : Runs(a, Plainly, Plainly, 0)) /\ (\A r \in R : Runs(r, Plainly, Plainly, 0))
    BY <2>4, DeferredRuns
  <2> HIDE DEF Body, A, R
  <2>6. PICK a \in A, r \in R : ops = Body(a, r)
    BY <2>1, <2>2
  <2>7. Runs(<<"original">> \o a, Plainly, Plainly, 0)
    BY <2>3, <2>5, PlainlyJoin
  <2>8. Runs(ops, Plainly, Plainly, 0)
    BY <2>5, <2>6, <2>7, PlainlyJoin DEF Body
  <2> QED
    BY <1>1, <1>3, <2>8, PlainlyFinishes
<1>4. CASE h = "Throw"
  <2>1. PICK s \in {Deferred \o <<"log">>, Bracket(<<"ClassName", "log">>)} : ops = <<"throw_own">> \o s
    BY <1>4 DEF Logged
  <2>2. Runs(<<"throw_own">>, Plainly, Plainly, 0) /\ Runs(<<"log">>, Plainly, Plainly, 0)
    BY PlainlyRuns, QuietBrackets
  <2>3. Runs(Bracket(<<"ClassName", "log">>), Plainly, Plainly, 0)
    BY PlainlyRuns, QuietBrackets
  <2>4. Runs(Deferred \o <<"log">>, Plainly, Plainly, 0)
    BY <2>2, DeferredRuns, PlainlyJoin
  <2>5. Runs(s, Plainly, Plainly, 0)
    BY <2>3, <2>4
  <2>6. Runs(ops, Plainly, Plainly, 0)
    BY <2>1, <2>2, <2>5, PlainlyJoin
  <2> QED
    BY <1>1, <1>4, <2>6, PlainlyFinishes
<1>5. CASE h = "Elements"
  <2>1. PICK s \in {<<"log">>, <<"ArrayItems">>, <<"ArrayItems", "log">>, <<"log", "ArrayItems", "log">>} : ops = <<"original">> \o Bracket(s)
    BY <1>5 DEF Logged
  <2>2. s \in Seq(Quiet)
    BY QuietBrackets
  <2>3. Runs(<<"original">>, Plainly, Plainly, 0) /\ Runs(Bracket(s), Plainly, Plainly, 0)
    BY <2>2, PlainlyRuns
  <2>4. Runs(ops, Plainly, Plainly, 0)
    BY <2>1, <2>3, PlainlyJoin
  <2> QED
    BY <1>1, <1>5, <2>4, PlainlyFinishes
<1>6. CASE h = "ObjectArray"
  <2>1. PICK s \in {<<"ObjectArrayItems">>, <<"ObjectArrayItems", "log", "mint", "log">>,
                   <<"ObjectArrayItems", "mint", "log">>, <<"log", "ObjectArrayItems", "log">>} : ops = <<"original">> \o Bracket(s)
    BY <1>6 DEF Logged
  <2>2. s \in Seq(Quiet)
    BY QuietBrackets
  <2>3. Runs(<<"original">>, Plainly, Plainly, 0) /\ Runs(Bracket(s), Plainly, Plainly, 0)
    BY <2>2, PlainlyRuns
  <2>4. Runs(ops, Plainly, Plainly, 0)
    BY <2>1, <2>3, PlainlyJoin
  <2> QED
    BY <1>1, <1>6, <2>4, PlainlyFinishes
<1>7. CASE h = "ArrayLength"
  <2>1. PICK s \in {<<"ObjectClassName", "ArrayItems", "log">>, <<"ObjectClassName", "ObjectArrayItems", "log">>} : ops = <<"original">> \o Bracket(s)
    BY <1>7 DEF Logged
  <2>2. s \in Seq(Quiet)
    BY QuietBrackets
  <2>3. Runs(<<"original">>, Plainly, Plainly, 0) /\ Runs(Bracket(s), Plainly, Plainly, 0)
    BY <2>2, PlainlyRuns
  <2>4. Runs(ops, Plainly, Plainly, 0)
    BY <2>1, <2>3, PlainlyJoin
  <2> QED
    BY <1>1, <1>7, <2>4, PlainlyFinishes
<1>8. CASE h = "Call"
  <2>1. PICK a \in {<<>>, Bracket(<<"Arguments">>)} : ops = Bracket(<<"Fill">>) \o a \o <<"log", "method", "Result">>
    BY <1>8 DEF Logged
  <2>2. Runs(Bracket(<<"Fill">>), Plainly, Plainly, 0) /\ Runs(<<"log", "method", "Result">>, Plainly, Plainly, 0)
    BY PlainlyRuns, QuietBrackets
  <2>3. Runs(a, Plainly, Plainly, 0)
    BY PlainlyRuns, QuietBrackets
  <2>4. Runs(Bracket(<<"Fill">>) \o a, Plainly, Plainly, 0)
    BY <2>2, <2>3, PlainlyJoin
  <2>5. Runs(ops, Plainly, Plainly, 0)
    BY <2>1, <2>2, <2>4, PlainlyJoin
  <2> QED
    BY <1>1, <1>8, <2>5, PlainlyFinishes
<1>9. CASE h = "GetField"
  <2>1. PICK s \in {<<>>, <<"Fill">>} : ops = Bracket(s) \o <<"original", "Result">>
    BY <1>9 DEF Logged
  <2>2. s \in Seq(Quiet)
    BY QuietBrackets
  <2>3. Runs(Bracket(s), Plainly, Plainly, 0) /\ Runs(<<"original", "Result">>, Plainly, Plainly, 0)
    BY <2>2, PlainlyRuns
  <2>4. Runs(ops, Plainly, Plainly, 0)
    BY <2>1, <2>3, PlainlyJoin
  <2> QED
    BY <1>1, <1>9, <2>4, PlainlyFinishes
<1>10. CASE h = "SetField"
  <2>1. PICK s \in {<<>>, <<"Fill">>}, w \in {<<>>, Bracket(<<"Fill">>)} :
          ops = Bracket(s) \o w \o Bracket(<<"log">>) \o <<"original">>
    <3> DEFINE Body(s, v) == Bracket(s) \o v \o Bracket(<<"log">>) \o <<"original">>
    <3>1. Logged("SetField") =
            {Body(s, v) : s \in {<<>>, <<"Fill">>}, v \in {<<>>, Bracket(<<"Fill">>)}}
      BY DEF Logged
    <3>2. ops \in Logged("SetField")
      BY <1>10
    <3> HIDE DEF Body
    <3>3. PICK s \in {<<>>, <<"Fill">>}, w \in {<<>>, Bracket(<<"Fill">>)} : ops = Body(s, w)
      BY <3>1, <3>2
    <3> QED
      BY <3>3 DEF Body
  <2>2. s \in Seq(Quiet)
    BY QuietBrackets
  <2>3. /\ Runs(Bracket(s), Plainly, Plainly, 0) /\ Runs(Bracket(<<"log">>), Plainly, Plainly, 0)
        /\ Runs(<<"original">>, Plainly, Plainly, 0)
    BY <2>2, PlainlyRuns, QuietBrackets
  <2>4. Runs(w, Plainly, Plainly, 0)
    BY PlainlyRuns, QuietBrackets
  <2>5. Runs(Bracket(s) \o w, Plainly, Plainly, 0)
    BY <2>3, <2>4, PlainlyJoin
  <2>6. Runs(Bracket(s) \o w \o Bracket(<<"log">>), Plainly, Plainly, 0)
    BY <2>3, <2>5, PlainlyJoin
  <2>7. Runs(ops, Plainly, Plainly, 0)
    BY <2>1, <2>3, <2>6, PlainlyJoin
  <2> QED
    BY <1>1, <1>10, <2>7, PlainlyFinishes
<1>11. CASE h = "Occurred" /\ pending
  <2>1. ops = Bracket(<<"clear", "log", "mint", "log", "clear", "throw">>)
    BY <1>11 DEF Logged
  <2> QED
    BY <1>11, <2>1, OccurredRuns
<1>12. CASE h \in {"Occurred", "Check"} /\ ~(h = "Occurred" /\ pending)
  <2>1. ops = <<>> \/ ops = Bracket(<<"log", "mint", "log", "delete">>)
    BY <1>12 DEF Logged
  <2>2. Runs(ops, Plainly, Plainly, 0)
    BY <2>1, PlainlyRuns, QuietBrackets
  <2> QED
    BY <1>1, <1>12, <2>2, PlainlyFinishes
<1>13. CASE h = "Clear"
  <2>1. CASE pending
    <3>1. PICK w \in {<<>>, <<"StringValue">>} :
            ops = Bracket(<<"clear_own", "ObjectClassName", "ToString", "IsInstance">> \o w \o <<"log", "delete">>)
      BY <1>13, <2>1 DEF Logged
    <3> QED
      BY <1>1, <1>13, <3>1, ClearRuns
  <2>2. CASE ~pending
    <3>1. ops = Bracket(<<"log">>)
      BY <1>13, <2>2 DEF Logged
    <3>2. Runs(ops, Plainly, Plainly, 0)
      BY <3>1, PlainlyRuns, QuietBrackets
    <3> QED
      BY <1>1, <1>13, <3>2, PlainlyFinishes
  <2> QED
    BY <2>1, <2>2
<1>14. CASE h = "Describe"
  <2>1. ops = <<"log", "clear_own">>
    BY <1>14 DEF Logged
  <2> QED
    BY <1>1, <1>14, <2>1, DescribeRuns
<1>15. CASE h \in {"EnterCritical", "LeaveCritical"}
  <2>0. Logged(h) = {b \o Bracket(<<"log">>) : b \in Bare(h)}
    <3>2. CASE h = "EnterCritical"
      BY <3>2 DEF Logged
    <3>3. CASE h = "LeaveCritical"
      BY <3>3 DEF Logged
    <3> QED
      BY <1>15, <3>2, <3>3
  <2>1. PICK s \in Bare(h) : ops = s \o Bracket(<<"log">>)
    BY <2>0
  <2>2. inHook \in Nat
    OBVIOUS
  <2>3. Finishes(s, Label(0, "eq", Place(h)), 0)
    BY <2>2, BareFinishes
  <2>4. Label(0, "eq", Place(h)) \in Labels
    <3>1. Place(h) \in Sectioned /\ 0 \in Nat
      BY DEF Place, Sectioned
    <3> QED
      BY <3>1, CriticalSteps
  <2>5. Finishes(ops, Label(0, "eq", Place(h)), 0)
    BY <2>1, <2>3, <2>4, FinishesWithLog
  <2> QED
    BY <1>15, <2>5
<1>16. CASE h = "Lookup"
  <2>1. PICK s \in Bare(h) : ops = s \o Deferred
    BY <1>16 DEF Logged
  <2>2. s = <<"method", "ClassName">>
    BY <1>16 DEF Bare
  <2>3. Runs(<<"method", "ClassName">>, Plainly, Plainly, 0)
    BY PlainlyRuns
  <2>4. Runs(ops, Plainly, Plainly, 0)
    BY <2>1, <2>2, <2>3, DeferredRuns, PlainlyJoin
  <2> QED
    BY <1>1, <1>16, <2>4, PlainlyFinishes
<1>17. CASE h = "Release"
  <2>1. ops = <<"log", "original">> \/ ops = <<"original", "log">> \/ ops = <<"original">> \o Bracket(<<"log">>)
    BY <1>17 DEF Logged
  <2>2. Runs(<<"original">>, Plainly, Plainly, 0) /\ Runs(Bracket(<<"log">>), Plainly, Plainly, 0)
    BY PlainlyRuns, QuietBrackets
  <2>3. Runs(<<"log", "original">>, Plainly, Plainly, 0) /\ Runs(<<"original", "log">>, Plainly, Plainly, 0)
    BY PlainlyRuns
  <2>4. Runs(<<"original">> \o Bracket(<<"log">>), Plainly, Plainly, 0)
    BY <2>2, PlainlyJoin
  <2> QED
    BY <1>1, <1>17, <2>1, <2>3, <2>4, PlainlyFinishes
<1>18. CASE h = "DeleteRef"
  <2>1. ops = Deferred \o <<"log", "original">>
    BY <1>18 DEF Logged
  <2>2. Runs(<<"log", "original">>, Plainly, Plainly, 0)
    BY PlainlyRuns
  <2> QED
    BY <1>1, <1>18, <2>1, <2>2, DeferredRuns, PlainlyJoin, PlainlyFinishes
<1>19. CASE h = "PopFrame"
  <2>1. ops = <<"original">> \o Deferred \o Deferred
    BY <1>19 DEF Logged
  <2>2. Runs(<<"original">> \o Deferred, Plainly, Plainly, 0)
    BY PlainlyRuns, DeferredRuns, PlainlyJoin
  <2> QED
    BY <1>1, <1>19, <2>1, <2>2, DeferredRuns, PlainlyJoin, PlainlyFinishes
<1> QED
  BY <1>2, <1>3, <1>4, <1>5, <1>6, <1>7, <1>8, <1>9, <1>10, <1>11, <1>12, <1>13, <1>14, <1>15, <1>16, <1>17, <1>18, <1>19 DEF Families

-----------------------------------------------------------------------------
\* The frames of a thread's stack.
Frames == [kind : {"app"}, rendered : BOOLEAN, kept : BOOLEAN] \cup [kind : {"hook"}, ops : Seq(Ops)]

ScopeTypes ==
  /\ inHook \in Nat /\ critical \in Nat /\ sections \in Nat /\ refusals \in Nat
  /\ pending \in BOOLEAN /\ entitled \in BOOLEAN
  /\ stack \in Seq(Frames) /\ stack # <<>>

\* A hook called at level b counts the app's critical sections, if it is heard.
Counted(b) == IF b = 0 THEN sections ELSE 0

\* What a label says, of the state.
ExceptionsAgree(e) ==
  /\ e = "eq" => pending = entitled
  /\ e = "none" => ~pending /\ ~entitled
  /\ e = "own" => pending /\ entitled
  /\ e = "failed" => pending /\ ~entitled
  /\ e = "thrown" => ~entitled
  /\ e = "taken" => ~pending /\ entitled

SectionsAgree(c, b) ==
  /\ c = "outside" => sections = 0 /\ critical = refusals
  /\ c = "any" => critical = refusals + Counted(b)
  /\ c = "inside" => sections > 0 /\ critical = refusals + Counted(b)
  /\ c = "entered" => b = 0 /\ critical + 1 = refusals + sections
  /\ c = "left" => b = 0 /\ critical = refusals + sections + 1

Agrees(l, b) == inHook = l.level /\ ExceptionsAgree(l.ex) /\ SectionsAgree(l.cs, b)

\* Among the n lowest frames is app code that is rendered.
RenderedIn(n, fr) == \E j \in 1 .. n : fr[j].kind = "app" /\ fr[j].rendered

\* A hook waits for app code that it called, or that it renders with.
Waits(f, a, b, c) ==
  /\ a.rendered => ~a.kept
  /\ Finishes(f.ops, Label(c, IF a.rendered THEN "thrown" ELSE "eq", "outside"), b)

\* What may be on top of n frames.
Joins(n, fr, base, f, b) ==
  /\ f.kind = "hook" => n > 0 /\ fr[n].kind = "app" /\ base[n] = b
  /\ f.kind = "app" => /\ n > 0 => fr[n].kind = "hook" /\ Waits(fr[n], f, base[n], b)
                       /\ b > 0 <=> (f.rendered \/ RenderedIn(n, fr))

\* Every frame may be where it is, at its level.
Chain(n, fr, base) ==
  \A d \in 1 .. n : fr[d] \in Frames /\ base[d] \in Nat /\ Joins(d - 1, fr, base, fr[d], base[d])

\* The frames of a stack from the bottom, and the levels they run at.
Fits(s, fr, base) ==
  /\ \A d \in 1 .. Len(s) : fr[d] = s[Len(s) + 1 - d]
  /\ Chain(Len(s), fr, base)

\* The frame that runs agrees with the state.
TopOk(f, b) ==
  /\ f.kind = "app" => inHook = b /\ pending = entitled /\ critical = refusals + Counted(b)
  /\ f.kind = "hook" => \E l \in Labels : Agrees(l, b) /\ Finishes(f.ops, l, b)

\* The inductive invariant.
ScopeInv ==
  /\ ScopeTypes
  /\ \E fr, base : Fits(stack, fr, base) /\ TopOk(Head(stack), base[Len(stack)])
-----------------------------------------------------------------------------
\* A frame is of the app or of a hook.
LEMMA FrameKinds ==
  /\ \A f \in Frames : f.kind = "app" \/ f.kind = "hook"
  /\ \A f \in Frames : f.kind = "app" => f.rendered \in BOOLEAN /\ f.kept \in BOOLEAN
  /\ \A f \in Frames : f.kind = "hook" => f.ops \in Seq(Ops)
  /\ \A r \in BOOLEAN, k \in BOOLEAN :
       App(r, k) \in Frames /\ App(r, k).kind = "app" /\ App(r, k).rendered = r /\ App(r, k).kept = k
  /\ \A ops \in Seq(Ops) : Hook(ops) \in Frames /\ Hook(ops).kind = "hook" /\ Hook(ops).ops = ops
<1>1. /\ \A f \in Frames : f.kind = "app" \/ f.kind = "hook"
      /\ \A f \in Frames : f.kind = "app" => f.rendered \in BOOLEAN /\ f.kept \in BOOLEAN
      /\ \A f \in Frames : f.kind = "hook" => f.ops \in Seq(Ops)
  <2> HIDE DEF Ops
  <2> QED
    BY DEF Frames
<1>2. \A r \in BOOLEAN, k \in BOOLEAN :
       App(r, k) \in Frames /\ App(r, k).kind = "app" /\ App(r, k).rendered = r /\ App(r, k).kept = k
  BY DEF Frames, App
<1>3. \A ops \in Seq(Ops) : Hook(ops) \in Frames /\ Hook(ops).kind = "hook" /\ Hook(ops).ops = ops
  BY DEF Frames, Hook
<1> QED
  BY <1>1, <1>2, <1>3

\* What may be on top depends on the frames below only.
LEMMA JoinsSame ==
  ASSUME NEW n \in Nat, NEW fr, NEW base, NEW fr2, NEW base2, NEW f, NEW b,
         \A d \in 1 .. n : fr2[d] = fr[d] /\ base2[d] = base[d],
         Joins(n, fr, base, f, b)
  PROVE  Joins(n, fr2, base2, f, b)
<1>1. RenderedIn(n, fr2) <=> RenderedIn(n, fr)
  BY DEF RenderedIn
<1>2. n > 0 => fr2[n] = fr[n] /\ base2[n] = base[n]
  OBVIOUS
<1> QED
  BY <1>1, <1>2 DEF Joins

\* A frame that may be on top is put there.
LEMMA FitsPush ==
  ASSUME NEW s \in Seq(Frames), NEW fr, NEW base, Fits(s, fr, base),
         NEW f \in Frames, NEW b \in Nat, Joins(Len(s), fr, base, f, b)
  PROVE  \E fr2, base2 :
           /\ Fits(<<f>> \o s, fr2, base2)
           /\ fr2[Len(s) + 1] = f /\ base2[Len(s) + 1] = b
           /\ \A d \in 1 .. Len(s) : fr2[d] = fr[d] /\ base2[d] = base[d]
<1>1. PICK n \in Nat : n = Len(s)
  OBVIOUS
<1>2. /\ <<f>> \o s \in Seq(Frames) /\ Len(<<f>> \o s) = n + 1
      /\ \A i \in 1 .. n + 1 : (<<f>> \o s)[i] = IF i = 1 THEN f ELSE s[i - 1]
  <2>1. <<f>> \in Seq(Frames) /\ Len(<<f>>) = 1 /\ <<f>>[1] = f
    OBVIOUS
  <2> QED
    BY <1>1, <2>1
<1> DEFINE fr2 == [d \in 1 .. n + 1 |-> IF d = n + 1 THEN f ELSE fr[d]]
           base2 == [d \in 1 .. n + 1 |-> IF d = n + 1 THEN b ELSE base[d]]
<1>3. fr2[n + 1] = f /\ base2[n + 1] = b /\ \A d \in 1 .. n : fr2[d] = fr[d] /\ base2[d] = base[d]
  OBVIOUS
<1> HIDE DEF fr2, base2
<1>4. ASSUME NEW d \in 1 .. n + 1 PROVE fr2[d] = (<<f>> \o s)[(n + 1) + 1 - d]
  <2>1. CASE d = n + 1
    <3>1. (n + 1) + 1 - d = 1 /\ 1 \in 1 .. n + 1
      BY <2>1
    <3> QED
      BY <1>2, <1>3, <2>1, <3>1
  <2>2. CASE d # n + 1
    <3>1. d \in 1 .. n /\ (n + 1) + 1 - d \in 1 .. n + 1 /\ (n + 1) + 1 - d # 1 /\ ((n + 1) + 1 - d) - 1 = n + 1 - d
      BY <2>2
    <3>2. (<<f>> \o s)[(n + 1) + 1 - d] = s[n + 1 - d]
      BY <1>2, <3>1
    <3>3. fr[d] = s[n + 1 - d]
      BY <1>1, <3>1 DEF Fits
    <3> QED
      BY <1>3, <3>1, <3>2, <3>3
  <2> QED
    BY <2>1, <2>2
<1>5. ASSUME NEW d \in 1 .. n + 1
      PROVE  fr2[d] \in Frames /\ base2[d] \in Nat /\ Joins(d - 1, fr2, base2, fr2[d], base2[d])
  <2>1. CASE d = n + 1
    <3>1. Joins(n, fr2, base2, f, b)
      BY <1>1, <1>3, JoinsSame
    <3>2. d - 1 = n
      BY <2>1
    <3> QED
      BY <1>3, <2>1, <3>1, <3>2
  <2>2. CASE d # n + 1
    <3>1. d \in 1 .. n /\ d - 1 \in Nat /\ \A i \in 1 .. d - 1 : i \in 1 .. n
      BY <2>2
    <3>2. fr[d] \in Frames /\ base[d] \in Nat /\ Joins(d - 1, fr, base, fr[d], base[d])
      BY <1>1, <3>1 DEF Fits, Chain
    <3>3. \A i \in 1 .. d - 1 : fr2[i] = fr[i] /\ base2[i] = base[i]
      BY <1>3, <3>1
    <3>4. Joins(d - 1, fr2, base2, fr[d], base[d])
      BY <3>1, <3>2, <3>3, JoinsSame
    <3> QED
      BY <1>3, <3>1, <3>2, <3>4
  <2> QED
    BY <2>1, <2>2
<1>6. Fits(<<f>> \o s, fr2, base2)
  <2>1. Chain(n + 1, fr2, base2)
    BY <1>5 DEF Chain
  <2> QED
    BY <1>2, <1>4, <2>1 DEF Fits
<1> QED
  BY <1>1, <1>3, <1>6

\* The part of it that says where the new frame lies.
LEMMA FitsPushBase ==
  ASSUME NEW s \in Seq(Frames), NEW fr, NEW base, Fits(s, fr, base),
         NEW f \in Frames, NEW b \in Nat, Joins(Len(s), fr, base, f, b)
  PROVE  \E fr2, base2 : Fits(<<f>> \o s, fr2, base2) /\ base2[Len(s) + 1] = b
<1>1. PICK fr2, base2 :
        /\ Fits(<<f>> \o s, fr2, base2)
        /\ fr2[Len(s) + 1] = f /\ base2[Len(s) + 1] = b
        /\ \A d \in 1 .. Len(s) : fr2[d] = fr[d] /\ base2[d] = base[d]
  BY FitsPush
<1> QED
  BY <1>1

\* The top frame, and the stack without it.
LEMMA FitsTop ==
  ASSUME NEW s \in Seq(Frames), s # <<>>, NEW fr, NEW base, Fits(s, fr, base)
  PROVE  /\ Len(s) \in Nat \ {0} /\ Head(s) \in Frames /\ Tail(s) \in Seq(Frames)
         /\ Len(Tail(s)) = Len(s) - 1 /\ Len(s) - 1 \in Nat
         /\ fr[Len(s)] = Head(s) /\ base[Len(s)] \in Nat
         /\ Joins(Len(s) - 1, fr, base, Head(s), base[Len(s)])
         /\ Fits(Tail(s), fr, base)
<1>1. /\ Len(s) \in Nat \ {0} /\ Head(s) = s[1] /\ Head(s) \in Frames /\ Tail(s) \in Seq(Frames)
      /\ Len(Tail(s)) = Len(s) - 1 /\ \A i \in 1 .. Len(s) - 1 : Tail(s)[i] = s[i + 1]
  OBVIOUS
<1>2. PICK n \in Nat : Len(s) = n + 1 /\ Len(s) - 1 = n
  <2>1. Len(s) - 1 \in Nat /\ Len(s) = (Len(s) - 1) + 1
    BY <1>1
  <2> QED
    BY <2>1
<1>3. n + 1 \in 1 .. n + 1 /\ (n + 1) + 1 - (n + 1) = 1 /\ (n + 1) - 1 = n
  OBVIOUS
<1>4. fr[n + 1] = Head(s)
  BY <1>1, <1>2, <1>3 DEF Fits
<1>5. base[n + 1] \in Nat /\ Joins(n, fr, base, Head(s), base[n + 1])
  BY <1>2, <1>3, <1>4 DEF Fits, Chain
<1>6. ASSUME NEW d \in 1 .. n PROVE fr[d] = Tail(s)[n + 1 - d]
  <2>1. d \in 1 .. n + 1 /\ n + 1 - d \in 1 .. n /\ (n + 1 - d) + 1 = (n + 1) + 1 - d
    OBVIOUS
  <2>2. fr[d] = s[(n + 1) + 1 - d]
    BY <1>2, <2>1 DEF Fits
  <2>3. Tail(s)[n + 1 - d] = s[(n + 1 - d) + 1]
    BY <1>1, <1>2, <2>1
  <2> QED
    BY <2>1, <2>2, <2>3
<1>7. Chain(n, fr, base)
  <2>1. \A d \in 1 .. n : d \in 1 .. n + 1
    OBVIOUS
  <2> QED
    BY <1>2, <2>1 DEF Fits, Chain
<1>8. Fits(Tail(s), fr, base)
  BY <1>1, <1>2, <1>6, <1>7 DEF Fits
<1> QED
  BY <1>1, <1>2, <1>4, <1>5, <1>8

\* A sequence with a length is not empty.
LEMMA NotEmpty ==
  ASSUME NEW s, Len(s) > 0
  PROVE  s # <<>>
OBVIOUS

\* A frame in front of others, as a sequence.
LEMMA PushedSeq ==
  ASSUME NEW s \in Seq(Frames), NEW f \in Frames
  PROVE  /\ <<f>> \o s \in Seq(Frames) /\ <<f>> \o s # <<>>
         /\ Len(<<f>> \o s) = Len(s) + 1 /\ Head(<<f>> \o s) = f
<1>1. <<f>> \in Seq(Frames) /\ Len(<<f>>) = 1 /\ <<f>>[1] = f
  OBVIOUS
<1>2. PICK n \in Nat : n = Len(s)
  OBVIOUS
<1>3. <<f>> \o s \in Seq(Frames) /\ Len(<<f>> \o s) = n + 1 /\ (<<f>> \o s)[1] = f
  BY <1>1, <1>2
<1>4. <<f>> \o s # <<>>
  BY <1>3
<1> QED
  BY <1>2, <1>3, <1>4

\* A thread starts in app code, outside any hook.
LEMMA ScopeInitial == ScopeInit => ScopeInv
<1> SUFFICES ASSUME ScopeInit PROVE ScopeInv
  OBVIOUS
<1> DEFINE a == App(FALSE, FALSE)
<1>1. a \in Frames /\ a.kind = "app" /\ a.rendered = FALSE
  BY FrameKinds
<1> HIDE DEF a
<1>2. inHook = 0 /\ critical = 0 /\ pending = FALSE /\ entitled = FALSE /\ sections = 0 /\ refusals = 0 /\ stack = <<a>>
  BY DEF ScopeInit, a
<1>3. <<a>> \in Seq(Frames) /\ <<a>> # <<>> /\ Len(<<a>>) = 1 /\ <<a>>[1] = a /\ Head(<<a>>) = a
  BY <1>1
<1>4. ScopeTypes
  BY <1>2, <1>3 DEF ScopeTypes
<1> DEFINE fr == [d \in 1 .. 1 |-> a]
           base == [d \in 1 .. 1 |-> 0]
<1>5. fr[1] = a /\ base[1] = 0
  OBVIOUS
<1> HIDE DEF fr, base
<1>6. ~RenderedIn(0, fr)
  BY DEF RenderedIn
<1>7. Joins(0, fr, base, a, 0)
  BY <1>1, <1>6 DEF Joins
<1>8. Fits(<<a>>, fr, base)
  <2>1. \A d \in 1 .. 1 : d = 1 /\ 1 + 1 - d = 1 /\ d - 1 = 0
    OBVIOUS
  <2>2. Chain(1, fr, base)
    BY <1>1, <1>5, <1>7, <2>1 DEF Chain
  <2> QED
    BY <1>3, <1>5, <2>1, <2>2 DEF Fits
<1>9. TopOk(a, 0)
  <2>1. critical = refusals + Counted(0)
    BY <1>2 DEF Counted
  <2> QED
    BY <1>1, <1>2, <2>1 DEF TopOk
<1> QED
  BY <1>2, <1>3, <1>4, <1>5, <1>8, <1>9 DEF ScopeInv

\* App code calling a hook keeps the invariant: the hook's operations lead to a return.
LEMMA AppCallsStep ==
  ASSUME ScopeInv, AppCalls
  PROVE  ScopeInv'
<1>1. PICK fr, base : Fits(stack, fr, base) /\ TopOk(Head(stack), base[Len(stack)])
  BY DEF ScopeInv
<1>2. ScopeTypes /\ stack \in Seq(Frames) /\ stack # <<>>
  BY DEF ScopeInv, ScopeTypes
<1>3. PICK n \in Nat \ {0} : n = Len(stack)
  BY <1>2
<1>4. /\ Head(stack) \in Frames /\ fr[n] = Head(stack) /\ base[n] \in Nat
  BY <1>1, <1>2, <1>3, FitsTop
<1>5. PICK b \in Nat : b = base[n]
  BY <1>4
<1>6. Head(stack).kind = "app" /\ UNCHANGED <<inHook, critical, pending, sections, entitled, refusals>>
  BY DEF AppCalls, Top
<1>7. inHook = b /\ pending = entitled /\ critical = refusals + Counted(b)
  BY <1>1, <1>3, <1>5, <1>6 DEF TopOk
<1>8a. PICK h \in Families :
         /\ sections > 0 => h \in {"EnterCritical", "LeaveCritical"}
         /\ h = "LeaveCritical" => sections > 0
         /\ \E ops \in Bodies(h) : stack' = <<Hook(ops)>> \o stack
  BY DEF AppCalls
<1>8. PICK ops \in Bodies(h) :
        /\ sections > 0 => h \in {"EnterCritical", "LeaveCritical"}
        /\ h = "LeaveCritical" => sections > 0
        /\ stack' = <<Hook(ops)>> \o stack
  BY <1>8a
<1>9. "eq" \in Exceptions /\ "own" \in Exceptions /\ "outside" \in Sectioned /\ Place(h) \in Sectioned
  BY DEF Exceptions, Sectioned, Place
<1>10. SectionsAgree(Place(h), b)'
  <2>1. SectionsAgree(Place(h), b)
    <3>1. sections \in Nat /\ refusals \in Nat
      BY <1>2 DEF ScopeTypes
    <3>2. CASE h = "LeaveCritical"
      BY <1>7, <1>8, <3>2 DEF SectionsAgree, Place
    <3>3. CASE h = "EnterCritical"
      BY <1>7, <3>3 DEF SectionsAgree, Place
    <3>4. CASE h \notin {"EnterCritical", "LeaveCritical"}
      <4>1. sections = 0 /\ Counted(b) = 0 /\ critical = refusals
        BY <1>7, <1>8, <3>1, <3>4 DEF Counted
      <4> QED
        BY <3>4, <4>1 DEF SectionsAgree, Place
    <3> QED
      BY <3>2, <3>3, <3>4
  <2> QED
    BY <1>6, <2>1 DEF SectionsAgree, Counted
<1>11. PICK l \in Labels : Agrees(l, b)' /\ Finishes(ops, l, b)
  <2>1. CASE h = "Occurred" /\ pending /\ inHook = 0 /\ ops \in Logged(h)
    <3>1. Finishes(ops, Label(0, "own", "outside"), 0)
      BY <1>2, <2>1, LoggedFinishes DEF ScopeTypes
    <3>2. /\ Label(0, "own", "outside") \in Labels
          /\ Label(0, "own", "outside").level = 0 /\ Label(0, "own", "outside").ex = "own"
          /\ Label(0, "own", "outside").cs = "outside"
      BY <1>9, Labelled
    <3>3. Place(h) = "outside" /\ b = 0
      BY <1>7, <2>1 DEF Place
    <3>4. ExceptionsAgree("own")'
      BY <1>6, <1>7, <2>1 DEF ExceptionsAgree
    <3>5. Agrees(Label(0, "own", "outside"), b)'
      BY <1>6, <1>7, <1>10, <3>2, <3>3, <3>4 DEF Agrees
    <3> QED
      BY <3>1, <3>2, <3>3, <3>5
  <2>2. CASE ~(h = "Occurred" /\ pending /\ inHook = 0 /\ ops \in Logged(h))
    <3>1. Finishes(ops, Label(b, "eq", Place(h)), b)
      <4>1. CASE ops \in Bare(h)
        <5>1. Finishes(ops, Label(inHook, "eq", Place(h)), inHook)
          BY <1>7, <4>1, BareFinishes
        <5> QED
          BY <1>7, <5>1
      <4>2. CASE ops \notin Bare(h)
        <5>1. ops \in Logged(h) /\ inHook = 0
          BY <1>7, <4>2 DEF Bodies
        <5>2. pending \in BOOLEAN
          BY <1>2 DEF ScopeTypes
        <5>3. Finishes(ops, Label(0, "eq", Place(h)), 0)
          BY <2>2, <5>1, <5>2, LoggedFinishes
        <5> QED
          BY <1>7, <5>1, <5>3
      <4> QED
        BY <4>1, <4>2
    <3>2. /\ Label(b, "eq", Place(h)) \in Labels
          /\ Label(b, "eq", Place(h)).level = b /\ Label(b, "eq", Place(h)).ex = "eq"
          /\ Label(b, "eq", Place(h)).cs = Place(h)
      BY <1>9, Labelled
    <3>3. ExceptionsAgree("eq")'
      BY <1>6, <1>7 DEF ExceptionsAgree
    <3>4. Agrees(Label(b, "eq", Place(h)), b)'
      BY <1>6, <1>7, <1>10, <3>2, <3>3 DEF Agrees
    <3> QED
      BY <3>1, <3>2, <3>4
  <2> QED
    BY <2>1, <2>2
<1>12. ops \in Seq(Ops) /\ Hook(ops) \in Frames /\ Hook(ops).kind = "hook" /\ Hook(ops).ops = ops
  <2>1. ops \in Seq(Ops)
    BY <1>11 DEF Finishes, Runs
  <2> QED
    BY <2>1, FrameKinds
<1>13. Joins(n, fr, base, Hook(ops), b)
  BY <1>4, <1>5, <1>6, <1>12 DEF Joins
<1>14. PICK fr2, base2 : Fits(<<Hook(ops)>> \o stack, fr2, base2) /\ base2[n + 1] = b
  BY <1>1, <1>2, <1>3, <1>12, <1>13, FitsPush
<1>15. /\ <<Hook(ops)>> \o stack \in Seq(Frames) /\ <<Hook(ops)>> \o stack # <<>>
       /\ Len(<<Hook(ops)>> \o stack) = n + 1 /\ Head(<<Hook(ops)>> \o stack) = Hook(ops)
  BY <1>2, <1>3, <1>12, PushedSeq
<1>16. TopOk(Hook(ops), b)'
  BY <1>11, <1>12 DEF TopOk
<1>17. ScopeTypes'
  BY <1>2, <1>6, <1>8, <1>15 DEF ScopeTypes
<1> QED
  BY <1>8, <1>14, <1>15, <1>16, <1>17 DEF ScopeInv

\* App code returning keeps it: the hook below goes on from the label it waits with.
LEMMA AppReturnsStep ==
  ASSUME ScopeInv, AppReturns
  PROVE  ScopeInv'
<1>1. PICK fr, base : Fits(stack, fr, base) /\ TopOk(Head(stack), base[Len(stack)])
  BY DEF ScopeInv
<1>2. ScopeTypes /\ stack \in Seq(Frames) /\ stack # <<>>
  BY DEF ScopeInv, ScopeTypes
<1>3. PICK n \in Nat : Len(stack) = n + 1 /\ Len(stack) - 1 = n
  <2>1. Len(stack) \in Nat \ {0} /\ Len(stack) - 1 \in Nat /\ Len(stack) = (Len(stack) - 1) + 1
    BY <1>2
  <2> QED
    BY <2>1
<1>4. /\ Head(stack) \in Frames /\ Tail(stack) \in Seq(Frames) /\ Len(Tail(stack)) = n /\ base[n + 1] \in Nat
      /\ Joins(n, fr, base, Head(stack), base[n + 1])
      /\ Fits(Tail(stack), fr, base)
  BY <1>1, <1>2, <1>3, FitsTop
<1>5. /\ Head(stack).kind = "app" /\ n > 0 /\ sections = 0 /\ stack' = Tail(stack)
      /\ UNCHANGED <<inHook, critical, sections, refusals>>
  BY <1>3 DEF AppReturns, Top
<1>6. PICK thrown \in {pending, TRUE} : pending' = thrown /\ entitled' = IF Head(stack).rendered THEN Head(stack).kept ELSE thrown
  BY DEF AppReturns, Top
<1>7. fr[n].kind = "hook" /\ Waits(fr[n], Head(stack), base[n], base[n + 1])
  BY <1>4, <1>5 DEF Joins
<1>8. Tail(stack) # <<>> /\ fr[n] = Head(Tail(stack)) /\ base[n] \in Nat
  <2>1. Tail(stack) # <<>>
    BY <1>4, <1>5, NotEmpty
  <2> QED
    BY <1>4, <2>1, FitsTop
<1>9. Head(stack).rendered \in BOOLEAN /\ Head(stack).kept \in BOOLEAN
  BY <1>4, <1>5, FrameKinds
<1>10. PICK e \in {"thrown", "eq"} : e = IF Head(stack).rendered THEN "thrown" ELSE "eq"
  OBVIOUS
<1>11. PICK c \in Nat : c = base[n + 1]
  BY <1>4
<1>12. /\ Label(c, e, "outside") \in Labels /\ Label(c, e, "outside").level = c
       /\ Label(c, e, "outside").ex = e /\ Label(c, e, "outside").cs = "outside"
  <2>1. e \in Exceptions /\ "outside" \in Sectioned
    BY DEF Exceptions, Sectioned
  <2> QED
    BY <2>1, Labelled
<1>13. Finishes(fr[n].ops, Label(c, e, "outside"), base[n]) /\ (Head(stack).rendered => ~Head(stack).kept)
  BY <1>7, <1>10, <1>11 DEF Waits
<1>14. inHook = c /\ critical = refusals + Counted(c)
  BY <1>1, <1>3, <1>5, <1>11 DEF TopOk
<1>15. ExceptionsAgree(e)'
  <2>1. CASE Head(stack).rendered
    BY <1>6, <1>9, <1>10, <1>13, <2>1 DEF ExceptionsAgree
  <2>2. CASE ~Head(stack).rendered
    BY <1>6, <1>9, <1>10, <2>2 DEF ExceptionsAgree
  <2> QED
    BY <2>1, <2>2
<1>16. SectionsAgree("outside", base[n])'
  <2>1. critical = refusals /\ sections = 0
    BY <1>2, <1>5, <1>14 DEF Counted, ScopeTypes
  <2> QED
    BY <1>5, <2>1 DEF SectionsAgree
<1>17. PICK p \in Nat : p = base[n]
  BY <1>8
<1>18. Agrees(Label(c, e, "outside"), p)'
  BY <1>5, <1>12, <1>14, <1>15, <1>16, <1>17 DEF Agrees
<1>19. TopOk(fr[n], p)'
  BY <1>7, <1>12, <1>13, <1>17, <1>18 DEF TopOk
<1>20. ScopeTypes'
  <2>1. pending' \in BOOLEAN /\ entitled' \in BOOLEAN
    BY <1>2, <1>6, <1>9 DEF ScopeTypes
  <2> QED
    BY <1>2, <1>4, <1>5, <1>8, <2>1 DEF ScopeTypes
<1>21. Fits(Tail(stack), fr, base) /\ Len(Tail(stack)) = n
  BY <1>4
<1> QED
  BY <1>5, <1>8, <1>17, <1>19, <1>20, <1>21 DEF ScopeInv

\* A hook returning keeps it: the app finds level, exceptions and sections as they should
\* be.
LEMMA HookReturnsStep ==
  ASSUME ScopeInv, HookReturns
  PROVE  ScopeInv'
<1>1. PICK fr, base : Fits(stack, fr, base) /\ TopOk(Head(stack), base[Len(stack)])
  BY DEF ScopeInv
<1>2. ScopeTypes /\ stack \in Seq(Frames) /\ stack # <<>>
  BY DEF ScopeInv, ScopeTypes
<1>3. PICK n \in Nat : Len(stack) = n + 1 /\ Len(stack) - 1 = n
  <2>1. Len(stack) \in Nat \ {0} /\ Len(stack) - 1 \in Nat /\ Len(stack) = (Len(stack) - 1) + 1
    BY <1>2
  <2> QED
    BY <2>1
<1>4. /\ Head(stack) \in Frames /\ Tail(stack) \in Seq(Frames) /\ Len(Tail(stack)) = n /\ base[n + 1] \in Nat
      /\ Joins(n, fr, base, Head(stack), base[n + 1])
      /\ Fits(Tail(stack), fr, base)
  BY <1>1, <1>2, <1>3, FitsTop
<1>5. /\ Head(stack).kind = "hook" /\ Head(stack).ops = <<>> /\ stack' = Tail(stack)
      /\ UNCHANGED <<inHook, critical, pending, sections, entitled, refusals>>
  BY DEF HookReturns, Top
<1>6. n > 0 /\ fr[n].kind = "app" /\ base[n] = base[n + 1]
  BY <1>4, <1>5 DEF Joins
<1>7. Tail(stack) # <<>> /\ fr[n] = Head(Tail(stack))
  <2>1. Tail(stack) # <<>>
    BY <1>4, <1>6, NotEmpty
  <2> QED
    BY <1>4, <2>1, FitsTop
<1>8. PICK b \in Nat : b = base[n + 1] /\ b = base[n]
  BY <1>4, <1>6
<1>9. PICK l \in Labels : Agrees(l, b) /\ Finishes(<<>>, l, b)
  BY <1>1, <1>3, <1>5, <1>8 DEF TopOk
<1>10. Ended(l, b)
  <2>1. PICK z \in Labels : Runs(<<>>, l, z, b) /\ Ended(z, b)
    BY <1>9 DEF Finishes
  <2> QED
    BY <2>1, RunsOver
<1>11. inHook = b /\ pending = entitled /\ critical = refusals + Counted(b)
  <2>1. inHook = b /\ ExceptionsAgree(l.ex) /\ SectionsAgree(l.cs, b)
    BY <1>9, <1>10 DEF Agrees, Ended
  <2>2. l.ex \in {"eq", "none", "own"} /\ l.cs \in {"outside", "any"}
    BY <1>10 DEF Ended
  <2>3. pending = entitled
    BY <1>2, <2>1, <2>2 DEF ExceptionsAgree, ScopeTypes
  <2>4. critical = refusals + Counted(b)
    BY <1>2, <2>1, <2>2 DEF SectionsAgree, ScopeTypes, Counted
  <2> QED
    BY <2>1, <2>3, <2>4
<1>12. TopOk(fr[n], b)'
  BY <1>5, <1>6, <1>11 DEF TopOk, Counted
<1>13. ScopeTypes'
  BY <1>2, <1>4, <1>5, <1>7 DEF ScopeTypes
<1>14. Fits(Tail(stack), fr, base) /\ Len(Tail(stack)) = n
  BY <1>4
<1> QED
  BY <1>5, <1>7, <1>8, <1>12, <1>13, <1>14 DEF ScopeInv

-----------------------------------------------------------------------------
\* The types of all but the stack.
CountersTyped ==
  /\ inHook \in Nat /\ critical \in Nat /\ sections \in Nat /\ refusals \in Nat
  /\ pending \in BOOLEAN /\ entitled \in BOOLEAN

\* The hook on top, about to do op, and what it knows before and after.
AtWork(op, s, fr, base, b, k, m, rest) ==
  /\ s = Tail(stack) /\ s \in Seq(Frames) /\ Fits(s, fr, base)
  /\ Len(s) > 0 /\ fr[Len(s)].kind = "app" /\ base[Len(s)] = b
  /\ rest = Tail(Top.ops) /\ rest \in Seq(Ops) /\ Finishes(rest, m, b)
  /\ Agrees(k, b) /\ Exact(op, k, m, b)

\* Forgetting keeps an agreement.
LEMMA WeakerAgrees ==
  ASSUME pending \in BOOLEAN, entitled \in BOOLEAN,
         NEW l \in Labels, NEW k \in Labels, NEW b, Weaker(l, k), Agrees(l, b)
  PROVE  Agrees(k, b)
<1>1. CASE k = l
  BY <1>1
<1>2. CASE l.ex = "none" /\ k = Label(l.level, "eq", l.cs)
  <2>1. k.level = l.level /\ k.ex = "eq" /\ k.cs = l.cs
    BY <1>2 DEF Label
  <2>2. ExceptionsAgree("eq")
    BY <1>2 DEF Agrees, ExceptionsAgree
  <2> QED
    BY <2>1, <2>2 DEF Agrees
<1> QED
  BY <1>1, <1>2 DEF Weaker

\* A hook that has reached an operation has a label to do it at and one after it.
LEMMA HookAtWork ==
  ASSUME ScopeInv, NEW op, Reached(op)
  PROVE  \E s, fr, base, rest : \E b \in Nat, k \in Labels, m \in Labels :
           AtWork(op, s, fr, base, b, k, m, rest)
<1>1. PICK fr, base : Fits(stack, fr, base) /\ TopOk(Head(stack), base[Len(stack)])
  BY DEF ScopeInv
<1>2. stack \in Seq(Frames) /\ stack # <<>> /\ pending \in BOOLEAN /\ entitled \in BOOLEAN
  BY DEF ScopeInv, ScopeTypes
<1>3. PICK n \in Nat : Len(stack) = n + 1 /\ Len(stack) - 1 = n
  <2>1. Len(stack) \in Nat \ {0} /\ Len(stack) - 1 \in Nat /\ Len(stack) = (Len(stack) - 1) + 1
    BY <1>2
  <2> QED
    BY <2>1
<1>4. /\ Head(stack) \in Frames /\ Tail(stack) \in Seq(Frames) /\ Len(Tail(stack)) = n /\ base[n + 1] \in Nat
      /\ Joins(n, fr, base, Head(stack), base[n + 1])
      /\ Fits(Tail(stack), fr, base)
  BY <1>1, <1>2, <1>3, FitsTop
<1>5. Head(stack).kind = "hook" /\ Head(stack).ops # <<>> /\ Head(Head(stack).ops) = op
  BY DEF Reached, Top
<1>6. n > 0 /\ fr[n].kind = "app" /\ base[n] = base[n + 1]
  BY <1>4, <1>5 DEF Joins
<1>7. PICK b \in Nat : b = base[n + 1] /\ b = base[n]
  BY <1>4, <1>6
<1>8. PICK l \in Labels : Agrees(l, b) /\ Finishes(Head(stack).ops, l, b)
  BY <1>1, <1>3, <1>5, <1>7 DEF TopOk
<1>9. PICK z \in Labels : Runs(Head(stack).ops, l, z, b) /\ Ended(z, b)
  BY <1>8 DEF Finishes
<1>10. /\ Tail(Head(stack).ops) \in Seq(Ops)
       /\ \E m \in Labels : Leads(op, l, m, b) /\ Runs(Tail(Head(stack).ops), m, z, b)
  BY <1>5, <1>9, RunsFirst
<1>11. PICK m \in Labels : Leads(op, l, m, b) /\ Runs(Tail(Head(stack).ops), m, z, b)
  BY <1>10
<1>12. PICK k \in Labels : Weaker(l, k) /\ Exact(op, k, m, b)
  BY <1>11 DEF Leads
<1>13. Agrees(k, b)
  BY <1>2, <1>8, <1>12, WeakerAgrees
<1>14. Finishes(Tail(Head(stack).ops), m, b)
  BY <1>9, <1>11 DEF Finishes
<1>15. AtWork(op, Tail(stack), fr, base, b, k, m, Tail(Head(stack).ops))
  BY <1>4, <1>6, <1>7, <1>10, <1>12, <1>13, <1>14 DEF AtWork, Top
<1> QED
  BY <1>15

\* A hook that goes on from a label that agrees keeps the invariant.
LEMMA HookMoves ==
  ASSUME NEW s \in Seq(Frames), NEW fr, NEW base, NEW b \in Nat, NEW m \in Labels, NEW ops,
         Fits(s, fr, base), Len(s) > 0, fr[Len(s)].kind = "app", base[Len(s)] = b,
         Finishes(ops, m, b), CountersTyped', stack' = <<Hook(ops)>> \o s, Agrees(m, b)'
  PROVE  ScopeInv'
<1>1. PICK n \in Nat : n = Len(s)
  OBVIOUS
<1>2. ops \in Seq(Ops)
  BY DEF Finishes, Runs
<1>3. Hook(ops) \in Frames /\ Hook(ops).kind = "hook" /\ Hook(ops).ops = ops
  BY <1>2, FrameKinds
<1>4. Joins(n, fr, base, Hook(ops), b)
  BY <1>1, <1>3 DEF Joins
<1>5. PICK fr2, base2 : Fits(<<Hook(ops)>> \o s, fr2, base2) /\ base2[n + 1] = b
  BY <1>1, <1>3, <1>4, FitsPush
<1>6. /\ <<Hook(ops)>> \o s \in Seq(Frames) /\ <<Hook(ops)>> \o s # <<>>
      /\ Len(<<Hook(ops)>> \o s) = n + 1 /\ Head(<<Hook(ops)>> \o s) = Hook(ops)
  BY <1>1, <1>3, PushedSeq
<1>7. TopOk(Hook(ops), b)'
  BY <1>3 DEF TopOk
<1>8. ScopeTypes'
  BY <1>6 DEF ScopeTypes, CountersTyped
<1> QED
  BY <1>5, <1>6, <1>7, <1>8 DEF ScopeInv

\* The same for the operation after the one done.
LEMMA ProceedMoves ==
  ASSUME NEW op, NEW s, NEW fr, NEW base, NEW rest, NEW b \in Nat, NEW k \in Labels, NEW m \in Labels,
         AtWork(op, s, fr, base, b, k, m, rest), Proceed, CountersTyped', Agrees(m, b)'
  PROVE  ScopeInv'
<1>1. /\ s \in Seq(Frames) /\ Fits(s, fr, base)
      /\ Len(s) > 0 /\ fr[Len(s)].kind = "app" /\ base[Len(s)] = b
      /\ Finishes(rest, m, b) /\ stack' = <<Hook(rest)>> \o s
  BY DEF AtWork, Proceed, Rest
<1> QED
  BY <1>1, HookMoves

\* What an operation of the logger's own needs and where it leads.
LEMMA ExactIs ==
  ASSUME NEW k \in Labels, NEW m \in Labels, NEW b
  PROVE  /\ Exact("up", k, m, b) => m = Label(k.level + 1, k.ex, k.cs)
         /\ Exact("down", k, m, b) => k.level > 0 /\ m = Label(k.level - 1, k.ex, k.cs)
         /\ Exact("log", k, m, b) => m = k
         /\ Exact("delete", k, m, b) => m = k /\ k.cs = "outside"
         /\ Exact("mint", k, m, b) => m = k /\ k.ex \in {"eq", "none", "own", "taken"} /\ k.cs = "outside"
         /\ Exact("jni", k, m, b) => m = k /\ k.ex = "none" /\ k.cs = "outside"
         /\ Exact("fail", k, m, b) => k.ex = "none" /\ k.cs = "outside" /\ m = Label(k.level, "failed", k.cs)
         /\ Exact("clear", k, m, b) =>
              /\ k.cs = "outside"
              /\ \/ k.ex \in {"none", "failed", "thrown"} /\ m = Label(k.level, "none", k.cs)
                 \/ k.ex \in {"own", "taken"} /\ m = Label(k.level, "taken", k.cs)
         /\ Exact("throw", k, m, b) => k.ex = "taken" /\ k.cs = "outside" /\ m = Label(k.level, "own", k.cs)
<1>1. Exact("up", k, m, b) => m = Label(k.level + 1, k.ex, k.cs)
  BY DEF Exact, Plain, HelperNames
<1>2. Exact("down", k, m, b) => k.level > 0 /\ m = Label(k.level - 1, k.ex, k.cs)
  BY DEF Exact, Plain, HelperNames
<1>3. /\ Exact("log", k, m, b) => m = k
      /\ Exact("delete", k, m, b) => m = k /\ k.cs = "outside"
      /\ Exact("mint", k, m, b) => m = k /\ k.ex \in {"eq", "none", "own", "taken"} /\ k.cs = "outside"
  BY DEF Exact, Plain, HelperNames
<1>4. Exact("jni", k, m, b) => m = k /\ k.ex = "none" /\ k.cs = "outside"
  BY DEF Exact, Plain, HelperNames
<1>5. Exact("fail", k, m, b) => k.ex = "none" /\ k.cs = "outside" /\ m = Label(k.level, "failed", k.cs)
  BY DEF Exact, Plain, HelperNames
<1>6. Exact("clear", k, m, b) =>
        /\ k.cs = "outside"
        /\ \/ k.ex \in {"none", "failed", "thrown"} /\ m = Label(k.level, "none", k.cs)
           \/ k.ex \in {"own", "taken"} /\ m = Label(k.level, "taken", k.cs)
  BY DEF Exact, Plain, HelperNames
<1>7. Exact("throw", k, m, b) => k.ex = "taken" /\ k.cs = "outside" /\ m = Label(k.level, "own", k.cs)
  BY DEF Exact, Plain, HelperNames
<1> QED
  BY <1>1, <1>2, <1>3, <1>4, <1>5, <1>6, <1>7

\* What the original function, a count, app code or a helper needs and where it leads.
LEMMA ExactOriginal ==
  ASSUME NEW k \in Labels, NEW m \in Labels, NEW b
  PROVE  /\ Exact("original", k, m, b) \/ Exact("throw_own", k, m, b) => m = Label(k.level, "eq", k.cs)
         /\ Exact("clear_own", k, m, b) => m = Label(k.level, "none", k.cs)
         /\ Exact("enter", k, m, b) \/ Exact("refuse", k, m, b) =>
              k.level = b /\ k.cs = "any" /\ m = Label(b, "eq", IF b = 0 THEN "entered" ELSE "any")
         /\ Exact("leave", k, m, b) =>
              k.level = b /\ k.cs = "inside" /\ m = Label(b, "eq", IF b = 0 THEN "left" ELSE "any")
         /\ Exact("count", k, m, b) => k.cs = "entered" /\ m = Label(k.level, k.ex, "any")
         /\ Exact("uncount", k, m, b) => k.cs = "left" /\ m = Label(k.level, k.ex, "any")
         /\ Exact("method", k, m, b) => k.level = b /\ k.ex = "eq" /\ k.cs = "outside" /\ m = Label(b, "eq", "outside")
         /\ Exact("render", k, m, b) =>
              k.level > 0 /\ k.ex = "none" /\ k.cs = "outside" /\ m = Label(k.level, "thrown", "outside")
         /\ \A h \in HelperNames : Exact(h, k, m, b) => m = k /\ k.ex \in {"eq", "none"} /\ k.cs = "outside"
<1>1. Exact("original", k, m, b) \/ Exact("throw_own", k, m, b) => m = Label(k.level, "eq", k.cs)
  BY DEF Exact, Plain, HelperNames
<1>2. Exact("clear_own", k, m, b) => m = Label(k.level, "none", k.cs)
  BY DEF Exact, Plain, HelperNames
<1>3. Exact("enter", k, m, b) \/ Exact("refuse", k, m, b) =>
        k.level = b /\ k.cs = "any" /\ m = Label(b, "eq", IF b = 0 THEN "entered" ELSE "any")
  BY DEF Exact, Plain, HelperNames
<1>4. Exact("leave", k, m, b) =>
        k.level = b /\ k.cs = "inside" /\ m = Label(b, "eq", IF b = 0 THEN "left" ELSE "any")
  BY DEF Exact, Plain, HelperNames
<1>5. Exact("count", k, m, b) => k.cs = "entered" /\ m = Label(k.level, k.ex, "any")
  BY DEF Exact, Plain, HelperNames
<1>6. Exact("uncount", k, m, b) => k.cs = "left" /\ m = Label(k.level, k.ex, "any")
  BY DEF Exact, Plain, HelperNames
<1>7. Exact("method", k, m, b) => k.level = b /\ k.ex = "eq" /\ k.cs = "outside" /\ m = Label(b, "eq", "outside")
  BY DEF Exact, Plain, HelperNames
<1>8. Exact("render", k, m, b) =>
        k.level > 0 /\ k.ex = "none" /\ k.cs = "outside" /\ m = Label(k.level, "thrown", "outside")
  BY DEF Exact, Plain, HelperNames
<1>9. \A h \in HelperNames : Exact(h, k, m, b) => m = k /\ k.ex \in {"eq", "none"} /\ k.cs = "outside"
  BY DEF Exact, Plain, HelperNames
<1> QED
  BY <1>1, <1>2, <1>3, <1>4, <1>5, <1>6, <1>7, <1>8, <1>9

\* A label agrees by its parts.
LEMMA LabelAgrees ==
  ASSUME NEW v \in Nat, NEW e \in Exceptions, NEW c \in Sectioned, NEW b,
         inHook = v, ExceptionsAgree(e), SectionsAgree(c, b)
  PROVE  Agrees(Label(v, e, c), b)
BY Labelled DEF Agrees

\* Raising and lowering the counter of hook scopes keeps the invariant.
LEMMA SetReentrantStep ==
  ASSUME ScopeInv, SetReentrant
  PROVE  ScopeInv'
<1>1. Proceed /\ UNCHANGED <<critical, pending, sections, entitled, refusals>> /\ CountersTyped
  BY DEF SetReentrant, ScopeInv, ScopeTypes, CountersTyped
<1>2. CASE Reached("up") /\ inHook' = inHook + 1
  <2>1. PICK s, fr, base, rest : \E b \in Nat, k \in Labels, m \in Labels : AtWork("up", s, fr, base, b, k, m, rest)
    BY <1>2, HookAtWork
  <2>2. PICK b \in Nat, k \in Labels, m \in Labels : AtWork("up", s, fr, base, b, k, m, rest)
    BY <2>1
  <2>3. Agrees(k, b) /\ m = Label(k.level + 1, k.ex, k.cs)
    BY <2>2, ExactIs DEF AtWork
  <2>4. k.level + 1 \in Nat /\ k.ex \in Exceptions /\ k.cs \in Sectioned
    BY OneOfLabels
  <2>5. m.level = k.level + 1 /\ m.ex = k.ex /\ m.cs = k.cs
    BY <2>3, <2>4, Labelled
  <2>6. ExceptionsAgree(k.ex)' /\ SectionsAgree(k.cs, b)'
    BY <1>1, <2>3 DEF Agrees, ExceptionsAgree, SectionsAgree, Counted
  <2>7. inHook' = k.level + 1
    BY <1>2, <2>3 DEF Agrees
  <2>8. Agrees(m, b)'
    BY <2>5, <2>6, <2>7 DEF Agrees
  <2>9. CountersTyped'
    BY <1>1, <1>2 DEF CountersTyped
  <2> QED
    BY <1>1, <2>2, <2>8, <2>9, ProceedMoves
<1>3. CASE Reached("down") /\ inHook' = IF inHook > 0 THEN inHook - 1 ELSE 0
  <2>1. PICK s, fr, base, rest : \E b \in Nat, k \in Labels, m \in Labels : AtWork("down", s, fr, base, b, k, m, rest)
    BY <1>3, HookAtWork
  <2>2. PICK b \in Nat, k \in Labels, m \in Labels : AtWork("down", s, fr, base, b, k, m, rest)
    BY <2>1
  <2>3. Agrees(k, b) /\ k.level > 0 /\ m = Label(k.level - 1, k.ex, k.cs)
    BY <2>2, ExactIs DEF AtWork
  <2>4. k.level - 1 \in Nat /\ k.ex \in Exceptions /\ k.cs \in Sectioned
    BY <2>3, OneOfLabels
  <2>5. m.level = k.level - 1 /\ m.ex = k.ex /\ m.cs = k.cs
    BY <2>3, <2>4, Labelled
  <2>6. ExceptionsAgree(k.ex)' /\ SectionsAgree(k.cs, b)'
    BY <1>1, <2>3 DEF Agrees, ExceptionsAgree, SectionsAgree, Counted
  <2>7. inHook' = k.level - 1
    BY <1>3, <2>3 DEF Agrees
  <2>8. Agrees(m, b)'
    BY <2>5, <2>6, <2>7 DEF Agrees
  <2>9. CountersTyped'
    BY <1>1, <2>4, <2>7 DEF CountersTyped
  <2> QED
    BY <1>1, <2>2, <2>8, <2>9, ProceedMoves
<1> QED
  BY <1>2, <1>3 DEF SetReentrant

\* Raising and lowering the counter of critical sections keeps it.
LEMMA SetCriticalStep ==
  ASSUME ScopeInv, SetCritical
  PROVE  ScopeInv'
<1>1. Proceed /\ UNCHANGED <<inHook, pending, sections, entitled, refusals>> /\ CountersTyped
  BY DEF SetCritical, ScopeInv, ScopeTypes, CountersTyped
<1>2. ASSUME NEW op \in {"count", "uncount"}, NEW c \in {"entered", "left"}, Reached(op), c = (IF op = "count" THEN "entered" ELSE "left"),
             critical' = IF op = "count" THEN critical + 1 ELSE IF critical > 0 THEN critical - 1 ELSE 0
      PROVE  ScopeInv'
  <2>1. PICK s, fr, base, rest : \E b \in Nat, k \in Labels, m \in Labels : AtWork(op, s, fr, base, b, k, m, rest)
    BY <1>2, HookAtWork
  <2>2. PICK b \in Nat, k \in Labels, m \in Labels : AtWork(op, s, fr, base, b, k, m, rest)
    BY <2>1
  <2>3. Agrees(k, b) /\ k.cs = c /\ m = Label(k.level, k.ex, "any")
    <3>1. Agrees(k, b) /\ Exact(op, k, m, b)
      BY <2>2 DEF AtWork
    <3>2. CASE op = "count"
      BY <1>2, <3>1, <3>2, ExactOriginal
    <3>3. CASE op = "uncount"
      BY <1>2, <3>1, <3>3, ExactOriginal
    <3> QED
      BY <3>2, <3>3
  <2>4. k.level \in Nat /\ k.ex \in Exceptions /\ "any" \in Sectioned
    BY OneOfLabels DEF Sectioned
  <2>5. m.level = k.level /\ m.ex = k.ex /\ m.cs = "any"
    BY <2>3, <2>4, Labelled
  <2>6. ExceptionsAgree(k.ex)'
    BY <1>1, <2>3 DEF Agrees, ExceptionsAgree
  <2>7. b = 0 /\ critical' = refusals + sections
    <3>1. CASE op = "count"
      BY <1>1, <1>2, <2>3, <3>1 DEF Agrees, SectionsAgree, CountersTyped
    <3>2. CASE op = "uncount"
      BY <1>1, <1>2, <2>3, <3>2 DEF Agrees, SectionsAgree, CountersTyped
    <3> QED
      BY <3>1, <3>2
  <2>8. SectionsAgree("any", b)'
    BY <1>1, <2>7 DEF SectionsAgree, Counted
  <2>9. Agrees(m, b)'
    BY <1>1, <2>3, <2>5, <2>6, <2>8 DEF Agrees
  <2>10. CountersTyped'
    BY <1>1, <2>7 DEF CountersTyped
  <2> QED
    BY <1>1, <2>2, <2>9, <2>10, ProceedMoves
<1>3. CASE Reached("count") /\ critical' = critical + 1
  BY <1>2, <1>3
<1>4. CASE Reached("uncount") /\ critical' = IF critical > 0 THEN critical - 1 ELSE 0
  BY <1>2, <1>4
<1> QED
  BY <1>3, <1>4 DEF SetCritical

\* The logger's own JNI calls keep it, whether they change nothing, fail, clear or throw.
LEMMA OwnCallStep ==
  ASSUME ScopeInv, OwnCall
  PROVE  ScopeInv'
<1>1. Proceed /\ UNCHANGED <<inHook, critical, sections, entitled, refusals>> /\ CountersTyped
  BY DEF OwnCall, ScopeInv, ScopeTypes, CountersTyped
<1>2. ASSUME NEW b \in Nat, NEW k \in Labels, NEW m \in Labels, NEW e \in Exceptions,
             Agrees(k, b), m = Label(k.level, e, k.cs), ExceptionsAgree(e)', pending' \in BOOLEAN
      PROVE  Agrees(m, b)' /\ CountersTyped'
  <2>1. k.level \in Nat /\ k.cs \in Sectioned
    BY OneOfLabels
  <2>2. m.level = k.level /\ m.ex = e /\ m.cs = k.cs
    BY <1>2, <2>1, Labelled
  <2>3. SectionsAgree(k.cs, b)'
    BY <1>1, <1>2 DEF Agrees, SectionsAgree, Counted
  <2>4. Agrees(m, b)'
    BY <1>1, <1>2, <2>2, <2>3 DEF Agrees
  <2> QED
    BY <1>1, <1>2, <2>4 DEF CountersTyped
<1>3. ASSUME NEW op \in {"jni", "mint", "delete", "log"}, Reached(op), UNCHANGED pending
      PROVE  ScopeInv'
  <2>1. PICK s, fr, base, rest : \E b \in Nat, k \in Labels, m \in Labels : AtWork(op, s, fr, base, b, k, m, rest)
    BY <1>3, HookAtWork
  <2>2. PICK b \in Nat, k \in Labels, m \in Labels : AtWork(op, s, fr, base, b, k, m, rest)
    BY <2>1
  <2>3. Agrees(k, b) /\ m = k
    BY <2>2, ExactIs DEF AtWork
  <2>4. k = Label(k.level, k.ex, k.cs) /\ k.ex \in Exceptions
    BY OneOfLabels
  <2>5. ExceptionsAgree(k.ex)' /\ pending' \in BOOLEAN
    BY <1>1, <1>3, <2>3 DEF Agrees, ExceptionsAgree, CountersTyped
  <2>6. Agrees(m, b)' /\ CountersTyped'
    BY <1>2, <2>3, <2>4, <2>5
  <2> QED
    BY <1>1, <2>2, <2>6, ProceedMoves
<1>4. CASE Reached("fail") /\ pending' = TRUE
  <2>1. PICK s, fr, base, rest : \E b \in Nat, k \in Labels, m \in Labels : AtWork("fail", s, fr, base, b, k, m, rest)
    BY <1>4, HookAtWork
  <2>2. PICK b \in Nat, k \in Labels, m \in Labels : AtWork("fail", s, fr, base, b, k, m, rest)
    BY <2>1
  <2>3. Agrees(k, b) /\ k.ex = "none" /\ m = Label(k.level, "failed", k.cs)
    BY <2>2, ExactIs DEF AtWork
  <2>4. ExceptionsAgree("failed")' /\ "failed" \in Exceptions
    BY <1>1, <1>4, <2>3 DEF Agrees, ExceptionsAgree, Exceptions
  <2>5. Agrees(m, b)' /\ CountersTyped'
    BY <1>2, <1>4, <2>3, <2>4
  <2> QED
    BY <1>1, <2>2, <2>5, ProceedMoves
<1>5. CASE Reached("throw") /\ pending' = TRUE
  <2>1. PICK s, fr, base, rest : \E b \in Nat, k \in Labels, m \in Labels : AtWork("throw", s, fr, base, b, k, m, rest)
    BY <1>5, HookAtWork
  <2>2. PICK b \in Nat, k \in Labels, m \in Labels : AtWork("throw", s, fr, base, b, k, m, rest)
    BY <2>1
  <2>3. Agrees(k, b) /\ k.ex = "taken" /\ m = Label(k.level, "own", k.cs)
    BY <2>2, ExactIs DEF AtWork
  <2>4. ExceptionsAgree("own")' /\ "own" \in Exceptions
    BY <1>1, <1>5, <2>3 DEF Agrees, ExceptionsAgree, Exceptions
  <2>5. Agrees(m, b)' /\ CountersTyped'
    BY <1>2, <1>5, <2>3, <2>4
  <2> QED
    BY <1>1, <2>2, <2>5, ProceedMoves
<1>6. CASE Reached("clear") /\ pending' = FALSE
  <2>1. PICK s, fr, base, rest : \E b \in Nat, k \in Labels, m \in Labels : AtWork("clear", s, fr, base, b, k, m, rest)
    BY <1>6, HookAtWork
  <2>2. PICK b \in Nat, k \in Labels, m \in Labels : AtWork("clear", s, fr, base, b, k, m, rest)
    BY <2>1
  <2>3. /\ Agrees(k, b)
        /\ \/ k.ex \in {"none", "failed", "thrown"} /\ m = Label(k.level, "none", k.cs)
           \/ k.ex \in {"own", "taken"} /\ m = Label(k.level, "taken", k.cs)
    BY <2>2, ExactIs DEF AtWork
  <2>4. CASE k.ex \in {"none", "failed", "thrown"} /\ m = Label(k.level, "none", k.cs)
    <3>1. ExceptionsAgree("none")' /\ "none" \in Exceptions
      BY <1>1, <1>6, <2>3, <2>4 DEF Agrees, ExceptionsAgree, Exceptions
    <3>2. Agrees(m, b)' /\ CountersTyped'
      BY <1>2, <1>6, <2>3, <2>4, <3>1
    <3> QED
      BY <1>1, <2>2, <3>2, ProceedMoves
  <2>5. CASE k.ex \in {"own", "taken"} /\ m = Label(k.level, "taken", k.cs)
    <3>1. ExceptionsAgree("taken")' /\ "taken" \in Exceptions
      BY <1>1, <1>6, <2>3, <2>5 DEF Agrees, ExceptionsAgree, Exceptions
    <3>2. Agrees(m, b)' /\ CountersTyped'
      BY <1>2, <1>6, <2>3, <2>5, <3>1
    <3> QED
      BY <1>1, <2>2, <3>2, ProceedMoves
  <2> QED
    BY <2>3, <2>4, <2>5
<1> QED
  BY <1>3, <1>4, <1>5, <1>6 DEF OwnCall

\* The function the hook stands for keeps it, refused and nested sections included.
LEMMA OriginalStep ==
  ASSUME ScopeInv, Original
  PROVE  ScopeInv'
<1>1. Proceed /\ UNCHANGED <<inHook, critical>> /\ CountersTyped /\ pending' = entitled'
  BY DEF Original, ScopeInv, ScopeTypes, CountersTyped
<1>2. ASSUME NEW b \in Nat, NEW k \in Labels, NEW m \in Labels, NEW e \in Exceptions, NEW c \in Sectioned,
             Agrees(k, b), m = Label(k.level, e, c), ExceptionsAgree(e)', SectionsAgree(c, b)'
      PROVE  Agrees(m, b)'
  <2>1. k.level \in Nat
    BY OneOfLabels
  <2>2. m.level = k.level /\ m.ex = e /\ m.cs = c
    BY <1>2, <2>1, Labelled
  <2> QED
    BY <1>1, <1>2, <2>2 DEF Agrees
<1>3. ExceptionsAgree("eq")' /\ "eq" \in Exceptions /\ "none" \in Exceptions
  BY <1>1 DEF ExceptionsAgree, Exceptions
<1>4. ASSUME NEW op \in {"original", "throw_own", "clear_own"}, Reached(op), UNCHANGED <<sections, refusals>>,
             entitled' \in BOOLEAN, op = "clear_own" => entitled' = FALSE
      PROVE  ScopeInv'
  <2>1. PICK s, fr, base, rest : \E b \in Nat, k \in Labels, m \in Labels : AtWork(op, s, fr, base, b, k, m, rest)
    BY <1>4, HookAtWork
  <2>2. PICK b \in Nat, k \in Labels, m \in Labels : AtWork(op, s, fr, base, b, k, m, rest)
    BY <2>1
  <2>3. Agrees(k, b) /\ Exact(op, k, m, b)
    BY <2>2 DEF AtWork
  <2>4. SectionsAgree(k.cs, b)' /\ k.cs \in Sectioned
    BY <1>1, <1>4, <2>3, OneOfLabels DEF Agrees, SectionsAgree, Counted
  <2>5. CountersTyped'
    BY <1>1, <1>4 DEF CountersTyped
  <2>6. CASE op \in {"original", "throw_own"}
    <3>1. m = Label(k.level, "eq", k.cs)
      BY <2>3, <2>6, ExactOriginal
    <3>2. Agrees(m, b)'
      BY <1>2, <1>3, <2>3, <2>4, <3>1
    <3> QED
      BY <1>1, <2>2, <2>5, <3>2, ProceedMoves
  <2>7. CASE op = "clear_own"
    <3>1. m = Label(k.level, "none", k.cs)
      BY <2>3, <2>7, ExactOriginal
    <3>2. ExceptionsAgree("none")'
      BY <1>1, <1>4, <2>7 DEF ExceptionsAgree
    <3>3. Agrees(m, b)'
      BY <1>2, <1>3, <2>3, <2>4, <3>1, <3>2
    <3> QED
      BY <1>1, <2>2, <2>5, <3>3, ProceedMoves
  <2> QED
    BY <2>6, <2>7
<1>5. ASSUME NEW op \in {"enter", "refuse"}, Reached(op), UNCHANGED entitled,
             sections' = IF op = "enter" THEN sections + 1 ELSE sections,
             refusals' = IF op = "refuse" /\ inHook = 0 THEN refusals + 1 ELSE refusals
      PROVE  ScopeInv'
  <2>1. PICK s, fr, base, rest : \E b \in Nat, k \in Labels, m \in Labels : AtWork(op, s, fr, base, b, k, m, rest)
    BY <1>5, HookAtWork
  <2>2. PICK b \in Nat, k \in Labels, m \in Labels : AtWork(op, s, fr, base, b, k, m, rest)
    BY <2>1
  <2>3. Agrees(k, b) /\ Exact(op, k, m, b)
    BY <2>2 DEF AtWork
  <2>4. k.level = b /\ k.cs = "any" /\ m = Label(b, "eq", IF b = 0 THEN "entered" ELSE "any")
    BY <2>3, ExactOriginal
  <2>5. inHook = b /\ critical = refusals + Counted(b)
    BY <2>3, <2>4 DEF Agrees, SectionsAgree
  <2>6. CountersTyped'
    BY <1>1, <1>5 DEF CountersTyped
  <2>7. CASE b = 0
    <3>1. critical + 1 = refusals' + sections'
      <4>1. critical = refusals + sections
        BY <2>5, <2>7 DEF Counted
      <4>2. CASE op = "enter"
        BY <1>1, <1>5, <4>1, <4>2 DEF CountersTyped
      <4>3. CASE op = "refuse"
        BY <1>1, <1>5, <2>5, <2>7, <4>1, <4>3 DEF CountersTyped
      <4> QED
        BY <4>2, <4>3
    <3>2. SectionsAgree("entered", b)' /\ "entered" \in Sectioned
      BY <1>1, <2>7, <3>1 DEF SectionsAgree, Sectioned
    <3>3. m = Label(k.level, "eq", "entered")
      BY <2>4, <2>7
    <3>4. Agrees(m, b)'
      BY <1>2, <1>3, <2>3, <3>2, <3>3
    <3> QED
      BY <1>1, <2>2, <2>6, <3>4, ProceedMoves
  <2>8. CASE b # 0
    <3>1. refusals' = refusals /\ critical = refusals
      BY <1>1, <1>5, <2>5, <2>8 DEF Counted, CountersTyped
    <3>2. SectionsAgree("any", b)' /\ "any" \in Sectioned
      <4>1. critical' = refusals' + 0
        BY <1>1, <3>1 DEF CountersTyped
      <4> QED
        BY <2>8, <4>1 DEF SectionsAgree, Sectioned, Counted
    <3>3. m = Label(k.level, "eq", "any")
      BY <2>4, <2>8
    <3>4. Agrees(m, b)'
      BY <1>2, <1>3, <2>3, <3>2, <3>3
    <3> QED
      BY <1>1, <2>2, <2>6, <3>4, ProceedMoves
  <2> QED
    BY <2>7, <2>8
<1>6. CASE Reached("leave") /\ sections' = sections - 1 /\ UNCHANGED <<entitled, refusals>>
  <2>1. PICK s, fr, base, rest : \E b \in Nat, k \in Labels, m \in Labels : AtWork("leave", s, fr, base, b, k, m, rest)
    BY <1>6, HookAtWork
  <2>2. PICK b \in Nat, k \in Labels, m \in Labels : AtWork("leave", s, fr, base, b, k, m, rest)
    BY <2>1
  <2>3. Agrees(k, b) /\ Exact("leave", k, m, b)
    BY <2>2 DEF AtWork
  <2>4. k.level = b /\ k.cs = "inside" /\ m = Label(b, "eq", IF b = 0 THEN "left" ELSE "any")
    BY <2>3, ExactOriginal
  <2>5. sections > 0 /\ critical = refusals + Counted(b)
    BY <2>3, <2>4 DEF Agrees, SectionsAgree
  <2>6. CountersTyped'
    BY <1>1, <1>6, <2>5 DEF CountersTyped
  <2>7. CASE b = 0
    <3>1. critical = refusals' + sections' + 1
      <4>1. critical = refusals + sections
        BY <2>5, <2>7 DEF Counted
      <4> QED
        BY <1>1, <1>6, <4>1 DEF CountersTyped
    <3>2. SectionsAgree("left", b)' /\ "left" \in Sectioned
      BY <1>1, <2>7, <3>1 DEF SectionsAgree, Sectioned
    <3>3. m = Label(k.level, "eq", "left")
      BY <2>4, <2>7
    <3>4. Agrees(m, b)'
      BY <1>2, <1>3, <2>3, <3>2, <3>3
    <3> QED
      BY <1>1, <2>2, <2>6, <3>4, ProceedMoves
  <2>8. CASE b # 0
    <3>1. critical' = refusals' + 0
      BY <1>1, <1>6, <2>5, <2>8 DEF Counted, CountersTyped
    <3>2. SectionsAgree("any", b)' /\ "any" \in Sectioned
      BY <2>8, <3>1 DEF SectionsAgree, Sectioned, Counted
    <3>3. m = Label(k.level, "eq", "any")
      BY <2>4, <2>8
    <3>4. Agrees(m, b)'
      BY <1>2, <1>3, <2>3, <3>2, <3>3
    <3> QED
      BY <1>1, <2>2, <2>6, <3>4, ProceedMoves
  <2> QED
    BY <2>7, <2>8
<1>7. entitled \in BOOLEAN
  BY <1>1 DEF CountersTyped
<1>8. CASE Reached("original") /\ entitled' \in {entitled, TRUE} /\ UNCHANGED <<sections, refusals>>
  <2>1. "original" \in {"original", "throw_own", "clear_own"} /\ "original" # "clear_own" /\ entitled' \in BOOLEAN
    BY <1>7, <1>8
  <2> QED
    BY <1>4, <1>8, <2>1
<1>9. CASE Reached("throw_own") /\ entitled' = TRUE /\ UNCHANGED <<sections, refusals>>
  BY <1>4, <1>9
<1>10. CASE Reached("clear_own") /\ entitled' = FALSE /\ UNCHANGED <<sections, refusals>>
  BY <1>4, <1>10
<1>11. CASE Reached("enter") /\ sections' = sections + 1 /\ UNCHANGED <<entitled, refusals>>
  BY <1>5, <1>11
<1>12. CASE Reached("refuse") /\ refusals' = (IF inHook = 0 THEN refusals + 1 ELSE refusals) /\ UNCHANGED <<entitled, sections>>
  BY <1>5, <1>12
<1> QED
  BY <1>6, <1>8, <1>9, <1>10, <1>11, <1>12 DEF Original

\* What can be finished can be finished after a sequence that leads to it.
LEMMA FinishesAfter ==
  ASSUME NEW b, NEW l \in Labels, NEW m \in Labels, NEW s, NEW t, Runs(s, l, m, b), Finishes(t, m, b)
  PROVE  Finishes(s \o t, l, b)
BY RunsConcat DEF Finishes

\* A helper that is reached keeps it, whether the state allows it to run or not.
LEMMA ExpandStep ==
  ASSUME ScopeInv, Expand
  PROVE  ScopeInv'
<1>1. UNCHANGED <<inHook, critical, pending, sections, entitled, refusals>> /\ CountersTyped
  BY DEF Expand, ScopeInv, ScopeTypes, CountersTyped
<1>2. PICK h \in HelperNames : Reached(h) /\ \E ops \in Expansions(h) : stack' = <<Hook(ops \o Tail(Top.ops))>> \o Tail(stack)
  BY HelpersAre DEF Expand
<1>3. PICK ops \in Expansions(h) : stack' = <<Hook(ops \o Tail(Top.ops))>> \o Tail(stack)
  BY <1>2
<1>4. PICK s, fr, base, rest : \E b \in Nat, k \in Labels, m \in Labels : AtWork(h, s, fr, base, b, k, m, rest)
  BY <1>2, HookAtWork
<1>5. PICK b \in Nat, k \in Labels, m \in Labels : AtWork(h, s, fr, base, b, k, m, rest)
  BY <1>4
<1>6. /\ s \in Seq(Frames) /\ Fits(s, fr, base)
      /\ Len(s) > 0 /\ fr[Len(s)].kind = "app" /\ base[Len(s)] = b
      /\ stack' = <<Hook(ops \o rest)>> \o s
      /\ Agrees(k, b) /\ Exact(h, k, m, b) /\ Finishes(rest, m, b)
  BY <1>3, <1>5 DEF AtWork
<1>7. m = k /\ k.ex \in {"eq", "none"} /\ k.cs = "outside"
  BY <1>6, ExactOriginal
<1>8. k = Label(k.level, k.ex, "outside") /\ k.level \in Nat
  BY <1>7, OneOfLabels
<1>9. ASSUME NEW l \in Labels, Agrees(l, b), Finishes(ops \o rest, l, b) PROVE ScopeInv'
  <2>1. Agrees(l, b)'
    BY <1>1, <1>9 DEF Agrees, ExceptionsAgree, SectionsAgree, Counted
  <2>2. CountersTyped'
    BY <1>1 DEF CountersTyped
  <2> QED
    BY <1>6, <1>9, <2>1, <2>2, HookMoves
<1>10. CASE h \in {"Fill", "Arguments", "Result"}
  <2>1. Runs(ops, k, k, b)
    <3>1. CASE h = "Fill"
      <4>1. ops \in Seq(Quiet)
        BY <3>1, SharedTexts DEF Expansions
      <4> QED
        BY <1>7, <1>8, <4>1, RunsQuiet
    <3>2. CASE h = "Arguments"
      <4>1. ops \in Seq(Quiet)
        BY <3>2, SharedTexts DEF Expansions
      <4> QED
        BY <1>7, <1>8, <4>1, RunsQuiet
    <3>3. CASE h = "Result"
      <4>1. ops \in Result
        BY <3>3 DEF Expansions
      <4> QED
        BY <1>7, <1>8, <4>1, ResultRuns
    <3> QED
      BY <1>10, <3>1, <3>2, <3>3
  <2>2. Finishes(ops \o rest, k, b)
    BY <1>6, <1>7, <2>1, FinishesAfter
  <2> QED
    BY <1>6, <1>9, <2>2
<1>11. CASE h \notin {"Fill", "Arguments", "Result"}
  <2>1. ops \in IF Safe THEN Visualize[h] ELSE {<<>>}
    BY <1>11 DEF Expansions
  <2>2. CASE ~Safe
    <3>1. ops = <<>>
      BY <2>1, <2>2
    <3>2. Runs(ops, k, k, b)
      BY <3>1, RunsNone
    <3>3. Finishes(ops \o rest, k, b)
      BY <1>6, <1>7, <3>2, FinishesAfter
    <3> QED
      BY <1>6, <1>9, <3>3
  <2>3. CASE Safe
    <3>1. ops \in Visualize[h] /\ h \in DOMAIN Visualize
      BY <1>11, <2>1, <2>3, HelpersAre
    <3>2. None(k.level) \in Labels
      BY <1>8, HelperSteps
    <3>3. Runs(ops, None(k.level), None(k.level), b)
      BY <1>8, <3>1, VisualizeRuns
    <3>4. Finishes(rest, None(k.level), b)
      <4>1. CASE k.ex = "none"
        BY <1>6, <1>7, <1>8, <4>1 DEF None
      <4>2. CASE k.ex = "eq"
        <5>1. None(k.level) = Label(k.level, "none", k.cs)
          BY <1>7 DEF None
        <5>2. Finishes(rest, k, b)
          BY <1>6, <1>7
        <5> QED
          BY <3>2, <4>2, <5>1, <5>2, StrongerStart
      <4> QED
        BY <1>7, <4>1, <4>2
    <3>5. Finishes(ops \o rest, None(k.level), b)
      BY <3>2, <3>3, <3>4, FinishesAfter
    <3>6. Agrees(None(k.level), b)
      <4>1. ~pending /\ inHook = k.level /\ SectionsAgree("outside", b) /\ ExceptionsAgree(k.ex)
        BY <1>6, <1>7, <2>3 DEF Safe, Agrees
      <4>2. ~entitled
        BY <1>1, <1>7, <4>1 DEF ExceptionsAgree, CountersTyped
      <4>3. ExceptionsAgree("none")
        BY <4>1, <4>2 DEF ExceptionsAgree
      <4>4. "none" \in Exceptions /\ "outside" \in Sectioned
        BY DEF Exceptions, Sectioned
      <4> QED
        BY <1>8, <4>1, <4>3, <4>4, LabelAgrees DEF None
    <3> QED
      BY <1>9, <3>2, <3>5, <3>6
  <2> QED
    BY <2>2, <2>3
<1> QED
  BY <1>10, <1>11

\* App code runs above level zero exactly if it or app code around it is rendered.
LEMMA LevelOfApp ==
  ASSUME NEW s \in Seq(Frames), NEW fr, NEW base, Fits(s, fr, base), Len(s) > 0, fr[Len(s)].kind = "app"
  PROVE  base[Len(s)] > 0 <=> RenderedIn(Len(s), fr)
<1>1. PICK n \in Nat : Len(s) = n + 1
  <2>1. Len(s) - 1 \in Nat /\ Len(s) = (Len(s) - 1) + 1
    OBVIOUS
  <2> QED
    BY <2>1
<1>2. n + 1 \in 1 .. n + 1 /\ (n + 1) - 1 = n
  OBVIOUS
<1>3. Joins(n, fr, base, fr[n + 1], base[n + 1])
  BY <1>1, <1>2 DEF Fits, Chain
<1>4. base[n + 1] > 0 <=> (fr[n + 1].rendered \/ RenderedIn(n, fr))
  BY <1>1, <1>3 DEF Joins
<1>5. RenderedIn(n + 1, fr) <=> (fr[n + 1].rendered \/ RenderedIn(n, fr))
  <2>1. \A j \in Int : j \in 1 .. n + 1 <=> j \in 1 .. n \/ j = n + 1
    OBVIOUS
  <2> QED
    BY <1>1, <2>1 DEF RenderedIn
<1> QED
  BY <1>1, <1>4, <1>5

\* App code that starts, called or rendered, keeps it.
LEMMA AppRuns ==
  ASSUME NEW s \in Seq(Frames), NEW fr, NEW base, NEW b \in Nat, NEW rest, NEW c \in Nat, NEW r \in BOOLEAN,
         Fits(s, fr, base), Len(s) > 0, fr[Len(s)].kind = "app", base[Len(s)] = b,
         Finishes(rest, Label(c, IF r THEN "thrown" ELSE "eq", "outside"), b),
         r => c > 0, ~r => c = b,
         CountersTyped', stack' = <<App(r, FALSE)>> \o (<<Hook(rest)>> \o s),
         inHook' = c, (pending = entitled)', (critical = refusals + Counted(c))'
  PROVE  ScopeInv'
<1>1. PICK n \in Nat : n = Len(s)
  OBVIOUS
<1>2. rest \in Seq(Ops)
  BY DEF Finishes, Runs
<1>3. Hook(rest) \in Frames /\ Hook(rest).kind = "hook" /\ Hook(rest).ops = rest
  BY <1>2, FrameKinds
<1>4. App(r, FALSE) \in Frames /\ App(r, FALSE).kind = "app" /\ App(r, FALSE).rendered = r /\ App(r, FALSE).kept = FALSE
  BY FrameKinds
<1>5. Joins(n, fr, base, Hook(rest), b)
  BY <1>1, <1>3 DEF Joins
<1>6. PICK fr2, base2 :
        /\ Fits(<<Hook(rest)>> \o s, fr2, base2)
        /\ fr2[n + 1] = Hook(rest) /\ base2[n + 1] = b
        /\ \A d \in 1 .. n : fr2[d] = fr[d] /\ base2[d] = base[d]
  BY <1>1, <1>3, <1>5, FitsPush
<1>7. PICK t \in Seq(Frames) : t = <<Hook(rest)>> \o s /\ Len(t) = n + 1
  BY <1>1, <1>3, PushedSeq
<1>8. RenderedIn(n + 1, fr2) <=> b > 0
  <2>1. b > 0 <=> RenderedIn(n, fr)
    BY <1>1, LevelOfApp
  <2>3. ASSUME RenderedIn(n, fr) PROVE RenderedIn(n + 1, fr2)
    <3>1. PICK j \in 1 .. n : fr[j].kind = "app" /\ fr[j].rendered
      BY <2>3 DEF RenderedIn
    <3>2. j \in 1 .. n + 1 /\ fr2[j] = fr[j]
      BY <1>6
    <3> QED
      BY <3>1, <3>2 DEF RenderedIn
  <2>4. ASSUME RenderedIn(n + 1, fr2) PROVE RenderedIn(n, fr)
    <3>1. PICK j \in 1 .. n + 1 : fr2[j].kind = "app" /\ fr2[j].rendered
      BY <2>4 DEF RenderedIn
    <3>2. fr2[n + 1].kind # "app"
      BY <1>3, <1>6
    <3>3. j \in 1 .. n
      BY <3>1, <3>2
    <3>4. fr2[j] = fr[j]
      BY <1>6, <3>3
    <3> QED
      BY <3>1, <3>3, <3>4 DEF RenderedIn
  <2> QED
    BY <2>1, <2>3, <2>4
<1>9. c > 0 <=> (r \/ RenderedIn(n + 1, fr2))
  BY <1>8
<1>10. Waits(Hook(rest), App(r, FALSE), b, c)
  BY <1>3, <1>4 DEF Waits
<1>11. Joins(n + 1, fr2, base2, App(r, FALSE), c)
  BY <1>3, <1>4, <1>6, <1>9, <1>10 DEF Joins
<1>12. n + 1 \in Nat /\ Fits(t, fr2, base2)
  <2>1. Fits(t, fr2, base2)
    BY <1>6, <1>7, ZenonT(60)
  <2>2. n + 1 \in Nat
    BY <1>1
  <2> QED
    BY <2>1, <2>2
<1>18. Joins(Len(t), fr2, base2, App(r, FALSE), c) /\ Len(t) + 1 = n + 1 + 1
  BY <1>7, <1>11
<1>20. PICK a \in Frames : a = App(r, FALSE)
  BY <1>4
<1>19. \E fr3, base3 : Fits(<<a>> \o t, fr3, base3) /\ base3[Len(t) + 1] = c
  <2>1. Joins(Len(t), fr2, base2, a, c) /\ Fits(t, fr2, base2)
    BY <1>12, <1>18, <1>20
  <2>2. a \in Frames /\ t \in Seq(Frames) /\ c \in Nat
    BY <1>7, <1>20
  <2> QED
    BY <2>1, <2>2, FitsPushBase
<1>13. PICK fr3, base3 : Fits(<<a>> \o t, fr3, base3) /\ base3[n + 1 + 1] = c
  BY <1>18, <1>19
<1>14. /\ <<a>> \o t \in Seq(Frames) /\ <<a>> \o t # <<>>
       /\ Len(<<a>> \o t) = n + 1 + 1 /\ Head(<<a>> \o t) = a
  BY <1>7, PushedSeq
<1>15. stack' = <<a>> \o t
  BY <1>7, <1>20
<1>16. TopOk(a, c)'
  BY <1>4, <1>20 DEF TopOk
<1>17. ScopeTypes'
  BY <1>14, <1>15 DEF ScopeTypes, CountersTyped
<1> QED
  BY <1>13, <1>14, <1>15, <1>16, <1>17 DEF ScopeInv

\* The called method, toString or getName starting keeps it.
LEMMA RunAppStep ==
  ASSUME ScopeInv, RunApp
  PROVE  ScopeInv'
<1>1. UNCHANGED <<inHook, critical, pending, sections, refusals>> /\ CountersTyped
  BY DEF RunApp, ScopeInv, ScopeTypes, CountersTyped
<1>2. CASE Reached("method") /\ stack' = <<App(FALSE, FALSE)>> \o Rest /\ UNCHANGED entitled
  <2>1. PICK s, fr, base, rest : \E b \in Nat, k \in Labels, m \in Labels : AtWork("method", s, fr, base, b, k, m, rest)
    BY <1>2, HookAtWork
  <2>2. PICK b \in Nat, k \in Labels, m \in Labels : AtWork("method", s, fr, base, b, k, m, rest)
    BY <2>1
  <2>3. /\ s \in Seq(Frames) /\ Fits(s, fr, base)
        /\ Len(s) > 0 /\ fr[Len(s)].kind = "app" /\ base[Len(s)] = b
        /\ stack' = <<App(FALSE, FALSE)>> \o (<<Hook(rest)>> \o s)
        /\ Agrees(k, b) /\ Exact("method", k, m, b) /\ Finishes(rest, m, b)
    BY <1>2, <2>2 DEF AtWork, Rest
  <2>4. k.level = b /\ k.ex = "eq" /\ k.cs = "outside" /\ m = Label(b, "eq", "outside")
    BY <2>3, ExactOriginal
  <2>5. pending = entitled
    BY <2>3, <2>4 DEF Agrees, ExceptionsAgree
  <2>6. inHook = b /\ sections = 0 /\ critical = refusals
    BY <2>3, <2>4 DEF Agrees, SectionsAgree
  <2>7. inHook' = b /\ (critical = refusals + Counted(b))'
    BY <1>1, <2>6 DEF Counted, CountersTyped
  <2>8. CountersTyped'
    BY <1>1, <1>2 DEF CountersTyped
  <2>9. (pending = entitled)'
    BY <1>1, <1>2, <2>5
  <2> QED
    BY <2>3, <2>4, <2>7, <2>8, <2>9, AppRuns
<1>3. CASE Reached("render") /\ stack' = <<App(TRUE, entitled)>> \o Rest /\ entitled' = FALSE
  <2>1. PICK s, fr, base, rest : \E b \in Nat, k \in Labels, m \in Labels : AtWork("render", s, fr, base, b, k, m, rest)
    BY <1>3, HookAtWork
  <2>2. PICK b \in Nat, k \in Labels, m \in Labels : AtWork("render", s, fr, base, b, k, m, rest)
    BY <2>1
  <2>3. /\ s \in Seq(Frames) /\ Fits(s, fr, base)
        /\ Len(s) > 0 /\ fr[Len(s)].kind = "app" /\ base[Len(s)] = b
        /\ stack' = <<App(TRUE, entitled)>> \o (<<Hook(rest)>> \o s)
        /\ Agrees(k, b) /\ Exact("render", k, m, b) /\ Finishes(rest, m, b)
    BY <1>3, <2>2 DEF AtWork, Rest
  <2>4. k.level > 0 /\ k.ex = "none" /\ k.cs = "outside" /\ m = Label(k.level, "thrown", "outside")
    BY <2>3, ExactOriginal
  <2>5. inHook = k.level /\ sections = 0 /\ critical = refusals /\ pending = FALSE /\ entitled = FALSE
    BY <1>1, <2>3, <2>4 DEF Agrees, SectionsAgree, ExceptionsAgree, CountersTyped
  <2>6. PICK c \in Nat : c = k.level
    BY OneOfLabels
  <2>7. inHook' = c /\ (critical = refusals + Counted(c))' /\ c > 0
    BY <1>1, <2>4, <2>5, <2>6 DEF Counted, CountersTyped
  <2>8. CountersTyped'
    BY <1>1, <1>3 DEF CountersTyped
  <2>9. (pending = entitled)'
    BY <1>1, <1>3, <2>5
  <2>10. Finishes(rest, Label(c, "thrown", "outside"), b) /\ stack' = <<App(TRUE, FALSE)>> \o (<<Hook(rest)>> \o s)
    BY <2>3, <2>4, <2>5, <2>6
  <2> QED
    BY <2>3, <2>7, <2>8, <2>9, <2>10, AppRuns
<1> QED
  BY <1>2, <1>3 DEF RunApp

\* Steps that change nothing keep it.
LEMMA ScopeStuttering ==
  ASSUME ScopeInv, UNCHANGED scopeVars
  PROVE  ScopeInv'
<1>1. UNCHANGED <<inHook, critical, pending, sections, entitled, refusals, stack>>
  BY DEF scopeVars
<1>2. ScopeTypes'
  BY <1>1 DEF ScopeInv, ScopeTypes
<1>3. PICK fr, base : Fits(stack, fr, base) /\ TopOk(Head(stack), base[Len(stack)])
  BY DEF ScopeInv
<1>4. Fits(stack, fr, base)' /\ TopOk(Head(stack), base[Len(stack)])'
  BY <1>1, <1>3 DEF TopOk, Agrees, ExceptionsAgree, SectionsAgree, Counted
<1> QED
  BY <1>2, <1>4 DEF ScopeInv

\* The hook scopes keep their invariant at any depth of nesting and with any number of
\* open sections: every hook on the stack can finish from where it stands, with level,
\* exceptions and sections as its caller left them (set_reentrant_call, set_jni_critical).
THEOREM ScopeInvariant == ScopeSpec => []ScopeInv
<1>1. ScopeInit => ScopeInv
  BY ScopeInitial
<1>2. ScopeInv /\ [ScopeNext]_scopeVars => ScopeInv'
  <2> SUFFICES ASSUME ScopeInv, [ScopeNext]_scopeVars PROVE ScopeInv'
    OBVIOUS
  <2>1. CASE AppCalls
    BY <2>1, AppCallsStep
  <2>2. CASE AppReturns
    BY <2>2, AppReturnsStep
  <2>3. CASE Expand
    BY <2>3, ExpandStep
  <2>4. CASE SetReentrant
    BY <2>4, SetReentrantStep
  <2>5. CASE SetCritical
    BY <2>5, SetCriticalStep
  <2>6. CASE OwnCall
    BY <2>6, OwnCallStep
  <2>7. CASE Original
    BY <2>7, OriginalStep
  <2>8. CASE RunApp
    BY <2>8, RunAppStep
  <2>9. CASE HookReturns
    BY <2>9, HookReturnsStep
  <2>10. CASE UNCHANGED scopeVars
    BY <2>10, ScopeStuttering
  <2> QED
    BY <2>1, <2>2, <2>3, <2>4, <2>5, <2>6, <2>7, <2>8, <2>9, <2>10 DEF ScopeNext
<1> QED
  BY <1>1, <1>2, PTL DEF ScopeSpec

\* What the invariant says of running app code.
LEMMA AppOnTop ==
  ASSUME ScopeInv, Top.kind = "app"
  PROVE  /\ pending = entitled
         /\ inHook = 0 => critical = sections + refusals
         /\ inHook > 0 <=> \E i \in DOMAIN stack : stack[i].kind = "app" /\ stack[i].rendered
<1>1. PICK fr, base : Fits(stack, fr, base) /\ TopOk(Head(stack), base[Len(stack)])
  BY DEF ScopeInv
<1>2. ScopeTypes /\ stack \in Seq(Frames) /\ stack # <<>>
  BY DEF ScopeInv, ScopeTypes
<1>3. PICK n \in Nat : n = Len(stack) /\ n > 0
  BY <1>2
<1>4. fr[n] = Head(stack)
  BY <1>1, <1>2, <1>3, FitsTop
<1>5. inHook = base[n] /\ pending = entitled /\ critical = refusals + Counted(base[n])
  BY <1>1, <1>3 DEF TopOk, Top
<1>6. inHook = 0 => critical = sections + refusals
  BY <1>2, <1>5 DEF Counted, ScopeTypes
<1>7. base[n] > 0 <=> RenderedIn(n, fr)
  BY <1>1, <1>2, <1>3, <1>4, LevelOfApp DEF Top
<1>8. RenderedIn(n, fr) <=> \E i \in 1 .. n : stack[i].kind = "app" /\ stack[i].rendered
  <2>1. \A d \in 1 .. n : fr[d] = stack[n + 1 - d]
    BY <1>1, <1>3 DEF Fits
  <2>2. \A d \in 1 .. n : n + 1 - d \in 1 .. n /\ n + 1 - (n + 1 - d) = d
    OBVIOUS
  <2>3. \A i \in 1 .. n : stack[i] = fr[n + 1 - i]
    BY <2>1, <2>2
  <2>4. ASSUME RenderedIn(n, fr) PROVE \E i \in 1 .. n : stack[i].kind = "app" /\ stack[i].rendered
    BY <2>1, <2>2, <2>4 DEF RenderedIn
  <2>5. ASSUME NEW i \in 1 .. n, stack[i].kind = "app", stack[i].rendered PROVE RenderedIn(n, fr)
    BY <2>2, <2>3, <2>5 DEF RenderedIn
  <2> QED
    BY <2>4, <2>5
<1>9. DOMAIN stack = 1 .. n
  BY <1>2, <1>3
<1> QED
  BY <1>5, <1>6, <1>7, <1>8, <1>9

\* At any depth, app code is heard exactly if neither it nor app code around it is being
\* rendered: the counter is back at zero after every hook and helper, on every path.
THEOREM RenderedCodeIsSilent == ScopeSpec => []RenderingIsSilent
<1>1. ScopeInv => RenderingIsSilent
  BY AppOnTop DEF RenderingIsSilent
<1> QED
  BY <1>1, ScopeInvariant, PTL

\* The app sees the exceptions that it would see without the logger, whatever the hooks it
\* calls clear, throw again or meet while rendering.
THEOREM ExceptionsAreKept == ScopeSpec => []ExceptionsKept
<1>1. ScopeInv => ExceptionsKept
  BY AppOnTop DEF ExceptionsKept
<1> QED
  BY <1>1, ScopeInvariant, PTL

\* g_jni_critical is the number of sections the app is in, and of those the JVM refused,
\* whenever called app code runs, however they nest.
THEOREM SectionsAreCounted == ScopeSpec => []SectionsCounted
<1>1. ScopeInv => SectionsCounted
  BY AppOnTop DEF SectionsCounted
<1> QED
  BY <1>1, ScopeInvariant, PTL

\* Rendering, and the Throw of an exception taken to be logged, call into the JVM only with
\* no critical section open and no exception pending; NewGlobalRef, DeleteLocalRef and
\* ExceptionClear only with no section open, NewGlobalRef with no exception pending but the
\* app's own: from every hook and helper, at any depth.
THEOREM OwnCallsAreAllowed == ScopeSpec => []CallsWhenAllowed
<1>1. ASSUME ScopeInv, NEW op, Reached(op)
      PROVE  \E b, k, m : k \in Labels /\ m \in Labels /\ Agrees(k, b) /\ Exact(op, k, m, b)
  <2>1. PICK s, fr, base, rest : \E b \in Nat, k \in Labels, m \in Labels : AtWork(op, s, fr, base, b, k, m, rest)
    BY <1>1, HookAtWork
  <2>2. PICK b \in Nat, k \in Labels, m \in Labels : AtWork(op, s, fr, base, b, k, m, rest)
    BY <2>1
  <2> QED
    BY <2>2 DEF AtWork
<1>2. ASSUME ScopeInv, NEW op \in {"jni", "fail", "render", "throw"}, Reached(op) PROVE sections = 0 /\ ~pending
  <2>1. PICK b, k, m : k \in Labels /\ m \in Labels /\ Agrees(k, b) /\ Exact(op, k, m, b)
    BY <1>1, <1>2
  <2>2. k.ex \in {"none", "taken"} /\ k.cs = "outside"
    BY <2>1, ExactIs, ExactOriginal
  <2> QED
    BY <2>1, <2>2 DEF Agrees, ExceptionsAgree, SectionsAgree
<1>3. ASSUME ScopeInv, NEW op \in {"mint", "delete", "clear"}, Reached(op) PROVE sections = 0
  <2>1. PICK b, k, m : k \in Labels /\ m \in Labels /\ Agrees(k, b) /\ Exact(op, k, m, b)
    BY <1>1, <1>3
  <2>2. k.cs = "outside"
    BY <2>1, ExactIs
  <2> QED
    BY <2>1, <2>2 DEF Agrees, SectionsAgree
<1>4. ASSUME ScopeInv, Reached("mint"), pending PROVE entitled
  <2>1. PICK b, k, m : k \in Labels /\ m \in Labels /\ Agrees(k, b) /\ Exact("mint", k, m, b)
    BY <1>1, <1>4
  <2>2. k.ex \in {"eq", "none", "own", "taken"}
    BY <2>1, ExactIs
  <2> QED
    BY <1>4, <2>1, <2>2 DEF Agrees, ExceptionsAgree
<1>5. ScopeInv => CallsWhenAllowed
  BY <1>2, <1>3, <1>4 DEF CallsWhenAllowed
<1> QED
  BY <1>5, ScopeInvariant, PTL
=============================================================================
