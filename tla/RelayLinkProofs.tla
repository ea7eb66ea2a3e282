--------------------------- MODULE RelayLinkProofs ---------------------------
(***************************************************************************)
(* Proofs about the input of a terminal that is handed from one runtime to *)
(* the next: it is acted on once and in order.                             *)
(***************************************************************************)
EXTENDS RelayLink, SequenceTheorems, TLAPS

-----------------------------------------------------------------------------
(* Where a unit can be, and the inductive invariant.                       *)

\* What the application has not acted on, and what a connection still carries.
Ahead == tui.decoder \o link.input
Stream(t) == (IF serving[t].frame = <<>> THEN <<>> ELSE <<serving[t].frame>>) \o wire[t]

\* A frame carries consecutive units of its terminal.
FirstOf(f) == f[1][2]
FinalOf(f) == f[Len(f)][2]
IsRun(t, f) == f # <<>> /\ \A i \in DOMAIN f : f[i] = <<t, FirstOf(f) + (i - 1)>>
From(t, f, n) == \A i \in DOMAIN f : f[i] = <<t, n + i>>
Mine(t, s) == {i \in DOMAIN s : s[i][1] = t}

\* The units of a terminal in order: those acted on, then those ahead.
Ordered(t, a, s) ==
  /\ \A i, j \in DOMAIN a : i < j => a[i] < a[j]
  /\ \A i, j \in Mine(t, s) : i < j => s[i][2] < s[j][2]
  /\ \A i \in DOMAIN a, j \in Mine(t, s) : a[i] < s[j][2]
Below(t, a, s, n) == (\A i \in DOMAIN a : a[i] < n) /\ \A i \in Mine(t, s) : s[i][2] < n

\* The frames of a connection, none past unit n, follow each other.
Chain(t, v, n) ==
  /\ \A k \in DOMAIN v : IsRun(t, v[k]) /\ FinalOf(v[k]) <= n
  /\ \A k \in DOMAIN v : k > 1 => FirstOf(v[k]) = FinalOf(v[k - 1]) + 1
NextIn(v, n) == IF v = <<>> THEN n + 1 ELSE FirstOf(v[1])
EndsAt(v, n) == v # <<>> => FinalOf(v[Len(v)]) = n

\* The unit before the first that this connection sends, and the count of what
\* arrived after it.
Begin(q) == q.typed - (IF q.pc \in {"idle", "connected"} THEN Len(q.replay) ELSE q.base + Len(q.sent))
Counted(t, a, s, b, r) ==
  /\ \A i \in DOMAIN a : a[i] <= b \/ a[i] + Len(s) <= b + r
  /\ \A i \in Mine(t, s) : s[i][2] + (Len(s) - i) <= b + r
Pending(q) == q.pc \in {"connected", "up", "failed"} /\ q.close.handoff
Solo(t) == ~relay[t].overrun /\ \A u \in Terms \ {t} : NeverAttached(u)

\* What a relay sent and what it will replay end with the unit typed last; a
\* relay that has only connected has sent nothing.
SentOf(t, q) ==
  /\ From(t, q.sent, q.typed - Len(q.sent)) /\ q.base + Len(q.sent) <= q.typed
  /\ From(t, q.replay, q.typed - Len(q.replay)) /\ Len(q.replay) <= q.typed
  /\ q.pc \in {"up", "failed"} => q.replay = <<>>
  /\ q.pc = "connected" => q.sent = <<>> /\ q.base = 0

\* Who has a thread or the link is connected, or its connection was cut.
AttachedOf(q, c, on, at) ==
  /\ on \/ at => c \/ q.pc \notin {"idle", "gone"}
  /\ q.pc = "idle" => ~on
  /\ at /\ c => q.pc = "gone"
  /\ q.pc = "failed" => c

\* Before the replay is sent nothing of the terminal is on its way.
FreshOf(t, a, s, v, q) ==
  /\ q.pc \in {"idle", "connected"} => Mine(t, s) = {} /\ \A i \in DOMAIN a : a[i] <= Begin(q)
  /\ q.pc = "connected" => v = <<>>

\* Acted on, ahead and carried are in order and contain nothing twice.
OrderOf(t, a, s, v, q, c, on) ==
  /\ Ordered(t, a, s) /\ Below(t, a, s, q.typed + 1)
  /\ on => Chain(t, v, q.typed) /\ Below(t, a, s, NextIn(v, q.typed))
  /\ on /\ q.pc = "up" /\ ~c => EndsAt(v, q.typed)

\* The link's count covers everything of this connection that arrived.
CountOf(t, a, s, v, q, on, at, r) ==
  /\ at /\ q.pc \in {"connected", "up"} => Counted(t, a, s, Begin(q), r)
  /\ at /\ q.pc = "up" /\ on => NextIn(v, q.typed) <= Begin(q) + r + 1

\* A relay told of a handoff was told no less than what was acted on.
PendingOf(a, q, closed) ==
  Pending(q) => closed /\ \A i \in DOMAIN a : a[i] <= Begin(q) + q.close.consumed

\* With one terminal and no overrun nothing is missing between acted on, ahead
\* and carried, and the count reported is exact.
AloneOf(t, a, s, v, q, c, p, x, r) ==
  /\ \A i \in DOMAIN a : a[i] = i
  /\ From(t, s, Len(a))
  /\ p # "off" /\ (v # <<>> \/ (q.pc = "up" /\ ~c)) => NextIn(v, q.typed) = Len(a) + Len(s) + 1
  /\ q.pc \in {"idle", "connected"} => Len(a) = Begin(q)
  /\ x = t /\ q.pc \in {"connected", "up"} => Begin(q) <= Len(a) /\ Len(a) + Len(s) = Begin(q) + r
  /\ Pending(q) => Len(a) = Begin(q) + q.close.consumed

\* At most one relay waits for the next runtime, a thread holds a frame exactly
\* while it delivers it, and the application counted its decoder when it left
\* the loop.
OnePending == \A t, u \in Terms : Pending(relay[t]) /\ Pending(relay[u]) => t = u
Holding == \A t \in Terms : serving[t].pc = "holding" <=> serving[t].frame # <<>>
TuiInv ==
  /\ tui.pc = "waiting" => tui.decoder = <<>>
  /\ tui.pc = "settling" => tui.unconsumed = IF tui.handoff THEN Len(tui.decoder) ELSE 0

-----------------------------------------------------------------------------
(* Sequences, and the invariant of one terminal under one change.           *)

\* The types of the parts of the state.
LinkType == [term : Terms \cup {Nobody}, input : Seq(Unit), received : Nat, gen : Nat, closed : BOOLEAN]
ThreadType == [pc : {"off", "welcomed", "reading", "holding"}, gen : Nat, frame : Seq(Unit)]
CloseType == [consumed : Nat, handoff : BOOLEAN]
TermType == [pc : {"idle", "connected", "up", "failed", "gone"}, typed : 0..MaxTyped,
             sent : Seq(Unit), base : Nat, replay : Seq(Unit), close : CloseType, overrun : BOOLEAN]
TuiType == [pc : {"starting", "loop", "waiting", "settling", "closed"}, gen : Nat, decoder : Seq(Unit),
            unconsumed : Nat, quitting : BOOLEAN, handoff : BOOLEAN]
LinkTypes ==
  /\ link \in LinkType /\ serving \in [Terms -> ThreadType]
  /\ wire \in [Terms -> Seq(Seq(Unit))] /\ cut \in [Terms -> BOOLEAN]
  /\ relay \in [Terms -> TermType] /\ tui \in TuiType /\ acted \in [Terms -> Seq(1..MaxTyped)]

\* Units that follow on, appended, still follow on.
LEMMA FromConcat ==
  ASSUME NEW S, NEW s \in Seq(S), NEW u \in Seq(S), NEW t, NEW m \in Int,
         NEW k \in Nat, k = Len(s), From(t, s, m), From(t, u, m + k)
  PROVE  From(t, s \o u, m)
<1>1. PICK l \in Nat : l = Len(u)
  BY LenProperties
<1>2. Len(s \o u) = k + l /\ s \o u \in Seq(S)
  BY <1>1
<1>3. \A i \in 1..k : (s \o u)[i] = s[i]
  BY <1>1
<1>4. \A i \in 1..l : (s \o u)[k + i] = u[i]
  BY <1>1
<1>5. \A i \in 1..k : s[i] = <<t, m + i>>
  BY DEF From
<1>6. \A i \in 1..l : u[i] = <<t, (m + k) + i>>
  BY <1>1 DEF From
<1>7. PICK c : c = s \o u
  OBVIOUS
<1>8. \A i \in 1..(k + l) : c[i] = <<t, m + i>>
  <2> SUFFICES ASSUME NEW i \in 1..(k + l)
               PROVE  c[i] = <<t, m + i>>
    OBVIOUS
  <2>1. CASE i <= k
    <3>1. i \in 1..k
      BY <2>1
    <3> QED BY <1>3, <1>5, <1>7, <3>1
  <2>2. CASE i > k
    <3>1. PICK j \in 1..l : i = k + j
      <4>1. i - k \in 1..l /\ i = k + (i - k)
        BY <2>2
      <4> QED BY <4>1
    <3>2. (m + k) + j = m + i
      BY <3>1
    <3>3. c[i] = u[j]
      BY <1>4, <1>7, <3>1
    <3> QED BY <1>6, <3>2, <3>3
  <2> QED BY <2>1, <2>2
<1>9. DOMAIN c = 1..(k + l)
  BY <1>2, <1>7
<1> QED BY <1>7, <1>8, <1>9 DEF From

\* The elements of a suffix.
LEMMA Suffix ==
  ASSUME NEW S, NEW s \in Seq(S), NEW k \in Nat, k = Len(s), NEW o \in 0..k
  PROVE  /\ SubSeq(s, o + 1, k) \in Seq(S) /\ Len(SubSeq(s, o + 1, k)) = k - o
         /\ \A i \in 1..(k - o) : SubSeq(s, o + 1, k)[i] = s[o + i]
<1>1. \A i \in (o + 1)..k : s[i] \in S
  OBVIOUS
<1>2. o + 1 \in Int /\ k \in Int
  OBVIOUS
<1>3. PICK p : p = o + 1
  OBVIOUS
<1>4. p \in 1..(k + 1) /\ \A i \in 1..(k - o) : (p + i) - 1 = o + i
  BY <1>3
<1>5. /\ SubSeq(s, p, k) \in Seq(S)
      /\ Len(SubSeq(s, p, k)) = (k - p) + 1
      /\ \A i \in 1..((k - p) + 1) : SubSeq(s, p, k)[i] = s[(p + i) - 1]
  BY <1>4, SubSeqProperties
<1>6. (k - p) + 1 = k - o
  BY <1>3
<1> QED BY <1>3, <1>4, <1>5, <1>6

\* A suffix of consecutive units is consecutive.
LEMMA FromSuffix ==
  ASSUME NEW S, NEW s \in Seq(S), NEW t, NEW m \in Int, NEW k \in Nat, k = Len(s), NEW o \in 0..k, From(t, s, m)
  PROVE  From(t, SubSeq(s, o + 1, k), m + o)
<1>1. PICK r : r = SubSeq(s, o + 1, k)
  OBVIOUS
<1>2. DOMAIN r = 1..(k - o) /\ \A i \in 1..(k - o) : r[i] = s[o + i]
  BY <1>1, Suffix
<1>3. \A i \in 1..k : s[i] = <<t, m + i>>
  BY DEF From
<1>4. \A i \in 1..(k - o) : o + i \in 1..k /\ m + (o + i) = (m + o) + i
  OBVIOUS
<1>5. \A i \in 1..(k - o) : r[i] = <<t, (m + o) + i>>
  BY <1>2, <1>3, <1>4
<1> QED BY <1>1, <1>2, <1>5 DEF From

\* `record` keeps a suffix of what was sent, and counts what it dropped.
LEMMA RecordFields ==
  ASSUME NEW q \in TermType, NEW units \in Seq(Unit), NEW t, NEW m \in Int,
         NEW k \in Nat, k = Len(q.sent), NEW l \in Nat, l = Len(units)
  PROVE  /\ Record(q, units) \in TermType
         /\ Record(q, units).pc = q.pc /\ Record(q, units).typed = q.typed
         /\ Record(q, units).replay = q.replay /\ Record(q, units).close = q.close
         /\ Record(q, units).overrun = q.overrun
         /\ \E o \in 0..(k + l) :
              /\ Len(Record(q, units).sent) = (k + l) - o
              /\ Record(q, units).base = q.base + o
              /\ From(t, q.sent, m) /\ From(t, units, m + k) => From(t, Record(q, units).sent, m + o)
<1>1. PICK all : all = q.sent \o units
  OBVIOUS
<1>2. q.sent \in Seq(Unit) /\ q.base \in Nat /\ InputWindow \in Nat
  BY RelayAssumption DEF TermType
<1>3. all \in Seq(Unit) /\ Len(all) = k + l
  BY <1>1, <1>2
<1>4. PICK over : over = IF k + l > InputWindow THEN (k + l) - InputWindow ELSE 0
  OBVIOUS
<1>5. over \in 0..(k + l)
  BY <1>2, <1>4
<1>6. PICK left, b : left = SubSeq(all, over + 1, k + l) /\ b = q.base + over
  OBVIOUS
<1>7. left \in Seq(Unit) /\ Len(left) = (k + l) - over
  BY <1>3, <1>5, <1>6, Suffix
<1>8. b \in Nat
  BY <1>2, <1>5, <1>6
<1>9. Record(q, units) = [q EXCEPT !.sent = left, !.base = b]
  BY <1>1, <1>3, <1>4, <1>6 DEF Record, TermType
<1>10. PICK r : r = Record(q, units)
  OBVIOUS
<1>11. r \in TermType /\ r.pc = q.pc /\ r.typed = q.typed /\ r.sent = left /\ r.base = b
       /\ r.replay = q.replay /\ r.close = q.close /\ r.overrun = q.overrun
  BY <1>7, <1>8, <1>9, <1>10 DEF TermType
<1>12. ASSUME From(t, q.sent, m), From(t, units, m + k)
       PROVE  From(t, left, m + over)
  <2>1. From(t, all, m)
    BY <1>1, <1>2, <1>12, FromConcat
  <2> QED BY <1>3, <1>5, <1>6, <2>1, FromSuffix
<1>13. Len(r.sent) = (k + l) - over /\ r.base = q.base + over
       /\ (From(t, q.sent, m) /\ From(t, units, m + k) => From(t, r.sent, m + over))
  BY <1>6, <1>7, <1>11, <1>12
<1> QED BY <1>5, <1>10, <1>11, <1>13

\* Units recorded after those sent: what the window keeps ends with them.
Recorded(t, q, units, m) ==
  \E o \in 0..(Len(q.sent) + Len(units)) :
    /\ Len(Record(q, units).sent) = (Len(q.sent) + Len(units)) - o
    /\ Record(q, units).base = q.base + o
    /\ From(t, Record(q, units).sent, m + o)

\* The window holds the last consecutive units.
LEMMA RecordedAs ==
  ASSUME NEW q \in TermType, NEW units \in Seq(Unit), NEW t, NEW m \in Int,
         From(t, q.sent, m), From(t, units, m + Len(q.sent))
  PROVE  Recorded(t, q, units, m)
<1>1. PICK k \in Nat, l \in Nat : k = Len(q.sent) /\ l = Len(units)
  <2>1. q.sent \in Seq(Unit)
    BY DEF TermType
  <2> QED BY <2>1, LenProperties
<1>2. PICK o \in 0..(k + l) :
              /\ Len(Record(q, units).sent) = (k + l) - o
              /\ Record(q, units).base = q.base + o
              /\ From(t, q.sent, m) /\ From(t, units, m + k) => From(t, Record(q, units).sent, m + o)
  BY <1>1, RecordFields
<1> QED BY <1>1, <1>2 DEF Recorded

\* The elements of a sequence after Append.
LEMMA AppendType ==
  ASSUME NEW S, NEW s \in Seq(S), NEW e \in S, NEW k \in Nat, k = Len(s)
  PROVE  /\ Append(s, e) \in Seq(S) /\ Len(Append(s, e)) = k + 1
         /\ Append(s, e)[k + 1] = e /\ \A i \in 1..k : Append(s, e)[i] = s[i]
  BY AppendProperties

\* The initial values have their types.
LEMMA NewTypes ==
  /\ NewLink \in LinkType /\ NewTui \in TuiType /\ NoThread \in ThreadType /\ NoClose \in CloseType
  /\ <<>> \in Seq(Unit) /\ <<>> \in Seq(Seq(Unit)) /\ <<>> \in Seq(1..MaxTyped)
<1>1. <<>> \in Seq(Unit) /\ <<>> \in Seq(Seq(Unit)) /\ <<>> \in Seq(1..MaxTyped)
  OBVIOUS
<1> QED BY <1>1 DEF NewLink, NewTui, NoThread, NoClose, LinkType, TuiType, ThreadType, CloseType

\* One terminal's entry is replaced.
LEMMA Put ==
  ASSUME NEW S, NEW f \in [Terms -> S], NEW t \in Terms, NEW v \in S, NEW g, g = [f EXCEPT ![t] = v]
  PROVE  g \in [Terms -> S] /\ g[t] = v /\ \A u \in Terms \ {t} : g[u] = f[u]
  OBVIOUS

\* The fields of a relay have their types.
LEMMA TermFields ==
  ASSUME NEW q \in TermType
  PROVE  /\ q.pc \in {"idle", "connected", "up", "failed", "gone"} /\ q.typed \in 0..MaxTyped /\ q.typed \in Nat
         /\ q.sent \in Seq(Unit) /\ q.base \in Nat /\ q.replay \in Seq(Unit) /\ q.close \in CloseType
         /\ q.close.consumed \in Nat /\ q.close.handoff \in BOOLEAN /\ q.overrun \in BOOLEAN
<1>1. q.typed \in 0..MaxTyped /\ q.close \in CloseType
  BY DEF TermType
<1>2. MaxTyped \in Nat
  BY RelayAssumption
<1> QED BY <1>1, <1>2 DEF TermType, CloseType

\* A unit is a terminal and a number.
LEMMA UnitFields ==
  ASSUME NEW s \in Seq(Unit), NEW i \in DOMAIN s
  PROVE  s[i] \in Unit /\ s[i][2] \in Nat /\ s[i][2] >= 1 /\ s[i][2] <= MaxTyped /\ s[i] = <<s[i][1], s[i][2]>>
<1>1. s[i] \in Unit
  OBVIOUS
<1>2. MaxTyped \in Nat
  BY RelayAssumption
<1> QED BY <1>1, <1>2 DEF Unit

\* An index of a concatenation is in one part or the other.
LEMMA SplitIndex ==
  ASSUME NEW k \in Nat, NEW l \in Nat, NEW i \in 1..(k + l)
  PROVE  i \in 1..k \/ \E j \in 1..l : i = k + j
<1>1. i \in 1..k \/ (i - k \in 1..l /\ i = k + (i - k))
  OBVIOUS
<1> QED BY <1>1

\* The elements of a concatenation.
LEMMA Concat ==
  ASSUME NEW s \in Seq(Unit), NEW f \in Seq(Unit), NEW k \in Nat, k = Len(s), NEW l \in Nat, l = Len(f),
         NEW c, c = s \o f
  PROVE  /\ c \in Seq(Unit) /\ Len(c) = k + l /\ DOMAIN c = 1..(k + l)
         /\ \A i \in 1..k : c[i] = s[i]
         /\ \A i \in 1..l : c[k + i] = f[i]
<1>3. c \in Seq(Unit) /\ Len(c) = k + l
  OBVIOUS
<1>4. \A i \in 1..k : c[i] = s[i]
  OBVIOUS
<1>5. \A i \in 1..l : c[k + i] = f[i]
  OBVIOUS
<1> QED BY <1>3, <1>4, <1>5

\* The elements of a tail.
LEMMA TailIndex ==
  ASSUME NEW S, NEW s \in Seq(S), s # <<>>, NEW k \in Nat, k = Len(s)
  PROVE  /\ k >= 1 /\ Tail(s) \in Seq(S) /\ Len(Tail(s)) = k - 1
         /\ Head(s) = s[1] /\ \A i \in 1..(k - 1) : Tail(s)[i] = s[i + 1]
<1>1. k >= 1
  BY EmptySeq
<1> QED BY <1>1, HeadTailProperties

\* A prefix of what is ahead.
Before(p, s) == Len(p) <= Len(s) /\ \A i \in 1..Len(p) : p[i] = s[i]

\* Losing the end of what is ahead loses no order.
LEMMA PrefixKeeps ==
  ASSUME NEW t, NEW a \in Seq(Nat), NEW s \in Seq(Unit), NEW p \in Seq(Unit), Before(p, s)
  PROVE  /\ Mine(t, s) = {} => Mine(t, p) = {}
         /\ Ordered(t, a, s) => Ordered(t, a, p)
         /\ \A n : Below(t, a, s, n) => Below(t, a, p, n)
         /\ \A n : From(t, s, n) => From(t, p, n)
<1>1. PICK k \in Nat, l \in Nat : k = Len(s) /\ l = Len(p)
  BY LenProperties
<1>2. l <= k /\ \A i \in 1..l : p[i] = s[i]
  BY <1>1 DEF Before
<1>3. DOMAIN s = 1..k /\ DOMAIN p = 1..l
  BY <1>1
<1>4. \A i \in 1..l : i \in 1..k
  BY <1>2
<1>5. \A i \in Mine(t, p) : i \in Mine(t, s) /\ p[i] = s[i] /\ i \in 1..l
  BY <1>2, <1>3, <1>4 DEF Mine
<1>6. Mine(t, s) = {} => Mine(t, p) = {}
  BY <1>5
<1>7. Ordered(t, a, s) => Ordered(t, a, p)
  BY <1>5 DEF Ordered
<1>8. \A n : Below(t, a, s, n) => Below(t, a, p, n)
  BY <1>5 DEF Below
<1>9. \A n : From(t, s, n) => From(t, p, n)
  BY <1>2, <1>3, <1>4 DEF From
<1> QED BY <1>6, <1>7, <1>8, <1>9

\* Acting on a unit moves it from what is ahead to what was acted on.
LEMMA ActOwn ==
  ASSUME NEW t, NEW a \in Seq(Nat), NEW s \in Seq(Unit), s # <<>>, NEW n \in Nat, s[1] = <<t, n>>
  PROVE  /\ Ordered(t, a, s) => Ordered(t, Append(a, n), Tail(s))
         /\ \A m : Ordered(t, a, s) /\ Below(t, a, s, m) => Below(t, Append(a, n), Tail(s), m)
         /\ \A b, r \in Int : Counted(t, a, s, b, r) => Counted(t, Append(a, n), Tail(s), b, r)
<1>1. PICK k \in Nat, l \in Nat : k = Len(s) /\ l = Len(a)
  BY LenProperties
<1>0. PICK d, e : d = Tail(s) /\ e = Append(a, n)
  OBVIOUS
<1>2. k >= 1 /\ d \in Seq(Unit) /\ Len(d) = k - 1 /\ \A i \in 1..(k - 1) : d[i] = s[i + 1]
  BY <1>0, <1>1, TailIndex
<1>3. e \in Seq(Nat) /\ Len(e) = l + 1 /\ e[l + 1] = n /\ \A i \in 1..l : e[i] = a[i]
  BY <1>0, <1>1, AppendType
<1>4. DOMAIN s = 1..k /\ DOMAIN a = 1..l /\ DOMAIN d = 1..(k - 1) /\ DOMAIN e = 1..(l + 1)
  BY <1>0, <1>1, <1>2, <1>3
<1>5. 1 \in Mine(t, s) /\ s[1][2] = n
  BY <1>2, <1>4 DEF Mine
<1>6. \A i \in Mine(t, d) : i \in 1..(k - 1) /\ i + 1 \in Mine(t, s) /\ d[i] = s[i + 1] /\ d[i][2] = s[i + 1][2]
  BY <1>2, <1>4 DEF Mine
<1>7. \A i \in 1..(l + 1) : (i = l + 1 /\ e[i] = n) \/ (i \in 1..l /\ e[i] = a[i])
  BY <1>3
<1>8. \A i \in 1..l : a[i] \in Nat
  BY <1>0, <1>1, ElementOfSeq
<1>9. \A i \in Mine(t, s) : i \in 1..k /\ s[i][2] \in Nat
  BY <1>4, UnitFields DEF Mine
<1>10. ASSUME Ordered(t, a, s)
       PROVE  Ordered(t, e, d)
  <2>1. \A i, j \in 1..(l + 1) : i < j => e[i] < e[j]
    <3>1. \A i, j \in 1..l : i < j => a[i] < a[j]
      BY <1>4, <1>10 DEF Ordered
    <3>2. \A i \in 1..l : a[i] < n
      BY <1>4, <1>5, <1>10 DEF Ordered
    <3> QED BY <1>7, <3>1, <3>2
  <2>2. \A i, j \in Mine(t, d) : i < j => d[i][2] < d[j][2]
    BY <1>6, <1>10 DEF Ordered
  <2>3. \A j \in Mine(t, d) : n < d[j][2]
    BY <1>5, <1>6, <1>10 DEF Ordered
  <2>4. \A i \in 1..l, j \in Mine(t, d) : a[i] < d[j][2]
    BY <1>4, <1>6, <1>10 DEF Ordered
  <2>5. \A i \in 1..(l + 1), j \in Mine(t, d) : e[i] < d[j][2]
    BY <1>7, <2>3, <2>4
  <2> QED BY <1>4, <2>1, <2>2, <2>5 DEF Ordered
<1>11. ASSUME NEW m, Below(t, a, s, m)
       PROVE  Below(t, e, d, m)
  BY <1>4, <1>5, <1>6, <1>7, <1>11 DEF Below
<1>12. ASSUME NEW b \in Int, NEW r \in Int, Counted(t, a, s, b, r)
       PROVE  Counted(t, e, d, b, r)
  <2>1. \A i \in 1..l : a[i] <= b \/ a[i] + k <= b + r
    BY <1>0, <1>1, <1>4, <1>12 DEF Counted
  <2>2. \A i \in Mine(t, s) : s[i][2] + (k - i) <= b + r
    BY <1>0, <1>1, <1>12 DEF Counted
  <2>3. n + (k - 1) <= b + r
    BY <1>5, <2>2
  <2>4. \A i \in 1..(l + 1) : e[i] <= b \/ e[i] + (k - 1) <= b + r
    <3>1. \A i \in 1..l : a[i] <= b \/ a[i] + (k - 1) <= b + r
      BY <1>8, <2>1
    <3> QED BY <1>7, <2>3, <3>1
  <2>5. \A i \in Mine(t, d) : d[i][2] + ((k - 1) - i) <= b + r
    <3> SUFFICES ASSUME NEW i \in Mine(t, d)
                 PROVE  d[i][2] + ((k - 1) - i) <= b + r
      OBVIOUS
    <3>1. s[i + 1][2] + (k - (i + 1)) <= b + r /\ d[i][2] = s[i + 1][2] /\ s[i + 1][2] \in Nat /\ i \in 1..(k - 1)
      BY <1>6, <1>9, <2>2
    <3> QED BY <3>1
  <2> QED BY <1>2, <1>4, <2>4, <2>5 DEF Counted
<1> QED BY <1>0, <1>1, <1>10, <1>11, <1>12

\* Acting on another terminal's unit leaves this terminal's order.
LEMMA ActOther ==
  ASSUME NEW t, NEW a \in Seq(Nat), NEW s \in Seq(Unit), s # <<>>, s[1][1] # t
  PROVE  /\ Mine(t, s) = {} => Mine(t, Tail(s)) = {}
         /\ Ordered(t, a, s) => Ordered(t, a, Tail(s))
         /\ \A m : Below(t, a, s, m) => Below(t, a, Tail(s), m)
         /\ \A b, r \in Int : Counted(t, a, s, b, r) => Counted(t, a, Tail(s), b, r)
         /\ \A m : ~From(t, s, m)
<1>1. PICK k \in Nat, l \in Nat : k = Len(s) /\ l = Len(a)
  BY LenProperties
<1>0. PICK d : d = Tail(s)
  OBVIOUS
<1>2. k >= 1 /\ d \in Seq(Unit) /\ Len(d) = k - 1 /\ \A i \in 1..(k - 1) : d[i] = s[i + 1]
  BY <1>0, <1>1, TailIndex
<1>4. DOMAIN s = 1..k /\ DOMAIN a = 1..l /\ DOMAIN d = 1..(k - 1)
  BY <1>0, <1>1, <1>2
<1>6. \A i \in Mine(t, d) : i \in 1..(k - 1) /\ i + 1 \in Mine(t, s) /\ d[i] = s[i + 1] /\ d[i][2] = s[i + 1][2]
  BY <1>2, <1>4 DEF Mine
<1>8. \A i \in 1..l : a[i] \in Nat
  BY <1>0, <1>1, ElementOfSeq
<1>9. \A i \in Mine(t, s) : i \in 1..k /\ s[i][2] \in Nat
  BY <1>4, UnitFields DEF Mine
<1>10. Ordered(t, a, s) => Ordered(t, a, d)
  BY <1>6 DEF Ordered
<1>11. \A m : Below(t, a, s, m) => Below(t, a, d, m)
  BY <1>6 DEF Below
<1>12. ASSUME NEW b \in Int, NEW r \in Int, Counted(t, a, s, b, r)
       PROVE  Counted(t, a, d, b, r)
  <2>1. \A i \in 1..l : a[i] <= b \/ a[i] + k <= b + r
    BY <1>0, <1>1, <1>4, <1>12 DEF Counted
  <2>2. \A i \in Mine(t, s) : s[i][2] + (k - i) <= b + r
    BY <1>0, <1>1, <1>12 DEF Counted
  <2>4. \A i \in 1..l : a[i] <= b \/ a[i] + (k - 1) <= b + r
    BY <1>8, <2>1
  <2>5. \A i \in Mine(t, d) : d[i][2] + ((k - 1) - i) <= b + r
    <3> SUFFICES ASSUME NEW i \in Mine(t, d)
                 PROVE  d[i][2] + ((k - 1) - i) <= b + r
      OBVIOUS
    <3>1. s[i + 1][2] + (k - (i + 1)) <= b + r /\ d[i][2] = s[i + 1][2] /\ s[i + 1][2] \in Nat /\ i \in 1..(k - 1)
      BY <1>6, <1>9, <2>2
    <3> QED BY <3>1
  <2> QED BY <1>2, <1>4, <2>4, <2>5 DEF Counted
<1>13. \A m : ~From(t, s, m)
  <2> SUFFICES ASSUME NEW m, From(t, s, m) PROVE FALSE
    OBVIOUS
  <2>1. s[1] = <<t, m + 1>>
    BY <1>2, <1>4 DEF From
  <2> QED BY <2>1
<1>14. Mine(t, s) = {} => Mine(t, d) = {}
  BY <1>6
<1> QED BY <1>0, <1>1, <1>10, <1>11, <1>12, <1>13, <1>14

\* The units of a frame.
LEMMA RunFacts ==
  ASSUME NEW t, NEW f \in Seq(Unit), IsRun(t, f), NEW m \in Nat, m = Len(f)
  PROVE  /\ m >= 1 /\ FirstOf(f) \in Nat /\ FinalOf(f) = FirstOf(f) + (m - 1) /\ FinalOf(f) \in Nat
         /\ \A i \in 1..m : f[i][1] = t /\ f[i][2] = FirstOf(f) + (i - 1)
         /\ From(t, f, FirstOf(f) - 1)
<1>1. PICK n : n = FirstOf(f)
  OBVIOUS
<1>2. m >= 1
  BY EmptySeq DEF IsRun
<1>3. DOMAIN f = 1..m
  OBVIOUS
<1>4. n \in Nat
  <2>1. f[1][2] \in Nat
    BY <1>2, <1>3, UnitFields
  <2> QED BY <1>1, <2>1 DEF FirstOf
<1>5. \A i \in 1..m : f[i] = <<t, n + (i - 1)>>
  BY <1>1, <1>3 DEF IsRun
<1>6. \A i \in 1..m : f[i][1] = t /\ f[i][2] = n + (i - 1)
  BY <1>5
<1>7. FinalOf(f) = n + (m - 1)
  BY <1>2, <1>6 DEF FinalOf
<1>8. \A i \in 1..m : n + (i - 1) = (n - 1) + i
  BY <1>4
<1>9. From(t, f, n - 1)
  BY <1>3, <1>5, <1>8 DEF From
<1>10. n + (m - 1) \in Nat
  BY <1>2, <1>4
<1> QED BY <1>1, <1>2, <1>4, <1>6, <1>7, <1>9, <1>10

\* Consecutive units make a frame.
LEMMA RunFrom ==
  ASSUME NEW t, NEW f \in Seq(Unit), f # <<>>, NEW n \in Int, From(t, f, n), NEW m \in Nat, m = Len(f)
  PROVE  IsRun(t, f) /\ FirstOf(f) = n + 1 /\ FinalOf(f) = n + m /\ m >= 1
<1>1. m >= 1
  BY EmptySeq
<1>2. \A i \in 1..m : f[i] = <<t, n + i>>
  BY DEF From
<1>3. FirstOf(f) = n + 1 /\ FinalOf(f) = n + m
  BY <1>1, <1>2 DEF FirstOf, FinalOf
<1>4. \A i \in 1..m : n + i = (n + 1) + (i - 1)
  OBVIOUS
<1>5. \A i \in 1..m : f[i] = <<t, FirstOf(f) + (i - 1)>>
  BY <1>2, <1>3, <1>4
<1>6. DOMAIN f = 1..m
  OBVIOUS
<1> QED BY <1>1, <1>3, <1>5, <1>6 DEF IsRun

\* A frame that starts past everything ahead keeps the order and the count.
LEMMA DeliverOwn ==
  ASSUME NEW t, NEW a \in Seq(Nat), NEW s \in Seq(Unit), NEW f \in Seq(Unit), IsRun(t, f),
         NEW m \in Nat, m = Len(f),
         Ordered(t, a, s), Below(t, a, s, FirstOf(f))
  PROVE  /\ Ordered(t, a, s \o f) /\ Below(t, a, s \o f, FinalOf(f) + 1)
         /\ \A b, r \in Int : Counted(t, a, s, b, r) /\ FirstOf(f) <= b + r + 1
                                => Counted(t, a, s \o f, b, r + m)
<1>1. PICK k \in Nat, l \in Nat : k = Len(s) /\ l = Len(a)
  BY LenProperties
<1>0. PICK c : c = s \o f
  OBVIOUS
<1>2. /\ c \in Seq(Unit) /\ Len(c) = k + m
      /\ \A i \in 1..k : c[i] = s[i]
      /\ \A i \in 1..m : c[k + i] = f[i]
  BY <1>0, <1>1, Concat
<1>3. DOMAIN s = 1..k /\ DOMAIN a = 1..l /\ DOMAIN c = 1..(k + m)
  BY <1>0, <1>1, <1>2
<1>4. PICK n \in Nat : n = FirstOf(f)
  BY RunFacts
<1>5. m >= 1 /\ FinalOf(f) = n + (m - 1) /\ \A i \in 1..m : f[i][1] = t /\ f[i][2] = n + (i - 1)
  BY <1>4, RunFacts
<1>6. \A i \in Mine(t, c) : \/ i \in Mine(t, s) /\ i \in 1..k /\ c[i][2] = s[i][2]
                            \/ \E j \in 1..m : i = k + j /\ c[i][2] = n + (j - 1)
  <2> SUFFICES ASSUME NEW i \in Mine(t, c)
               PROVE  \/ i \in Mine(t, s) /\ i \in 1..k /\ c[i][2] = s[i][2]
                      \/ \E j \in 1..m : i = k + j /\ c[i][2] = n + (j - 1)
    OBVIOUS
  <2>1. i \in 1..(k + m) /\ c[i][1] = t
    BY <1>3 DEF Mine
  <2>2. CASE i \in 1..k
    BY <1>2, <1>3, <2>1, <2>2 DEF Mine
  <2>3. CASE \E j \in 1..m : i = k + j
    <3>1. PICK j \in 1..m : i = k + j
      BY <2>3
    <3>2. c[i] = f[j]
      BY <1>2, <3>1
    <3>3. c[i][2] = n + (j - 1)
      BY <1>5, <3>2
    <3> QED BY <3>1, <3>3
  <2> QED BY <2>1, <2>2, <2>3, SplitIndex
<1>7. \A i \in 1..l : a[i] \in Nat /\ a[i] < n
  <2>1. \A i \in 1..l : a[i] \in Nat
    BY <1>0, <1>1, ElementOfSeq
  <2> QED BY <1>3, <1>4, <2>1 DEF Below
<1>8. \A i \in Mine(t, s) : i \in 1..k /\ s[i][2] \in Nat /\ s[i][2] < n
  <2>1. \A i \in Mine(t, s) : i \in 1..k /\ s[i][2] \in Nat
    BY <1>3, UnitFields DEF Mine
  <2> QED BY <1>4, <2>1 DEF Below
<1>9. Ordered(t, a, c)
  <2>1. \A i \in 1..l, j \in Mine(t, c) : a[i] < c[j][2]
    <3> SUFFICES ASSUME NEW i \in 1..l, NEW j \in Mine(t, c)
                 PROVE  a[i] < c[j][2]
      OBVIOUS
    <3>1. CASE j \in Mine(t, s) /\ j \in 1..k /\ c[j][2] = s[j][2]
      BY <1>3, <3>1 DEF Ordered
    <3>2. CASE \E h \in 1..m : j = k + h /\ c[j][2] = n + (h - 1)
      BY <1>7, <3>2
    <3> QED BY <1>6, <3>1, <3>2
  <2>2. \A i, j \in Mine(t, c) : i < j => c[i][2] < c[j][2]
    <3> SUFFICES ASSUME NEW i \in Mine(t, c), NEW j \in Mine(t, c), i < j
                 PROVE  c[i][2] < c[j][2]
      OBVIOUS
    <3>1. CASE \E h \in 1..m : i = k + h /\ c[i][2] = n + (h - 1)
      <4>1. PICK h \in 1..m : i = k + h /\ c[i][2] = n + (h - 1)
        BY <3>1
      <4>2. ~(j \in 1..k)
        BY <4>1
      <4>3. PICK g \in 1..m : j = k + g /\ c[j][2] = n + (g - 1)
        BY <1>6, <4>2
      <4> QED BY <4>1, <4>3
    <3>2. CASE i \in Mine(t, s) /\ i \in 1..k /\ c[i][2] = s[i][2]
      <4>1. CASE j \in Mine(t, s) /\ j \in 1..k /\ c[j][2] = s[j][2]
        BY <3>2, <4>1 DEF Ordered
      <4>2. CASE \E g \in 1..m : j = k + g /\ c[j][2] = n + (g - 1)
        BY <1>8, <3>2, <4>2
      <4> QED BY <1>6, <4>1, <4>2
    <3> QED BY <1>6, <3>1, <3>2
  <2> QED BY <1>3, <2>1, <2>2 DEF Ordered
<1>10. Below(t, a, c, FinalOf(f) + 1)
  <2>1. FinalOf(f) + 1 = n + m
    BY <1>5
  <2>2. \A i \in 1..l : a[i] < n + m
    BY <1>7
  <2>3. \A i \in Mine(t, c) : c[i][2] < n + m
    <3> SUFFICES ASSUME NEW i \in Mine(t, c)
                 PROVE  c[i][2] < n + m
      OBVIOUS
    <3>1. CASE i \in Mine(t, s) /\ i \in 1..k /\ c[i][2] = s[i][2]
      BY <1>8, <3>1
    <3>2. CASE \E j \in 1..m : i = k + j /\ c[i][2] = n + (j - 1)
      BY <3>2
    <3> QED BY <1>6, <3>1, <3>2
  <2> QED BY <1>3, <2>1, <2>2, <2>3 DEF Below
<1>11. ASSUME NEW b \in Int, NEW r \in Int, Counted(t, a, s, b, r), n <= b + r + 1
       PROVE  Counted(t, a, c, b, r + m)
  <2>1. \A i \in 1..l : a[i] <= b \/ a[i] + k <= b + r
    BY <1>0, <1>1, <1>3, <1>11 DEF Counted
  <2>2. \A i \in Mine(t, s) : s[i][2] + (k - i) <= b + r
    BY <1>0, <1>1, <1>11 DEF Counted
  <2>3. \A i \in 1..l : a[i] <= b \/ a[i] + (k + m) <= b + (r + m)
    BY <1>7, <2>1
  <2>4. \A i \in Mine(t, c) : c[i][2] + ((k + m) - i) <= b + (r + m)
    <3> SUFFICES ASSUME NEW i \in Mine(t, c)
                 PROVE  c[i][2] + ((k + m) - i) <= b + (r + m)
      OBVIOUS
    <3>1. CASE i \in Mine(t, s) /\ i \in 1..k /\ c[i][2] = s[i][2]
      BY <1>8, <2>2, <3>1
    <3>2. CASE \E j \in 1..m : i = k + j /\ c[i][2] = n + (j - 1)
      BY <1>11, <3>2
    <3> QED BY <1>6, <3>1, <3>2
  <2> QED BY <1>2, <1>3, <2>3, <2>4 DEF Counted
<1> QED BY <1>0, <1>1, <1>4, <1>9, <1>10, <1>11

\* Another terminal's frame only adds to the count.
LEMMA DeliverOther ==
  ASSUME NEW t, NEW u, u # t, NEW a \in Seq(Nat), NEW s \in Seq(Unit), NEW f \in Seq(Unit), IsRun(t, f),
         NEW m \in Nat, m = Len(f)
  PROVE  /\ Mine(u, s) = {} => Mine(u, s \o f) = {}
         /\ Ordered(u, a, s) => Ordered(u, a, s \o f)
         /\ \A n : Below(u, a, s, n) => Below(u, a, s \o f, n)
         /\ \A b, r \in Int : Counted(u, a, s, b, r) => Counted(u, a, s \o f, b, r + m)
<1>1. PICK k \in Nat, l \in Nat : k = Len(s) /\ l = Len(a)
  BY LenProperties
<1>0. PICK c : c = s \o f
  OBVIOUS
<1>2. /\ c \in Seq(Unit) /\ Len(c) = k + m
      /\ \A i \in 1..k : c[i] = s[i]
      /\ \A i \in 1..m : c[k + i] = f[i]
  BY <1>0, <1>1, Concat
<1>3. DOMAIN s = 1..k /\ DOMAIN a = 1..l /\ DOMAIN c = 1..(k + m)
  BY <1>0, <1>1, <1>2
<1>4. \A i \in 1..m : f[i][1] = t
  BY RunFacts
<1>5. \A i \in Mine(u, c) : i \in Mine(u, s) /\ i \in 1..k /\ c[i] = s[i] /\ c[i][2] = s[i][2]
  <2> SUFFICES ASSUME NEW i \in Mine(u, c)
               PROVE  i \in Mine(u, s) /\ i \in 1..k /\ c[i] = s[i] /\ c[i][2] = s[i][2]
    OBVIOUS
  <2>1. i \in 1..(k + m) /\ c[i][1] = u
    BY <1>3 DEF Mine
  <2>2. CASE i \in 1..k
    BY <1>2, <1>3, <2>1, <2>2 DEF Mine
  <2>3. CASE \E j \in 1..m : i = k + j
    <3>1. PICK j \in 1..m : i = k + j
      BY <2>3
    <3>2. c[i] = f[j]
      BY <1>2, <3>1
    <3> QED BY <1>4, <2>1, <3>2
  <2> QED BY <2>1, <2>2, <2>3, SplitIndex
<1>6. \A i \in 1..l : a[i] \in Nat
  BY <1>0, <1>1, ElementOfSeq
<1>7. \A i \in Mine(u, s) : i \in 1..k /\ s[i][2] \in Nat
  BY <1>3, UnitFields DEF Mine
<1>8. Ordered(u, a, s) => Ordered(u, a, c)
  BY <1>5 DEF Ordered
<1>9. \A n : Below(u, a, s, n) => Below(u, a, c, n)
  BY <1>5 DEF Below
<1>10. ASSUME NEW b \in Int, NEW r \in Int, Counted(u, a, s, b, r)
       PROVE  Counted(u, a, c, b, r + m)
  <2>1. \A i \in 1..l : a[i] <= b \/ a[i] + k <= b + r
    BY <1>0, <1>1, <1>3, <1>10 DEF Counted
  <2>2. \A i \in Mine(u, s) : s[i][2] + (k - i) <= b + r
    BY <1>0, <1>1, <1>10 DEF Counted
  <2>3. \A i \in 1..l : a[i] <= b \/ a[i] + (k + m) <= b + (r + m)
    BY <1>6, <2>1
  <2>4. \A i \in Mine(u, c) : c[i][2] + ((k + m) - i) <= b + (r + m)
    <3> SUFFICES ASSUME NEW i \in Mine(u, c)
                 PROVE  c[i][2] + ((k + m) - i) <= b + (r + m)
      OBVIOUS
    <3>1. i \in 1..k /\ c[i][2] = s[i][2] /\ s[i][2] \in Nat /\ s[i][2] + (k - i) <= b + r
      BY <1>5, <1>7, <2>2
    <3>2. PICK x \in Nat : x = c[i][2]
      BY <3>1
    <3>3. x + (k - i) <= b + r
      BY <3>1, <3>2
    <3> QED BY <3>1, <3>2, <3>3, SMTT(30)
  <2> QED BY <1>2, <1>3, <2>3, <2>4 DEF Counted
<1>11. Mine(u, s) = {} => Mine(u, c) = {}
  BY <1>5
<1> QED BY <1>0, <1>1, <1>8, <1>9, <1>10, <1>11

\* A bound may be raised.
LEMMA BelowMore ==
  ASSUME NEW t, NEW a \in Seq(Nat), NEW s \in Seq(Unit), NEW n \in Int, NEW m \in Int, n <= m, Below(t, a, s, n)
  PROVE  Below(t, a, s, m)
<1>1. \A i \in DOMAIN a : a[i] \in Nat
  OBVIOUS
<1>2. \A i \in Mine(t, s) : s[i][2] \in Nat
  BY UnitFields DEF Mine
<1> QED BY <1>1, <1>2 DEF Below

\* A frame of a chain.
LEMMA ChainFrame ==
  ASSUME NEW t, NEW v \in Seq(Seq(Unit)), NEW n \in Nat, Chain(t, v, n), NEW k \in DOMAIN v
  PROVE  /\ v[k] \in Seq(Unit) /\ IsRun(t, v[k]) /\ FirstOf(v[k]) \in Nat /\ FinalOf(v[k]) \in Nat
         /\ FirstOf(v[k]) <= FinalOf(v[k]) /\ FinalOf(v[k]) <= n
<1>1. v[k] \in Seq(Unit)
  OBVIOUS
<1>2. IsRun(t, v[k]) /\ FinalOf(v[k]) <= n
  BY DEF Chain
<1>3. PICK m \in Nat : m = Len(v[k])
  BY <1>1, LenProperties
<1>4. m >= 1 /\ FirstOf(v[k]) \in Nat /\ FinalOf(v[k]) = FirstOf(v[k]) + (m - 1) /\ FinalOf(v[k]) \in Nat
  BY <1>1, <1>2, <1>3, RunFacts
<1> QED BY <1>1, <1>2, <1>4

\* What follows the first frame of a chain.
LEMMA ChainTail ==
  ASSUME NEW t, NEW v \in Seq(Seq(Unit)), NEW n \in Nat, Chain(t, v, n), v # <<>>
  PROVE  /\ Chain(t, Tail(v), n)
         /\ NextIn(v, n) = FirstOf(v[1]) /\ NextIn(v, n) \in Nat
         /\ NextIn(Tail(v), n) \in Nat /\ FinalOf(v[1]) + 1 <= NextIn(Tail(v), n)
         /\ Tail(v) # <<>> \/ EndsAt(v, n) => NextIn(Tail(v), n) = FinalOf(v[1]) + 1
         /\ EndsAt(v, n) => EndsAt(Tail(v), n)
<1>1. PICK k \in Nat : k = Len(v)
  BY LenProperties
<1>0. PICK w : w = Tail(v)
  OBVIOUS
<1>2. k >= 1 /\ w \in Seq(Seq(Unit)) /\ Len(w) = k - 1 /\ \A i \in 1..(k - 1) : w[i] = v[i + 1]
  BY <1>0, <1>1, TailIndex
<1>3. DOMAIN v = 1..k /\ DOMAIN w = 1..(k - 1)
  BY <1>0, <1>1, <1>2
<1>4. 1 \in DOMAIN v
  BY <1>2, <1>3
<1>5. FirstOf(v[1]) \in Nat /\ FinalOf(v[1]) \in Nat /\ FinalOf(v[1]) <= n
  BY <1>4, ChainFrame
<1>6. Chain(t, w, n)
  <2>1. \A i \in 1..(k - 1) : i + 1 \in 1..k /\ w[i] = v[i + 1]
    BY <1>2
  <2>2. \A i \in 1..(k - 1) : IsRun(t, w[i]) /\ FinalOf(w[i]) <= n
    BY <1>3, <2>1 DEF Chain
  <2>3. \A i \in 1..(k - 1) : i > 1 => FirstOf(w[i]) = FinalOf(w[i - 1]) + 1
    <3> SUFFICES ASSUME NEW i \in 1..(k - 1), i > 1
                 PROVE  FirstOf(w[i]) = FinalOf(w[i - 1]) + 1
      OBVIOUS
    <3>1. i - 1 \in 1..(k - 1) /\ (i - 1) + 1 = i /\ i + 1 > 1 /\ (i + 1) - 1 = i
      OBVIOUS
    <3>2. w[i] = v[i + 1] /\ w[i - 1] = v[i] /\ i + 1 \in 1..k
      BY <2>1, <3>1
    <3>3. FirstOf(v[i + 1]) = FinalOf(v[i]) + 1
      BY <1>3, <3>1, <3>2 DEF Chain
    <3> QED BY <3>2, <3>3
  <2> QED BY <1>3, <2>2, <2>3 DEF Chain
<1>7. NextIn(v, n) = FirstOf(v[1])
  BY DEF NextIn
<1>8. CASE w = <<>>
  <2>1. k = 1
    BY <1>2, <1>8, EmptySeq
  <2>2. NextIn(w, n) = n + 1
    BY <1>8 DEF NextIn
  <2>3. EndsAt(v, n) => FinalOf(v[1]) = n
    BY <1>0, <1>1, <2>1 DEF EndsAt
  <2>4. EndsAt(w, n)
    BY <1>8 DEF EndsAt
  <2>5. n + 1 \in Nat /\ FinalOf(v[1]) + 1 <= n + 1
    BY <1>5
  <2>6. EndsAt(v, n) => NextIn(w, n) = FinalOf(v[1]) + 1
    BY <2>2, <2>3
  <2> QED BY <1>0, <1>1, <1>5, <1>6, <1>7, <1>8, <2>2, <2>4, <2>5, <2>6
<1>9. CASE w # <<>>
  <2>1. k - 1 >= 1
    BY <1>2, <1>9, EmptySeq
  <2>2. NextIn(w, n) = FirstOf(w[1])
    BY <1>9 DEF NextIn
  <2>3. w[1] = v[2] /\ 2 \in DOMAIN v
    BY <1>2, <1>3, <2>1
  <2>4. FirstOf(v[2]) = FinalOf(v[1]) + 1
    BY <2>3 DEF Chain
  <2>5. w[k - 1] = v[k]
    <3>1. k - 1 \in 1..(k - 1) /\ (k - 1) + 1 = k
      BY <2>1
    <3> QED BY <1>2, <3>1
  <2>6. EndsAt(v, n) => EndsAt(w, n)
    BY <1>0, <1>1, <1>2, <2>5 DEF EndsAt
  <2>7. NextIn(w, n) = FinalOf(v[1]) + 1
    BY <2>2, <2>3, <2>4
  <2>8. NextIn(w, n) \in Nat /\ FinalOf(v[1]) + 1 <= NextIn(w, n)
    BY <1>5, <2>7
  <2> QED BY <1>0, <1>1, <1>5, <1>6, <1>7, <2>6, <2>7, <2>8
<1> QED BY <1>8, <1>9

\* The next frame extends a chain.
LEMMA ChainAppend ==
  ASSUME NEW t, NEW v \in Seq(Seq(Unit)), NEW n \in Nat, Chain(t, v, n), EndsAt(v, n),
         NEW f \in Seq(Unit), IsRun(t, f), FirstOf(f) = n + 1
  PROVE  /\ Chain(t, Append(v, f), FinalOf(f)) /\ EndsAt(Append(v, f), FinalOf(f))
         /\ Append(v, f) # <<>> /\ NextIn(Append(v, f), FinalOf(f)) = NextIn(v, n)
<1>1. PICK k \in Nat, m \in Nat : k = Len(v) /\ m = Len(f)
  BY LenProperties
<1>0. PICK w : w = Append(v, f)
  OBVIOUS
<1>2. w \in Seq(Seq(Unit)) /\ Len(w) = k + 1 /\ w[k + 1] = f /\ \A i \in 1..k : w[i] = v[i]
  BY <1>0, <1>1, AppendType
<1>3. DOMAIN v = 1..k /\ DOMAIN w = 1..(k + 1)
  BY <1>0, <1>1, <1>2
<1>4. m >= 1 /\ FinalOf(f) = FirstOf(f) + (m - 1)
  BY <1>0, <1>1, RunFacts
<1>5. n <= FinalOf(f) /\ FinalOf(f) \in Nat
  BY <1>4
<1>6. \A i \in 1..k : IsRun(t, v[i]) /\ FinalOf(v[i]) \in Nat /\ FinalOf(v[i]) <= n
  BY <1>3, ChainFrame
<1>7. \A i \in 1..(k + 1) : (i \in 1..k /\ w[i] = v[i]) \/ (i = k + 1 /\ w[i] = f)
  <2>1. \A i \in 1..(k + 1) : i \in 1..k \/ i = k + 1
    OBVIOUS
  <2>2. \A i \in 1..k : w[i] = v[i]
    BY <1>2
  <2> QED BY <1>2, <2>1, <2>2
<1>8. \A i \in 1..(k + 1) : IsRun(t, w[i]) /\ FinalOf(w[i]) <= FinalOf(f)
  <2> SUFFICES ASSUME NEW i \in 1..(k + 1)
               PROVE  IsRun(t, w[i]) /\ FinalOf(w[i]) <= FinalOf(f)
    OBVIOUS
  <2>1. CASE i \in 1..k /\ w[i] = v[i]
    BY <1>5, <1>6, <2>1
  <2>2. CASE i = k + 1 /\ w[i] = f
    BY <1>5, <2>2
  <2> QED BY <1>7, <2>1, <2>2
<1>9. \A i \in 1..(k + 1) : i > 1 => FirstOf(w[i]) = FinalOf(w[i - 1]) + 1
  <2> SUFFICES ASSUME NEW i \in 1..(k + 1), i > 1
               PROVE  FirstOf(w[i]) = FinalOf(w[i - 1]) + 1
    OBVIOUS
  <2>1. i - 1 \in 1..k
    OBVIOUS
  <2>2. w[i - 1] = v[i - 1]
    BY <1>2, <2>1
  <2>3. CASE i \in 1..k /\ w[i] = v[i]
    BY <1>3, <2>2, <2>3 DEF Chain
  <2>4. CASE i = k + 1 /\ w[i] = f
    <3>1. i - 1 = k /\ k >= 1
      BY <2>1, <2>4
    <3>2. v # <<>>
      BY <1>0, <1>1, <3>1
    <3>3. FinalOf(v[k]) = n
      BY <1>0, <1>1, <3>2 DEF EndsAt
    <3> QED BY <2>2, <2>4, <3>1, <3>3
  <2> QED BY <1>7, <2>3, <2>4
<1>10. Chain(t, w, FinalOf(f))
  BY <1>3, <1>8, <1>9 DEF Chain
<1>11. EndsAt(w, FinalOf(f))
  BY <1>2 DEF EndsAt
<1>12. w # <<>>
  BY <1>2
<1>13. NextIn(w, FinalOf(f)) = FirstOf(w[1])
  BY <1>12 DEF NextIn
<1>14. NextIn(w, FinalOf(f)) = NextIn(v, n)
  <2>1. CASE v = <<>>
    <3>1. k = 0
      BY <1>0, <1>1, <2>1
    <3> QED BY <1>2, <1>13, <2>1, <3>1 DEF NextIn
  <2>2. CASE v # <<>>
    <3>1. k >= 1
      BY <1>0, <1>1, <2>2, EmptySeq
    <3>2. w[1] = v[1]
      BY <1>2, <3>1
    <3> QED BY <1>13, <2>2, <3>2 DEF NextIn
  <2> QED BY <2>1, <2>2
<1> QED BY <1>0, <1>1, <1>10, <1>11, <1>12, <1>14

\* A chain stays one when a unit is typed and not sent.
LEMMA ChainMore ==
  ASSUME NEW t, NEW v \in Seq(Seq(Unit)), NEW n \in Nat, Chain(t, v, n)
  PROVE  /\ Chain(t, v, n + 1) /\ NextIn(v, n) \in Nat /\ NextIn(v, n) <= NextIn(v, n + 1)
         /\ NextIn(v, n + 1) \in Nat
         /\ v # <<>> => NextIn(v, n + 1) = NextIn(v, n)
<1>1. \A k \in DOMAIN v : FinalOf(v[k]) \in Nat /\ FinalOf(v[k]) <= n
  BY ChainFrame
<1>2. \A k \in DOMAIN v : FinalOf(v[k]) <= n + 1
  BY <1>1
<1>3. Chain(t, v, n + 1)
  BY <1>2 DEF Chain
<1>4. CASE v = <<>>
  BY <1>3, <1>4 DEF NextIn
<1>5. CASE v # <<>>
  <2>1. 1 \in DOMAIN v
    BY <1>5, EmptySeq
  <2>2. FirstOf(v[1]) \in Nat
    BY <2>1, ChainFrame
  <2> QED BY <1>3, <1>5, <2>2 DEF NextIn
<1> QED BY <1>4, <1>5

\* The invariant of one terminal: units acted on a, ahead s, frames carried v, relay q,
\* cut c, thread p, terminal of the link x, count r, place of the application y.
Track(t, a, s, v, q, c, p, x, r, y) ==
  /\ SentOf(t, q) /\ AttachedOf(q, c, p # "off", x = t) /\ FreshOf(t, a, s, v, q)
  /\ OrderOf(t, a, s, v, q, c, p # "off") /\ CountOf(t, a, s, v, q, p # "off", x = t, r)
  /\ PendingOf(a, q, y = "closed")

\* Where a connection begins is a count of units.
LEMMA BeginFacts ==
  ASSUME NEW t, NEW q \in TermType, SentOf(t, q)
  PROVE  /\ Begin(q) \in Nat /\ Begin(q) <= q.typed /\ q.typed \in Nat
         /\ \A k \in Nat : k = Len(q.replay) /\ q.pc \in {"idle", "connected"} => Begin(q) = q.typed - k
         /\ \A k \in Nat : k = Len(q.sent) /\ q.pc \notin {"idle", "connected"} => Begin(q) = q.typed - (q.base + k)
<1>1. q.sent \in Seq(Unit) /\ q.replay \in Seq(Unit) /\ q.base \in Nat /\ q.typed \in Nat
  BY TermFields
<1>2. PICK k \in Nat, l \in Nat : k = Len(q.replay) /\ l = Len(q.sent)
  BY <1>1, LenProperties
<1>3. k <= q.typed /\ q.base + l <= q.typed
  BY <1>2 DEF SentOf
<1>4. CASE q.pc \in {"idle", "connected"}
  <2>1. Begin(q) = q.typed - k
    BY <1>2, <1>4 DEF Begin
  <2> QED BY <1>1, <1>2, <1>3, <1>4, <2>1
<1>5. CASE q.pc \notin {"idle", "connected"}
  <2>1. Begin(q) = q.typed - (q.base + l)
    BY <1>2, <1>5 DEF Begin
  <2> QED BY <1>1, <1>2, <1>3, <1>5, <2>1
<1> QED BY <1>4, <1>5

\* The relay stays or exits.
Lowered(q, g) ==
  /\ g = q \/ g.pc = "gone"
  /\ g.typed = q.typed /\ g.sent = q.sent /\ g.base = q.base /\ g.replay = q.replay
  /\ g.close = q.close /\ g.overrun = q.overrun

\* A terminal that only loses keeps its invariant.
LEMMA TrackLess ==
  ASSUME NEW t, NEW a \in Seq(Nat), NEW s \in Seq(Unit), NEW v \in Seq(Seq(Unit)), NEW q \in TermType,
         NEW c \in BOOLEAN, NEW p, NEW x, NEW r \in Nat, NEW y,
         Track(t, a, s, v, q, c, p, x, r, y),
         NEW s1 \in Seq(Unit), NEW v1 \in Seq(Seq(Unit)), NEW q1 \in TermType,
         NEW c1 \in BOOLEAN, NEW p1, NEW x1, NEW r1 \in Nat, NEW y1,
         Before(s1, s), v = <<>> => v1 = <<>>, Lowered(q, q1), c => c1,
         q1.pc = "gone" => c1 \/ q.pc \in {"idle", "gone"},
         p1 # "off" => p # "off" /\ v1 = v,
         x1 = t => x = t /\ s1 = s /\ r1 = r /\ (c1 => q1.pc = "gone"),
         Pending(q) /\ y = "closed" => y1 = "closed"
  PROVE  Track(t, a, s1, v1, q1, c1, p1, x1, r1, y1)
<1>1. SentOf(t, q) /\ AttachedOf(q, c, p # "off", x = t) /\ FreshOf(t, a, s, v, q)
  BY DEF Track
<1>2. OrderOf(t, a, s, v, q, c, p # "off") /\ CountOf(t, a, s, v, q, p # "off", x = t, r)
      /\ PendingOf(a, q, y = "closed")
  BY DEF Track
<1>3. SentOf(t, q1)
  BY <1>1 DEF SentOf, Lowered
<1>4. AttachedOf(q1, c1, p1 # "off", x1 = t)
  BY <1>1 DEF AttachedOf, Lowered
<1>5. FreshOf(t, a, s1, v1, q1)
  <2>1. Mine(t, s) = {} => Mine(t, s1) = {}
    BY PrefixKeeps
  <2> QED BY <1>1, <2>1 DEF FreshOf, Lowered
<1>6. OrderOf(t, a, s1, v1, q1, c1, p1 # "off")
  <2>1. Ordered(t, a, s1) /\ \A n : Below(t, a, s, n) => Below(t, a, s1, n)
    BY <1>2, PrefixKeeps DEF OrderOf
  <2>2. q1.typed = q.typed /\ (q1.pc = "up" => q.pc = "up")
    BY DEF Lowered
  <2>3. Below(t, a, s1, q1.typed + 1)
    BY <1>2, <2>1, <2>2 DEF OrderOf
  <2>4. p1 # "off" => Chain(t, v1, q1.typed) /\ Below(t, a, s1, NextIn(v1, q1.typed))
    BY <1>2, <2>1, <2>2 DEF OrderOf
  <2>5. p1 # "off" /\ q1.pc = "up" /\ ~c1 => EndsAt(v1, q1.typed)
    BY <1>2, <2>2 DEF OrderOf
  <2> QED BY <2>1, <2>3, <2>4, <2>5 DEF OrderOf
<1>7. CountOf(t, a, s1, v1, q1, p1 # "off", x1 = t, r1)
  <2>1. q1.pc \in {"connected", "up"} => q1 = q
    BY DEF Lowered
  <2> QED BY <1>2, <2>1 DEF CountOf
<1>8. PendingOf(a, q1, y1 = "closed")
  <2>1. Pending(q1) => q1 = q
    BY DEF Lowered, Pending
  <2> QED BY <1>2, <2>1 DEF PendingOf
<1> QED BY <1>3, <1>4, <1>5, <1>6, <1>7, <1>8 DEF Track

\* A lone terminal that only loses keeps its invariant.
LEMMA AloneLess ==
  ASSUME NEW t, NEW a \in Seq(Nat), NEW s \in Seq(Unit), NEW v \in Seq(Seq(Unit)), NEW q \in TermType,
         NEW c \in BOOLEAN, NEW p, NEW x, NEW r \in Nat,
         AloneOf(t, a, s, v, q, c, p, x, r),
         NEW s1 \in Seq(Unit), NEW v1 \in Seq(Seq(Unit)), NEW q1 \in TermType,
         NEW c1 \in BOOLEAN, NEW p1, NEW x1, NEW r1 \in Nat,
         Before(s1, s), Lowered(q, q1), c => c1,
         p1 # "off" => p # "off" /\ v1 = v /\ s1 = s,
         x1 = t => x = t /\ s1 = s /\ r1 = r
  PROVE  AloneOf(t, a, s1, v1, q1, c1, p1, x1, r1)
<1>1. \A i \in DOMAIN a : a[i] = i
  BY DEF AloneOf
<1>2. From(t, s1, Len(a))
  BY PrefixKeeps DEF AloneOf
<1>3. q1.typed = q.typed /\ (q1.pc = "up" => q.pc = "up")
  BY DEF Lowered
<1>4. p1 # "off" /\ (v1 # <<>> \/ (q1.pc = "up" /\ ~c1)) => NextIn(v1, q1.typed) = Len(a) + Len(s1) + 1
  BY <1>3 DEF AloneOf
<1>5. /\ q1.pc \in {"idle", "connected"} => q1 = q
      /\ q1.pc \in {"connected", "up"} => q1 = q
      /\ Pending(q1) => q1 = q
  BY DEF Lowered, Pending
<1>6. q1.pc \in {"idle", "connected"} => Len(a) = Begin(q1)
  BY <1>5 DEF AloneOf
<1>7. x1 = t /\ q1.pc \in {"connected", "up"} => Begin(q1) <= Len(a) /\ Len(a) + Len(s1) = Begin(q1) + r1
  BY <1>5 DEF AloneOf
<1>8. Pending(q1) => Len(a) = Begin(q1) + q1.close.consumed
  BY <1>5 DEF AloneOf
<1> QED BY <1>1, <1>2, <1>4, <1>6, <1>7, <1>8 DEF AloneOf

\* Consecutive units none of which is the terminal's are none.
LEMMA FromNone ==
  ASSUME NEW t, NEW s \in Seq(Unit), NEW n, From(t, s, n), Mine(t, s) = {}
  PROVE  s = <<>> /\ Len(s) = 0
<1>1. \A i \in DOMAIN s : s[i][1] = t
  BY DEF From
<1>2. DOMAIN s = {}
  BY <1>1 DEF Mine
<1>3. Len(s) = 0
  BY <1>2, LenProperties
<1> QED BY <1>3, EmptySeq

\* A connection that carries nothing.
LEMMA NoStream ==
  ASSUME NEW t, NEW n \in Nat
  PROVE  Chain(t, <<>>, n) /\ NextIn(<<>>, n) = n + 1 /\ EndsAt(<<>>, n)
  BY DEF Chain, NextIn, EndsAt

\* Attaching: nothing of the terminal is ahead, the count starts anew.
LEMMA TrackAttach ==
  ASSUME NEW t, NEW a \in Seq(Nat), NEW s \in Seq(Unit), NEW v \in Seq(Seq(Unit)), NEW q \in TermType,
         NEW c \in BOOLEAN, NEW p, NEW x, NEW r \in Nat, NEW y,
         Track(t, a, s, v, q, c, p, x, r, y), q.pc = "idle",
         NEW s1 \in Seq(Unit), Before(s1, s), NEW q1 \in TermType, NEW p1, NEW c1, c1 = FALSE,
         q1.pc = "connected", q1.sent = <<>>, q1.base = 0, q1.close.handoff = FALSE,
         q1.typed = q.typed, q1.replay = q.replay
  PROVE  Track(t, a, s1, <<>>, q1, c1, p1, t, 0, y)
<1>1. SentOf(t, q) /\ FreshOf(t, a, s, v, q) /\ OrderOf(t, a, s, v, q, c, p # "off")
  BY DEF Track
<1>2. q.typed \in Nat
  BY TermFields
<1>3. Begin(q1) = Begin(q) /\ Begin(q) \in Nat
  BY <1>1, BeginFacts DEF Begin
<1>4. Mine(t, s1) = {} /\ \A i \in DOMAIN a : a[i] <= Begin(q1)
  <2>1. Mine(t, s) = {} => Mine(t, s1) = {}
    BY PrefixKeeps
  <2> QED BY <1>1, <1>3, <2>1 DEF FreshOf
<1>5. SentOf(t, q1)
  <2>1. Len(<<>>) = 0 /\ \A n : From(t, <<>>, n)
    BY DEF From
  <2> QED BY <1>1, <1>2, <2>1 DEF SentOf
<1>6. AttachedOf(q1, c1, p1 # "off", t = t)
  BY DEF AttachedOf
<1>7. FreshOf(t, a, s1, <<>>, q1)
  BY <1>4 DEF FreshOf
<1>8. OrderOf(t, a, s1, <<>>, q1, c1, p1 # "off")
  <2>1. Ordered(t, a, s1) /\ Below(t, a, s1, q.typed + 1)
    BY <1>1, PrefixKeeps DEF OrderOf
  <2> QED BY <1>2, <2>1, NoStream DEF OrderOf
<1>9. CountOf(t, a, s1, <<>>, q1, p1 # "off", t = t, 0)
  BY <1>4 DEF CountOf, Counted
<1>10. PendingOf(a, q1, y = "closed")
  BY DEF PendingOf, Pending
<1> QED BY <1>3, <1>4, <1>5, <1>6, <1>7, <1>8, <1>9, <1>10 DEF Track

\* Attaching, for a lone terminal.
LEMMA AloneAttach ==
  ASSUME NEW t, NEW a \in Seq(Nat), NEW s \in Seq(Unit), NEW v \in Seq(Seq(Unit)), NEW q \in TermType,
         NEW c \in BOOLEAN, NEW p, NEW x, NEW r \in Nat, NEW y,
         Track(t, a, s, v, q, c, p, x, r, y), q.pc = "idle", AloneOf(t, a, s, v, q, c, p, x, r),
         NEW s1 \in Seq(Unit), Before(s1, s), NEW q1 \in TermType, NEW p1, NEW c1, c1 = FALSE,
         q1.pc = "connected", q1.sent = <<>>, q1.base = 0, q1.close.handoff = FALSE,
         q1.typed = q.typed, q1.replay = q.replay
  PROVE  AloneOf(t, a, s1, <<>>, q1, c1, p1, t, 0)
<1>1. Mine(t, s1) = {} /\ Begin(q1) = Begin(q)
  <2>1. Mine(t, s) = {}
    BY DEF Track, FreshOf
  <2>2. Mine(t, s1) = {}
    BY <2>1, PrefixKeeps
  <2> QED BY <2>2 DEF Begin
<1>2. From(t, s1, Len(a))
  BY PrefixKeeps DEF AloneOf
<1>3. Len(s1) = 0
  BY <1>1, <1>2, FromNone
<1>4. Len(a) = Begin(q1) /\ Len(a) \in Nat
  BY <1>1, LenProperties DEF AloneOf
<1>5. ~Pending(q1)
  BY DEF Pending
<1> QED BY <1>2, <1>3, <1>4, <1>5 DEF AloneOf

\* The first frame of a connection: what the last runtime left.
Replayed(q) == IF q.replay = <<>> THEN <<>> ELSE <<q.replay>>

\* The replay is one frame that begins where the connection does.
LEMMA ReplayChain ==
  ASSUME NEW t, NEW q \in TermType, SentOf(t, q), q.pc = "connected"
  PROVE  /\ Replayed(q) \in Seq(Seq(Unit)) /\ Chain(t, Replayed(q), q.typed) /\ EndsAt(Replayed(q), q.typed)
         /\ NextIn(Replayed(q), q.typed) = Begin(q) + 1
<1>1. q.replay \in Seq(Unit) /\ q.typed \in Nat
  BY TermFields
<1>2. PICK k \in Nat : k = Len(q.replay)
  BY <1>1, LenProperties
<1>3. Begin(q) = q.typed - k /\ Begin(q) \in Nat
  BY <1>2, BeginFacts
<1>4. CASE q.replay = <<>>
  <2>1. k = 0
    BY <1>2, <1>4
  <2>2. Replayed(q) = <<>>
    BY <1>4 DEF Replayed
  <2> QED BY <1>1, <1>3, <2>1, <2>2, NoStream, NewTypes, SMTT(30)
<1>5. CASE q.replay # <<>>
  <2>1. From(t, q.replay, Begin(q))
    BY <1>2, <1>3 DEF SentOf
  <2>2. IsRun(t, q.replay) /\ FirstOf(q.replay) = Begin(q) + 1 /\ FinalOf(q.replay) = Begin(q) + k
    <3>1. PICK b \in Int : b = Begin(q)
      BY <1>3
    <3> QED BY <1>1, <1>2, <1>5, <2>1, <3>1, RunFrom
  <2>3. FinalOf(q.replay) = q.typed
    BY <1>1, <1>3, <2>2
  <2>4. Replayed(q) = <<q.replay>>
    BY <1>5 DEF Replayed
  <2>5. PICK w : w = <<q.replay>>
    OBVIOUS
  <2>6. w \in Seq(Seq(Unit)) /\ Len(w) = 1 /\ w[1] = q.replay /\ w # <<>> /\ DOMAIN w = 1..1
    BY <1>1, <2>5
  <2>7. \A i \in 1..1 : i = 1
    OBVIOUS
  <2>8. Chain(t, w, q.typed)
    BY <1>1, <2>2, <2>3, <2>6, <2>7 DEF Chain
  <2>9. EndsAt(w, q.typed) /\ NextIn(w, q.typed) = Begin(q) + 1
    BY <2>2, <2>3, <2>6 DEF EndsAt, NextIn
  <2> QED BY <2>4, <2>5, <2>6, <2>8, <2>9
<1> QED BY <1>4, <1>5

\* The relay has come up.
Upped(q, q1) ==
  /\ q.pc = "connected" /\ q1.pc = "up" /\ q1.typed = q.typed /\ q1.close = q.close
  /\ q1.replay = <<>> /\ Begin(q1) = Begin(q)

\* Sending the replay.
LEMMA TrackUp ==
  ASSUME NEW t, NEW a \in Seq(Nat), NEW s \in Seq(Unit), NEW v \in Seq(Seq(Unit)), NEW q \in TermType,
         NEW c \in BOOLEAN, NEW p, NEW x, NEW r \in Nat, NEW y,
         Track(t, a, s, v, q, c, p, x, r, y), NEW q1 \in TermType, Upped(q, q1), SentOf(t, q1)
  PROVE  Track(t, a, s, Replayed(q), q1, c, p, x, r, y)
<1>1. SentOf(t, q) /\ FreshOf(t, a, s, v, q) /\ OrderOf(t, a, s, v, q, c, p # "off")
      /\ AttachedOf(q, c, p # "off", x = t)
  BY DEF Track
<1>2. CountOf(t, a, s, v, q, p # "off", x = t, r) /\ PendingOf(a, q, y = "closed")
  BY DEF Track
<1>3. PICK v1, b : v1 = Replayed(q) /\ b = Begin(q)
  OBVIOUS
<1>4. v1 \in Seq(Seq(Unit)) /\ Chain(t, v1, q.typed) /\ EndsAt(v1, q.typed) /\ NextIn(v1, q.typed) = b + 1
  BY <1>1, <1>3, ReplayChain DEF Upped
<1>5. b \in Nat /\ Begin(q1) = b /\ q1.typed = q.typed
  BY <1>1, <1>3, BeginFacts DEF Upped
<1>6. Mine(t, s) = {} /\ \A i \in DOMAIN a : a[i] <= b
  BY <1>1, <1>3 DEF FreshOf, Upped
<1>7. Below(t, a, s, b + 1)
  <2>1. \A i \in DOMAIN a : a[i] \in Nat
    OBVIOUS
  <2> QED BY <1>5, <1>6, <2>1 DEF Below
<1>8. AttachedOf(q1, c, p # "off", x = t)
  BY <1>1 DEF AttachedOf, Upped
<1>9. FreshOf(t, a, s, v1, q1)
  BY DEF FreshOf, Upped
<1>10. OrderOf(t, a, s, v1, q1, c, p # "off")
  BY <1>1, <1>4, <1>5, <1>7 DEF OrderOf
<1>11. CountOf(t, a, s, v1, q1, p # "off", x = t, r)
  <2>1. b + 1 <= b + r + 1
    BY <1>5
  <2>2. x = t => Counted(t, a, s, b, r)
    BY <1>2, <1>3 DEF CountOf, Upped
  <2> QED BY <1>4, <1>5, <2>1, <2>2 DEF CountOf
<1>12. PendingOf(a, q1, y = "closed")
  <2>1. Pending(q1) => Pending(q) /\ q1.close.consumed = q.close.consumed
    BY DEF Pending, Upped
  <2> QED BY <1>2, <1>3, <1>5, <2>1 DEF PendingOf
<1> QED BY <1>3, <1>8, <1>9, <1>10, <1>11, <1>12 DEF Track

\* Sending the replay, for a lone terminal.
LEMMA AloneUp ==
  ASSUME NEW t, NEW a \in Seq(Nat), NEW s \in Seq(Unit), NEW v \in Seq(Seq(Unit)), NEW q \in TermType,
         NEW c \in BOOLEAN, NEW p, NEW x, NEW r \in Nat, NEW y,
         Track(t, a, s, v, q, c, p, x, r, y), AloneOf(t, a, s, v, q, c, p, x, r),
         NEW q1 \in TermType, Upped(q, q1), SentOf(t, q1)
  PROVE  AloneOf(t, a, s, Replayed(q), q1, c, p, x, r)
<1>1. SentOf(t, q) /\ FreshOf(t, a, s, v, q) /\ q.pc = "connected"
  BY DEF Track, Upped
<1>2. From(t, s, Len(a)) /\ Mine(t, s) = {} /\ Len(a) = Begin(q)
  BY <1>1 DEF AloneOf, FreshOf
<1>3. Len(s) = 0
  BY <1>2, FromNone
<1>4. NextIn(Replayed(q), q.typed) = Begin(q) + 1 /\ Begin(q) \in Nat
  BY <1>1, ReplayChain, BeginFacts
<1>5. q1.typed = q.typed /\ Begin(q1) = Begin(q) /\ q1.pc = "up"
  BY DEF Upped
<1>6. NextIn(Replayed(q), q1.typed) = Len(a) + Len(s) + 1
  BY <1>2, <1>3, <1>4, <1>5
<1>7. Pending(q1) => Pending(q) /\ q1.close.consumed = q.close.consumed
  BY DEF Pending, Upped
<1>8. Pending(q1) => Len(a) = Begin(q1) + q1.close.consumed
  BY <1>5, <1>7 DEF AloneOf
<1>9. x = t => Begin(q1) <= Len(a) /\ Len(a) + Len(s) = Begin(q1) + r
  BY <1>1, <1>5 DEF AloneOf
<1>10. \A i \in DOMAIN a : a[i] = i
  BY DEF AloneOf
<1> QED BY <1>2, <1>5, <1>6, <1>8, <1>9, <1>10 DEF AloneOf

\* A unit was typed and recorded.
Typed(q, q1) ==
  /\ q.pc = "up" /\ q1.typed = q.typed + 1 /\ q1.close = q.close /\ q1.replay = q.replay
  /\ Begin(q1) = Begin(q)

\* One unit is a frame.
LEMMA UnitRun ==
  ASSUME NEW t, NEW n \in Nat, NEW f, f = <<<<t, n>>>>, f \in Seq(Unit)
  PROVE  IsRun(t, f) /\ FirstOf(f) = n /\ FinalOf(f) = n
<1>1. Len(f) = 1 /\ DOMAIN f = 1..1 /\ f[1] = <<t, n>> /\ f # <<>>
  OBVIOUS
<1>2. FirstOf(f) = n /\ FinalOf(f) = n
  BY <1>1 DEF FirstOf, FinalOf
<1>3. \A i \in 1..1 : i = 1 /\ n + (i - 1) = n
  OBVIOUS
<1> QED BY <1>1, <1>2, <1>3 DEF IsRun

\* A unit typed and sent.
LEMMA TrackTypeSent ==
  ASSUME NEW t, NEW a \in Seq(Nat), NEW s \in Seq(Unit), NEW v \in Seq(Seq(Unit)), NEW q \in TermType,
         NEW c \in BOOLEAN, NEW p, NEW x, NEW r \in Nat, NEW y,
         Track(t, a, s, v, q, c, p, x, r, y), NEW q1 \in TermType, Typed(q, q1), SentOf(t, q1), ~c, q1.pc = "up",
         NEW f \in Seq(Unit), IsRun(t, f), FirstOf(f) = q1.typed, FinalOf(f) = q1.typed
  PROVE  Track(t, a, s, Append(v, f), q1, c, p, x, r, y)
<1>1. SentOf(t, q) /\ OrderOf(t, a, s, v, q, c, p # "off") /\ AttachedOf(q, c, p # "off", x = t)
  BY DEF Track
<1>2. CountOf(t, a, s, v, q, p # "off", x = t, r) /\ PendingOf(a, q, y = "closed")
  BY DEF Track
<1>3. PICK n \in Nat : n = q.typed
  BY TermFields
<1>0. PICK v1 : v1 = Append(v, f)
  OBVIOUS
<1>4. q1.typed = n + 1 /\ Begin(q1) = Begin(q) /\ q.pc = "up"
  BY <1>0, <1>3 DEF Typed
<1>5. IsRun(t, f) /\ FirstOf(f) = n + 1 /\ FinalOf(f) = n + 1
  BY <1>4
<1>6. p # "off" => Chain(t, v1, n + 1) /\ EndsAt(v1, n + 1) /\ NextIn(v1, n + 1) = NextIn(v, n)
  <2> SUFFICES ASSUME p # "off"
               PROVE  Chain(t, v1, n + 1) /\ EndsAt(v1, n + 1) /\ NextIn(v1, n + 1) = NextIn(v, n)
    OBVIOUS
  <2>1. Chain(t, v, n) /\ EndsAt(v, n)
    BY <1>1, <1>0, <1>3, <1>4 DEF OrderOf
  <2>2. /\ Chain(t, v1, FinalOf(f)) /\ EndsAt(v1, FinalOf(f))
        /\ NextIn(v1, FinalOf(f)) = NextIn(v, n)
    BY <1>0, <1>3, <1>5, <2>1, ChainAppend
  <2> QED BY <1>5, <2>2
<1>7. AttachedOf(q1, c, p # "off", x = t)
  BY <1>1, <1>4 DEF AttachedOf
<1>8. FreshOf(t, a, s, v1, q1)
  BY DEF FreshOf
<1>9. OrderOf(t, a, s, v1, q1, c, p # "off")
  <2>1. Ordered(t, a, s) /\ Below(t, a, s, n + 1)
    BY <1>1, <1>0, <1>3 DEF OrderOf
  <2>2. Below(t, a, s, (n + 1) + 1)
    <3>1. n + 1 \in Int /\ (n + 1) + 1 \in Int /\ n + 1 <= (n + 1) + 1
      OBVIOUS
    <3> QED BY <2>1, <3>1, BelowMore
  <2>3. p # "off" => Below(t, a, s, NextIn(v1, n + 1))
    BY <1>1, <1>0, <1>3, <1>6 DEF OrderOf
  <2> QED BY <1>4, <1>6, <2>1, <2>2, <2>3 DEF OrderOf
<1>10. CountOf(t, a, s, v1, q1, p # "off", x = t, r)
  BY <1>2, <1>0, <1>3, <1>4, <1>6 DEF CountOf
<1>11. PendingOf(a, q1, y = "closed")
  <2>1. Pending(q1) => Pending(q) /\ q1.close.consumed = q.close.consumed
    BY DEF Pending, Typed
  <2> QED BY <1>2, <1>4, <2>1 DEF PendingOf
<1> QED BY <1>0, <1>3, <1>7, <1>8, <1>9, <1>10, <1>11 DEF Track

\* A unit typed and sent, for a lone terminal.
LEMMA AloneTypeSent ==
  ASSUME NEW t, NEW a \in Seq(Nat), NEW s \in Seq(Unit), NEW v \in Seq(Seq(Unit)), NEW q \in TermType,
         NEW c \in BOOLEAN, NEW p, NEW x, NEW r \in Nat, NEW y,
         Track(t, a, s, v, q, c, p, x, r, y), AloneOf(t, a, s, v, q, c, p, x, r),
         NEW q1 \in TermType, Typed(q, q1), ~c, q1.pc = "up",
         NEW f \in Seq(Unit), IsRun(t, f), FirstOf(f) = q1.typed, FinalOf(f) = q1.typed
  PROVE  AloneOf(t, a, s, Append(v, f), q1, c, p, x, r)
<1>1. OrderOf(t, a, s, v, q, c, p # "off")
  BY DEF Track
<1>3. PICK n \in Nat : n = q.typed
  BY TermFields
<1>0. PICK v1 : v1 = Append(v, f)
  OBVIOUS
<1>4. q1.typed = n + 1 /\ Begin(q1) = Begin(q) /\ q.pc = "up"
  BY <1>0, <1>3 DEF Typed
<1>5. IsRun(t, f) /\ FirstOf(f) = n + 1 /\ FinalOf(f) = n + 1
  BY <1>4
<1>6. p # "off" => NextIn(v1, n + 1) = NextIn(v, n)
  <2> SUFFICES ASSUME p # "off"
               PROVE  NextIn(v1, n + 1) = NextIn(v, n)
    OBVIOUS
  <2>1. Chain(t, v, n) /\ EndsAt(v, n)
    BY <1>1, <1>0, <1>3, <1>4 DEF OrderOf
  <2> QED BY <1>0, <1>3, <1>5, <2>1, ChainAppend, ZenonT(60)
<1>7. p # "off" => NextIn(v1, q1.typed) = Len(a) + Len(s) + 1
  BY <1>0, <1>3, <1>4, <1>6 DEF AloneOf
<1>8. Pending(q1) => Pending(q) /\ q1.close.consumed = q.close.consumed
  BY DEF Pending, Typed
<1>9. Pending(q1) => Len(a) = Begin(q1) + q1.close.consumed
  BY <1>4, <1>8 DEF AloneOf
<1>10. x = t => Begin(q1) <= Len(a) /\ Len(a) + Len(s) = Begin(q1) + r
  BY <1>4 DEF AloneOf
<1>11. (\A i \in DOMAIN a : a[i] = i) /\ From(t, s, Len(a))
  BY DEF AloneOf
<1> QED BY <1>0, <1>3, <1>7, <1>9, <1>10, <1>11 DEF AloneOf

\* A unit typed on a connection that was shut down.
LEMMA TrackTypeLost ==
  ASSUME NEW t, NEW a \in Seq(Nat), NEW s \in Seq(Unit), NEW v \in Seq(Seq(Unit)), NEW q \in TermType,
         NEW c \in BOOLEAN, NEW p, NEW x, NEW r \in Nat, NEW y,
         Track(t, a, s, v, q, c, p, x, r, y), NEW q1 \in TermType, Typed(q, q1), SentOf(t, q1), c, q1.pc = "failed"
  PROVE  Track(t, a, s, v, q1, c, p, x, r, y)
<1>1. SentOf(t, q) /\ OrderOf(t, a, s, v, q, c, p # "off") /\ AttachedOf(q, c, p # "off", x = t)
  BY DEF Track
<1>2. CountOf(t, a, s, v, q, p # "off", x = t, r) /\ PendingOf(a, q, y = "closed")
  BY DEF Track
<1>3. PICK n \in Nat : n = q.typed
  BY TermFields
<1>4. q1.typed = n + 1 /\ Begin(q1) = Begin(q) /\ q.pc = "up"
  BY <1>3 DEF Typed
<1>5. x # t
  BY <1>1, <1>4 DEF AttachedOf
<1>7. AttachedOf(q1, c, p # "off", x = t)
  BY <1>1, <1>4, <1>5 DEF AttachedOf
<1>8. FreshOf(t, a, s, v, q1)
  BY DEF FreshOf
<1>9. OrderOf(t, a, s, v, q1, c, p # "off")
  <2>1. Ordered(t, a, s) /\ Below(t, a, s, n + 1)
    BY <1>1, <1>3 DEF OrderOf
  <2>2. Below(t, a, s, (n + 1) + 1)
    <3>1. n + 1 \in Int /\ (n + 1) + 1 \in Int /\ n + 1 <= (n + 1) + 1
      OBVIOUS
    <3> QED BY <2>1, <3>1, BelowMore
  <2>3. p # "off" => Chain(t, v, n + 1) /\ Below(t, a, s, NextIn(v, n + 1))
    <3> SUFFICES ASSUME p # "off"
                 PROVE  Chain(t, v, n + 1) /\ Below(t, a, s, NextIn(v, n + 1))
      OBVIOUS
    <3>1. Chain(t, v, n) /\ Below(t, a, s, NextIn(v, n))
      BY <1>1, <1>3 DEF OrderOf
    <3>2. /\ Chain(t, v, n + 1) /\ NextIn(v, n) \in Nat /\ NextIn(v, n) <= NextIn(v, n + 1)
          /\ NextIn(v, n + 1) \in Nat
      BY <3>1, ChainMore
    <3>3. PICK j \in Int, k \in Int : j = NextIn(v, n) /\ k = NextIn(v, n + 1)
      BY <3>2
    <3> QED BY <3>1, <3>2, <3>3, BelowMore
  <2> QED BY <1>4, <2>1, <2>2, <2>3 DEF OrderOf
<1>10. CountOf(t, a, s, v, q1, p # "off", x = t, r)
  BY <1>5 DEF CountOf
<1>11. PendingOf(a, q1, y = "closed")
  <2>1. Pending(q1) => Pending(q) /\ q1.close.consumed = q.close.consumed
    BY DEF Pending, Typed
  <2> QED BY <1>2, <1>4, <2>1 DEF PendingOf
<1> QED BY <1>7, <1>8, <1>9, <1>10, <1>11 DEF Track

\* A unit typed on a connection that was shut down, for a lone terminal.
LEMMA AloneTypeLost ==
  ASSUME NEW t, NEW a \in Seq(Nat), NEW s \in Seq(Unit), NEW v \in Seq(Seq(Unit)), NEW q \in TermType,
         NEW c \in BOOLEAN, NEW p, NEW x, NEW r \in Nat, NEW y,
         Track(t, a, s, v, q, c, p, x, r, y), AloneOf(t, a, s, v, q, c, p, x, r),
         NEW q1 \in TermType, Typed(q, q1), c, q1.pc = "failed"
  PROVE  AloneOf(t, a, s, v, q1, c, p, x, r)
<1>1. OrderOf(t, a, s, v, q, c, p # "off")
  BY DEF Track
<1>3. PICK n \in Nat : n = q.typed
  BY TermFields
<1>4. q1.typed = n + 1 /\ Begin(q1) = Begin(q) /\ q.pc = "up"
  BY <1>3 DEF Typed
<1>6. p # "off" /\ v # <<>> => NextIn(v, n + 1) = NextIn(v, n)
  <2> SUFFICES ASSUME p # "off", v # <<>>
               PROVE  NextIn(v, n + 1) = NextIn(v, n)
    OBVIOUS
  <2>1. Chain(t, v, n)
    BY <1>1, <1>3 DEF OrderOf
  <2> QED BY <2>1, ChainMore
<1>7. p # "off" /\ v # <<>> => NextIn(v, q1.typed) = Len(a) + Len(s) + 1
  BY <1>3, <1>4, <1>6 DEF AloneOf
<1>8. Pending(q1) => Pending(q) /\ q1.close.consumed = q.close.consumed
  BY DEF Pending, Typed
<1>9. Pending(q1) => Len(a) = Begin(q1) + q1.close.consumed
  BY <1>4, <1>8 DEF AloneOf
<1>11. (\A i \in DOMAIN a : a[i] = i) /\ From(t, s, Len(a))
  BY DEF AloneOf
<1> QED BY <1>7, <1>9, <1>11 DEF AloneOf

\* Both sides of the count grow by a frame.
LEMMA BothGrow ==
  ASSUME NEW l \in Nat, NEW k \in Nat, NEW b \in Nat, NEW r \in Nat, NEW m \in Nat, l + k = b + r
  PROVE  l + (k + m) = b + (r + m)
  OBVIOUS

\* A frame that follows what is ahead.
LEMMA RunAfter ==
  ASSUME NEW t, NEW f \in Seq(Unit), IsRun(t, f), NEW m \in Nat, m = Len(f),
         NEW l \in Nat, NEW k \in Nat, FirstOf(f) = l + k + 1
  PROVE  FinalOf(f) + 1 = l + (k + m) + 1 /\ From(t, f, l + k)
<1>1. From(t, f, FirstOf(f) - 1) /\ FinalOf(f) = FirstOf(f) + (m - 1)
  BY RunFacts
<1>2. FirstOf(f) - 1 = l + k /\ FinalOf(f) + 1 = l + (k + m) + 1
  BY <1>1
<1> QED BY <1>1, <1>2

\* The count once frame f has arrived.
Received(r, f) == r + Len(f)

\* A terminal's next frame is delivered.
LEMMA TrackDeliverOwn ==
  ASSUME NEW t, NEW a \in Seq(Nat), NEW s \in Seq(Unit), NEW v \in Seq(Seq(Unit)), NEW q \in TermType,
         NEW c \in BOOLEAN, NEW p, NEW x, NEW r \in Nat, NEW y,
         Track(t, a, s, v, q, c, p, x, r, y), v # <<>>, p # "off", NEW p1, p1 # "off",
         NEW f \in Seq(Unit), f = v[1], NEW m \in Nat, m = Len(f)
  PROVE  /\ Track(t, a, s \o f, Tail(v), q, c, p1, x, Received(r, f), y)
         /\ f \in Seq(Unit) /\ IsRun(t, f)
<1> SUFFICES Track(t, a, s \o f, Tail(v), q, c, p1, x, r + m, y) /\ f \in Seq(Unit) /\ IsRun(t, f)
  BY DEF Received
<1>1. SentOf(t, q) /\ OrderOf(t, a, s, v, q, c, p # "off") /\ AttachedOf(q, c, p # "off", x = t)
      /\ FreshOf(t, a, s, v, q)
  BY DEF Track
<1>2. CountOf(t, a, s, v, q, p # "off", x = t, r) /\ PendingOf(a, q, y = "closed")
  BY DEF Track
<1>3. PICK n \in Nat, b \in Nat : n = q.typed /\ b = Begin(q)
  BY <1>1, BeginFacts
<1>4. q.pc \notin {"idle", "connected"}
  BY <1>1 DEF AttachedOf, FreshOf
<1>5. Chain(t, v, n) /\ Ordered(t, a, s) /\ Below(t, a, s, NextIn(v, n))
  BY <1>1, <1>3 DEF OrderOf
<1>6. 1 \in DOMAIN v
  BY EmptySeq
<1>7. f \in Seq(Unit) /\ IsRun(t, f) /\ FirstOf(f) \in Nat /\ FinalOf(f) \in Nat /\ FinalOf(f) <= n
  BY <1>5, <1>6, ChainFrame
<1>8. PICK w, s1 : w = Tail(v) /\ s1 = s \o f
  OBVIOUS
<1>9. /\ Chain(t, w, n) /\ NextIn(v, n) = FirstOf(f)
      /\ NextIn(w, n) \in Nat /\ FinalOf(f) + 1 <= NextIn(w, n)
      /\ EndsAt(v, n) => NextIn(w, n) = FinalOf(f) + 1
      /\ EndsAt(v, n) => EndsAt(w, n)
  BY <1>5, <1>8, ChainTail
<1>10. s1 \in Seq(Unit)
  BY <1>7, <1>8
<1>11. Below(t, a, s, FirstOf(f))
  BY <1>5, <1>9
<1>12. Ordered(t, a, s1) /\ Below(t, a, s1, FinalOf(f) + 1)
  BY <1>5, <1>7, <1>8, <1>11, DeliverOwn
<1>13. \A e, d \in Int : Counted(t, a, s, e, d) /\ FirstOf(f) <= e + d + 1 => Counted(t, a, s1, e, d + m)
  BY <1>5, <1>7, <1>8, <1>11, DeliverOwn
<1>14. OrderOf(t, a, s1, w, q, c, p1 # "off")
  <2>1. PICK j \in Int, k \in Int : j = FinalOf(f) + 1 /\ k = NextIn(w, n)
    BY <1>7, <1>9
  <2>2. Below(t, a, s1, k)
    BY <1>9, <1>10, <1>12, <2>1, BelowMore
  <2>3. j <= n + 1 /\ n + 1 \in Int
    BY <1>7, <2>1
  <2>4. Below(t, a, s1, n + 1)
    BY <1>10, <1>12, <2>1, <2>3, BelowMore
  <2>5. q.pc = "up" /\ ~c => EndsAt(w, n)
    BY <1>1, <1>3, <1>9 DEF OrderOf
  <2> QED BY <1>3, <1>9, <1>12, <2>1, <2>2, <2>4, <2>5 DEF OrderOf
<1>15. CountOf(t, a, s1, w, q, p1 # "off", x = t, r + m)
  <2> SUFFICES ASSUME x = t, q.pc = "up"
               PROVE  Counted(t, a, s1, Begin(q), r + m) /\ NextIn(w, q.typed) <= Begin(q) + (r + m) + 1
    BY <1>4 DEF CountOf
  <2>1. Counted(t, a, s, b, r) /\ FirstOf(f) <= b + r + 1
    BY <1>2, <1>3, <1>9 DEF CountOf
  <2>2. Counted(t, a, s1, b, r + m)
    <3>1. b \in Int /\ r \in Int
      OBVIOUS
    <3> QED BY <1>13, <2>1, <3>1
  <2>3. ~c
    BY <1>1 DEF AttachedOf
  <2>4. EndsAt(v, n)
    BY <1>1, <1>3, <2>3 DEF OrderOf
  <2>5. NextIn(w, n) = FinalOf(f) + 1 /\ FinalOf(f) = FirstOf(f) + (m - 1)
    BY <1>7, <1>9, <2>4, RunFacts
  <2>6. NextIn(w, n) <= b + (r + m) + 1
    BY <1>7, <2>1, <2>5, SMTT(30)
  <2> QED BY <1>3, <2>2, <2>6
<1>16. FreshOf(t, a, s1, w, q)
  BY <1>4 DEF FreshOf
<1>17. AttachedOf(q, c, p1 # "off", x = t)
  BY <1>1 DEF AttachedOf
<1> QED BY <1>1, <1>2, <1>7, <1>8, <1>14, <1>15, <1>16, <1>17 DEF Track

\* Another terminal's frame is delivered.
LEMMA TrackDeliverOther ==
  ASSUME NEW t, NEW a \in Seq(Nat), NEW s \in Seq(Unit), NEW v \in Seq(Seq(Unit)), NEW q \in TermType,
         NEW c \in BOOLEAN, NEW p, NEW x, NEW r \in Nat, NEW y,
         Track(t, a, s, v, q, c, p, x, r, y), NEW u, u # t,
         NEW f \in Seq(Unit), IsRun(u, f), NEW m \in Nat, m = Len(f)
  PROVE  Track(t, a, s \o f, v, q, c, p, x, Received(r, f), y)
<1> SUFFICES Track(t, a, s \o f, v, q, c, p, x, r + m, y)
  BY DEF Received
<1>1. SentOf(t, q) /\ OrderOf(t, a, s, v, q, c, p # "off") /\ AttachedOf(q, c, p # "off", x = t)
      /\ FreshOf(t, a, s, v, q)
  BY DEF Track
<1>2. CountOf(t, a, s, v, q, p # "off", x = t, r) /\ PendingOf(a, q, y = "closed")
  BY DEF Track
<1>3. PICK s1 : s1 = s \o f
  OBVIOUS
<1>4. /\ Mine(t, s) = {} => Mine(t, s1) = {}
      /\ Ordered(t, a, s) => Ordered(t, a, s1)
      /\ \A n : Below(t, a, s, n) => Below(t, a, s1, n)
  BY <1>3, DeliverOther
<1>5. \A e, d \in Int : Counted(t, a, s, e, d) => Counted(t, a, s1, e, d + m)
  BY <1>3, DeliverOther
<1>6. FreshOf(t, a, s1, v, q)
  BY <1>1, <1>4 DEF FreshOf
<1>7. OrderOf(t, a, s1, v, q, c, p # "off")
  BY <1>1, <1>4 DEF OrderOf
<1>8. CountOf(t, a, s1, v, q, p # "off", x = t, r + m)
  <2>1. PICK b \in Int : b = Begin(q)
    BY <1>1, BeginFacts
  <2>2. r \in Int
    OBVIOUS
  <2>3. x = t /\ q.pc \in {"connected", "up"} => Counted(t, a, s1, b, r + m)
    BY <1>2, <1>5, <2>1, <2>2 DEF CountOf
  <2>4. ASSUME x = t, q.pc = "up", p # "off"
        PROVE  NextIn(v, q.typed) <= b + (r + m) + 1
    <3>1. Chain(t, v, q.typed) /\ q.typed \in Nat
      BY <1>1, <2>4, TermFields DEF OrderOf
    <3>2. NextIn(v, q.typed) \in Nat
      BY <3>1, ChainMore
    <3>3. NextIn(v, q.typed) <= b + r + 1
      BY <1>2, <2>1, <2>4 DEF CountOf
    <3> QED BY <3>2, <3>3
  <2> QED BY <2>1, <2>3, <2>4 DEF CountOf
<1> QED BY <1>1, <1>2, <1>3, <1>6, <1>7, <1>8 DEF Track

\* A lone terminal's next frame is delivered.
LEMMA AloneDeliver ==
  ASSUME NEW t, NEW a \in Seq(Nat), NEW s \in Seq(Unit), NEW v \in Seq(Seq(Unit)), NEW q \in TermType,
         NEW c \in BOOLEAN, NEW p, NEW x, NEW r \in Nat, NEW y,
         Track(t, a, s, v, q, c, p, x, r, y), AloneOf(t, a, s, v, q, c, p, x, r),
         v # <<>>, p # "off", NEW p1, p1 # "off",
         NEW f \in Seq(Unit), f = v[1], NEW m \in Nat, m = Len(f)
  PROVE  AloneOf(t, a, s \o f, Tail(v), q, c, p1, x, Received(r, f))
<1> SUFFICES AloneOf(t, a, s \o f, Tail(v), q, c, p1, x, r + m)
  BY DEF Received
<1>1. SentOf(t, q) /\ OrderOf(t, a, s, v, q, c, p # "off") /\ AttachedOf(q, c, p # "off", x = t)
      /\ FreshOf(t, a, s, v, q)
  BY DEF Track
<1>3. PICK n \in Nat, b \in Nat : n = q.typed /\ b = Begin(q)
  BY <1>1, BeginFacts
<1>4. q.pc \notin {"idle", "connected"}
  BY <1>1 DEF AttachedOf, FreshOf
<1>5. Chain(t, v, n)
  BY <1>1, <1>3 DEF OrderOf
<1>6. 1 \in DOMAIN v
  BY EmptySeq
<1>7. f \in Seq(Unit) /\ IsRun(t, f) /\ FirstOf(f) \in Nat /\ FinalOf(f) \in Nat
  BY <1>5, <1>6, ChainFrame
<1>8. PICK k \in Nat, l \in Nat : k = Len(s) /\ l = Len(a)
  BY LenProperties
<1>0. PICK w, s1 : w = Tail(v) /\ s1 = s \o f
  OBVIOUS
<1>9. /\ NextIn(v, n) = FirstOf(f)
      /\ w # <<>> \/ EndsAt(v, n) => NextIn(w, n) = FinalOf(f) + 1
  BY <1>5, <1>0, <1>8, ChainTail
<1>10. Len(s1) = k + m
  BY <1>7, <1>0, <1>8, Concat
<1>11. FirstOf(f) = l + k + 1
  BY <1>3, <1>0, <1>8, <1>9 DEF AloneOf
<1>13. From(t, s1, l)
  <2>1. From(t, s, l)
    BY <1>0, <1>8 DEF AloneOf
  <2>2. From(t, f, l + k)
    BY <1>7, <1>11, RunAfter
  <2>3. l \in Int
    OBVIOUS
  <2> QED BY <1>7, <1>0, <1>8, <2>1, <2>2, <2>3, FromConcat
<1>14. w # <<>> \/ (q.pc = "up" /\ ~c) => NextIn(w, n) = l + (k + m) + 1
  <2>1. q.pc = "up" /\ ~c => EndsAt(v, n)
    BY <1>1, <1>3 DEF OrderOf
  <2>2. FinalOf(f) + 1 = l + (k + m) + 1
    BY <1>7, <1>11, RunAfter
  <2> QED BY <1>9, <2>1, <2>2
<1>15. x = t /\ q.pc \in {"connected", "up"} => b <= l /\ l + (k + m) = b + (r + m)
  <2>1. x = t /\ q.pc \in {"connected", "up"} => b <= l /\ l + k = b + r
    BY <1>3, <1>0, <1>8 DEF AloneOf
  <2>2. l + k = b + r => l + (k + m) = b + (r + m)
    BY BothGrow
  <2> QED BY <2>1, <2>2
<1>16. (\A i \in DOMAIN a : a[i] = i) /\ (Pending(q) => Len(a) = Begin(q) + q.close.consumed)
  BY DEF AloneOf
<1> QED BY <1>3, <1>4, <1>0, <1>8, <1>10, <1>13, <1>14, <1>15, <1>16 DEF AloneOf

\* The application acts on a unit of the terminal.
LEMMA TrackActOwn ==
  ASSUME NEW t, NEW a \in Seq(Nat), NEW s \in Seq(Unit), NEW v \in Seq(Seq(Unit)), NEW q \in TermType,
         NEW c \in BOOLEAN, NEW p, NEW x, NEW r \in Nat, NEW y, NEW y1,
         Track(t, a, s, v, q, c, p, x, r, y), s # <<>>, y # "closed", NEW n \in Nat, s[1] = <<t, n>>
  PROVE  Track(t, Append(a, n), Tail(s), v, q, c, p, x, r, y1)
<1>1. SentOf(t, q) /\ OrderOf(t, a, s, v, q, c, p # "off") /\ AttachedOf(q, c, p # "off", x = t)
      /\ FreshOf(t, a, s, v, q)
  BY DEF Track
<1>2. CountOf(t, a, s, v, q, p # "off", x = t, r) /\ ~Pending(q)
  BY DEF Track, PendingOf
<1>3. PICK a1, s1 : a1 = Append(a, n) /\ s1 = Tail(s)
  OBVIOUS
<1>4. Ordered(t, a, s)
  BY <1>1 DEF OrderOf
<1>5. Ordered(t, a1, s1) /\ \A m : Below(t, a, s, m) => Below(t, a1, s1, m)
  BY <1>3, <1>4, ActOwn
<1>6. \A e, d \in Int : Counted(t, a, s, e, d) => Counted(t, a1, s1, e, d)
  BY <1>3, ActOwn
<1>7. 1 \in Mine(t, s)
  <2>1. 1 \in DOMAIN s
    BY EmptySeq
  <2> QED BY <2>1 DEF Mine
<1>8. q.pc \notin {"idle", "connected"}
  BY <1>1, <1>7 DEF FreshOf
<1>9. FreshOf(t, a1, s1, v, q)
  BY <1>8 DEF FreshOf
<1>10. OrderOf(t, a1, s1, v, q, c, p # "off")
  BY <1>1, <1>5 DEF OrderOf
<1>11. CountOf(t, a1, s1, v, q, p # "off", x = t, r)
  <2>1. PICK b \in Int : b = Begin(q)
    BY <1>1, BeginFacts
  <2>2. r \in Int
    OBVIOUS
  <2>3. x = t /\ q.pc \in {"connected", "up"} => Counted(t, a1, s1, b, r)
    BY <1>2, <1>6, <2>1, <2>2 DEF CountOf
  <2> QED BY <1>2, <2>1, <2>3 DEF CountOf
<1>12. PendingOf(a1, q, y1 = "closed")
  BY <1>2 DEF PendingOf
<1> QED BY <1>1, <1>3, <1>9, <1>10, <1>11, <1>12 DEF Track

\* The application acts on a unit of another terminal.
LEMMA TrackActOther ==
  ASSUME NEW t, NEW a \in Seq(Nat), NEW s \in Seq(Unit), NEW v \in Seq(Seq(Unit)), NEW q \in TermType,
         NEW c \in BOOLEAN, NEW p, NEW x, NEW r \in Nat, NEW y, NEW y1,
         Track(t, a, s, v, q, c, p, x, r, y), s # <<>>, y # "closed", s[1][1] # t
  PROVE  Track(t, a, Tail(s), v, q, c, p, x, r, y1)
<1>1. SentOf(t, q) /\ OrderOf(t, a, s, v, q, c, p # "off") /\ AttachedOf(q, c, p # "off", x = t)
      /\ FreshOf(t, a, s, v, q)
  BY DEF Track
<1>2. CountOf(t, a, s, v, q, p # "off", x = t, r) /\ ~Pending(q)
  BY DEF Track, PendingOf
<1>3. PICK s1 : s1 = Tail(s)
  OBVIOUS
<1>5. /\ Mine(t, s) = {} => Mine(t, s1) = {}
      /\ Ordered(t, a, s) => Ordered(t, a, s1)
      /\ \A m : Below(t, a, s, m) => Below(t, a, s1, m)
  BY <1>3, ActOther
<1>6. \A e, d \in Int : Counted(t, a, s, e, d) => Counted(t, a, s1, e, d)
  BY <1>3, ActOther
<1>9. FreshOf(t, a, s1, v, q)
  BY <1>1, <1>5 DEF FreshOf
<1>10. OrderOf(t, a, s1, v, q, c, p # "off")
  BY <1>1, <1>5 DEF OrderOf
<1>11. CountOf(t, a, s1, v, q, p # "off", x = t, r)
  <2>1. PICK b \in Int : b = Begin(q)
    BY <1>1, BeginFacts
  <2>2. r \in Int
    OBVIOUS
  <2>3. x = t /\ q.pc \in {"connected", "up"} => Counted(t, a, s1, b, r)
    BY <1>2, <1>6, <2>1, <2>2 DEF CountOf
  <2> QED BY <1>2, <2>1, <2>3 DEF CountOf
<1>12. PendingOf(a, q, y1 = "closed")
  BY <1>2 DEF PendingOf
<1> QED BY <1>1, <1>3, <1>9, <1>10, <1>11, <1>12 DEF Track

\* The first of consecutive units, and the rest.
LEMMA FromTail ==
  ASSUME NEW t, NEW s \in Seq(Unit), s # <<>>, NEW l \in Nat, From(t, s, l)
  PROVE  s[1] = <<t, l + 1>> /\ From(t, Tail(s), l + 1)
<1>1. PICK k \in Nat : k = Len(s)
  BY LenProperties
<1>0. PICK d : d = Tail(s)
  OBVIOUS
<1>2. k >= 1 /\ d \in Seq(Unit) /\ Len(d) = k - 1 /\ \A i \in 1..(k - 1) : d[i] = s[i + 1]
  BY <1>0, <1>1, TailIndex
<1>3. \A i \in 1..k : s[i] = <<t, l + i>>
  BY <1>1 DEF From
<1>4. \A i \in 1..(k - 1) : i + 1 \in 1..k /\ l + (i + 1) = (l + 1) + i
  OBVIOUS
<1>5. \A i \in 1..(k - 1) : d[i] = <<t, (l + 1) + i>>
  BY <1>2, <1>3, <1>4
<1>6. DOMAIN d = 1..(k - 1)
  BY <1>2
<1>7. From(t, d, l + 1)
  BY <1>5, <1>6 DEF From
<1>8. s[1] = <<t, l + 1>>
  BY <1>2, <1>3
<1> QED BY <1>0, <1>7, <1>8

\* The application acts on a unit of a lone terminal.
LEMMA AloneAct ==
  ASSUME NEW t, NEW a \in Seq(Nat), NEW s \in Seq(Unit), NEW v \in Seq(Seq(Unit)), NEW q \in TermType,
         NEW c \in BOOLEAN, NEW p, NEW x, NEW r \in Nat, NEW y,
         Track(t, a, s, v, q, c, p, x, r, y), AloneOf(t, a, s, v, q, c, p, x, r),
         s # <<>>, y # "closed", NEW n \in Nat, s[1] = <<t, n>>
  PROVE  AloneOf(t, Append(a, n), Tail(s), v, q, c, p, x, r)
<1>1. SentOf(t, q) /\ FreshOf(t, a, s, v, q) /\ ~Pending(q)
  BY DEF Track, PendingOf
<1>2. PICK k \in Nat, l \in Nat, b \in Nat : k = Len(s) /\ l = Len(a) /\ b = Begin(q)
  <2>1. Begin(q) \in Nat
    BY <1>1, BeginFacts
  <2> QED BY <2>1, LenProperties
<1>3. PICK a1, s1 : a1 = Append(a, n) /\ s1 = Tail(s)
  OBVIOUS
<1>4. k >= 1 /\ Len(s1) = k - 1
  BY <1>2, <1>3, TailIndex
<1>5. Len(a1) = l + 1 /\ a1[l + 1] = n /\ (\A i \in 1..l : a1[i] = a[i]) /\ DOMAIN a1 = 1..(l + 1)
  BY <1>2, <1>3, AppendType
<1>6. From(t, s, l)
  BY <1>2 DEF AloneOf
<1>7. s[1] = <<t, l + 1>> /\ From(t, s1, l + 1)
  BY <1>3, <1>6, FromTail
<1>8. n = l + 1
  BY <1>7
<1>9. \A i \in 1..(l + 1) : a1[i] = i
  <2>1. \A i \in 1..l : a[i] = i
    BY <1>2, SMTT(30) DEF AloneOf
  <2>2. \A i \in 1..(l + 1) : i \in 1..l \/ i = l + 1
    OBVIOUS
  <2> QED BY <1>5, <1>8, <2>1, <2>2
<1>10. 1 \in Mine(t, s)
  <2>1. 1 \in DOMAIN s
    BY EmptySeq
  <2> QED BY <2>1 DEF Mine
<1>11. q.pc \notin {"idle", "connected"}
  BY <1>1, <1>10 DEF FreshOf
<1>12. (l + 1) + (k - 1) = l + k
  OBVIOUS
<1>13. p # "off" /\ (v # <<>> \/ (q.pc = "up" /\ ~c)) => NextIn(v, q.typed) = (l + 1) + (k - 1) + 1
  BY <1>2, <1>12 DEF AloneOf
<1>14. x = t /\ q.pc \in {"connected", "up"} => b <= l + 1 /\ (l + 1) + (k - 1) = b + r
  <2>1. x = t /\ q.pc \in {"connected", "up"} => b <= l /\ l + k = b + r
    BY <1>2 DEF AloneOf
  <2>2. b <= l => b <= l + 1
    OBVIOUS
  <2> QED BY <1>12, <2>1, <2>2
<1> QED BY <1>1, <1>2, <1>3, <1>4, <1>5, <1>7, <1>9, <1>11, <1>13, <1>14 DEF AloneOf

\* What close_with_handoff reports of what was received.
Taken(r, left) == IF r > left THEN r - left ELSE 0

\* The relay was told of the close.
Closed(q, q1, h, n) ==
  /\ q1.pc = q.pc /\ q1.typed = q.typed /\ q1.sent = q.sent /\ q1.base = q.base /\ q1.replay = q.replay
  /\ q1.overrun = q.overrun /\ q1.close.handoff = h /\ (h => q1.close.consumed = n)

\* The close reports what arrived and is not ahead: at least all that was acted on.
LEMMA TrackClose ==
  ASSUME NEW t, NEW a \in Seq(Nat), NEW s \in Seq(Unit), NEW v \in Seq(Seq(Unit)), NEW q \in TermType,
         NEW c \in BOOLEAN, NEW p, NEW x, NEW r \in Nat, NEW y,
         Track(t, a, s, v, q, c, p, x, r, y), x = t, NEW q1 \in TermType, NEW h \in BOOLEAN,
         Closed(q, q1, h, Taken(r, Len(s))), NEW c1, c1 = TRUE, NEW x1, x1 # t, NEW y1, y1 = "closed"
  PROVE  Track(t, a, s, v, q1, c1, p, x1, r, y1)
<1>1. SentOf(t, q) /\ OrderOf(t, a, s, v, q, c, p # "off") /\ AttachedOf(q, c, p # "off", x = t)
      /\ FreshOf(t, a, s, v, q)
  BY DEF Track
<1>2. CountOf(t, a, s, v, q, p # "off", x = t, r)
  BY DEF Track
<1>3. Begin(q1) = Begin(q) /\ Begin(q) \in Nat
  BY <1>1, BeginFacts DEF Begin, Closed
<1>4. SentOf(t, q1)
  BY <1>1 DEF SentOf, Closed
<1>5. AttachedOf(q1, c1, p # "off", x1 = t)
  BY <1>1 DEF AttachedOf, Closed
<1>6. FreshOf(t, a, s, v, q1)
  BY <1>1, <1>3 DEF FreshOf, Closed
<1>7. OrderOf(t, a, s, v, q1, c1, p # "off")
  BY <1>1 DEF OrderOf, Closed
<1>8. CountOf(t, a, s, v, q1, p # "off", x1 = t, r)
  BY DEF CountOf
<1>9. PendingOf(a, q1, y1 = "closed")
  <2> SUFFICES ASSUME Pending(q1)
               PROVE  \A i \in DOMAIN a : a[i] <= Begin(q1) + q1.close.consumed
    BY DEF PendingOf
  <2>1. q.pc \in {"connected", "up"}
    BY <1>1 DEF AttachedOf, Pending, Closed
  <2>2. PICK k \in Nat, b \in Nat : k = Len(s) /\ b = Begin(q)
    BY <1>3, LenProperties
  <2>3. \A i \in DOMAIN a : a[i] <= b \/ a[i] + k <= b + r
    BY <1>2, <2>1, <2>2 DEF CountOf, Counted
  <2>4. q1.close.consumed = IF r > k THEN r - k ELSE 0
    BY <2>2 DEF Pending, Closed, Taken
  <2>5. \A i \in DOMAIN a : a[i] \in Nat
    OBVIOUS
  <2>6. \A i \in DOMAIN a : a[i] <= b + (IF r > k THEN r - k ELSE 0)
    BY <2>3, <2>5
  <2> QED BY <1>3, <2>2, <2>4, <2>6
<1> QED BY <1>4, <1>5, <1>6, <1>7, <1>8, <1>9 DEF Track

\* For a lone terminal the close reports exactly what was acted on.
LEMMA AloneClose ==
  ASSUME NEW t, NEW a \in Seq(Nat), NEW s \in Seq(Unit), NEW v \in Seq(Seq(Unit)), NEW q \in TermType,
         NEW c \in BOOLEAN, NEW p, NEW x, NEW r \in Nat, NEW y,
         Track(t, a, s, v, q, c, p, x, r, y), AloneOf(t, a, s, v, q, c, p, x, r), x = t,
         NEW q1 \in TermType, NEW h \in BOOLEAN,
         Closed(q, q1, h, Taken(r, Len(s))), NEW c1, c1 = TRUE, NEW x1, x1 # t
  PROVE  AloneOf(t, a, s, v, q1, c1, p, x1, r)
<1>1. SentOf(t, q) /\ AttachedOf(q, c, p # "off", x = t)
  BY DEF Track
<1>2. Begin(q1) = Begin(q) /\ Begin(q) \in Nat /\ q1.pc = q.pc /\ q1.typed = q.typed
  BY <1>1, BeginFacts DEF Begin, Closed
<1>3. ASSUME Pending(q1)
      PROVE  Len(a) = Begin(q1) + q1.close.consumed
  <2>1. q.pc \in {"connected", "up"}
    BY <1>1, <1>3 DEF AttachedOf, Pending, Closed
  <2>2. PICK k \in Nat, l \in Nat, b \in Nat : k = Len(s) /\ l = Len(a) /\ b = Begin(q)
    BY <1>2, LenProperties
  <2>3. b <= l /\ l + k = b + r
    BY <2>1, <2>2 DEF AloneOf
  <2>4. q1.close.consumed = IF r > k THEN r - k ELSE 0
    BY <1>3, <2>2 DEF Pending, Closed, Taken
  <2>5. l = b + (IF r > k THEN r - k ELSE 0)
    BY <2>3
  <2> QED BY <1>2, <2>2, <2>4, <2>5
<1>4. q1.pc \in {"idle", "connected"} => Len(a) = Begin(q1)
  BY <1>2 DEF AloneOf
<1>5. p # "off" /\ v # <<>> => NextIn(v, q1.typed) = Len(a) + Len(s) + 1
  BY <1>2 DEF AloneOf
<1>6. (\A i \in DOMAIN a : a[i] = i) /\ From(t, s, Len(a))
  BY DEF AloneOf
<1> QED BY <1>3, <1>4, <1>5, <1>6 DEF AloneOf

\* The relay resolved its replay.
Resolved(q, q1) ==
  /\ q1.pc = "idle" /\ q1.typed = q.typed /\ q1.sent = q.sent /\ q1.base = q.base /\ q1.close = q.close
  /\ q1.replay = IF q.close.consumed >= q.base
                 THEN SubSeq(q.sent, q.close.consumed - q.base + 1, Len(q.sent)) ELSE <<>>

\* The replay begins after the units reported, if the window still holds them.
LEMMA ReplayLeft ==
  ASSUME NEW t, NEW q \in TermType, NEW q1 \in TermType, SentOf(t, q), Resolved(q, q1),
         q.pc \in {"up", "failed"}
  PROVE  /\ SentOf(t, q1) /\ Begin(q1) \in Nat /\ Begin(q1) <= q.typed
         /\ \/ Begin(q1) = Begin(q) + q.close.consumed
            \/ Begin(q1) = q.typed /\ q.close.consumed < q.base
            \/ Begin(q1) = q.typed /\ Begin(q) + q.close.consumed > q.typed
<1>1. q.sent \in Seq(Unit) /\ q.base \in Nat /\ q.typed \in Nat /\ q.close.consumed \in Nat
  BY TermFields
<1>2. PICK k \in Nat, n \in Nat, b \in Nat, d \in Nat :
        k = Len(q.sent) /\ n = q.typed /\ b = q.base /\ d = q.close.consumed
  BY <1>1, LenProperties
<1>3. b + k <= n /\ From(t, q.sent, n - k)
  BY <1>2 DEF SentOf
<1>4. Begin(q) = n - (b + k)
  BY <1>2, BeginFacts
<1>5. ASSUME NEW j \in Nat, Len(q1.replay) = j, j <= n, From(t, q1.replay, n - j)
      PROVE  SentOf(t, q1) /\ Begin(q1) = n - j /\ Begin(q1) \in Nat /\ Begin(q1) <= n
  <2>1. SentOf(t, q1)
    <3>1. From(t, q1.sent, q1.typed - Len(q1.sent)) /\ q1.base + Len(q1.sent) <= q1.typed
      BY DEF SentOf, Resolved
    <3>2. From(t, q1.replay, q1.typed - Len(q1.replay)) /\ Len(q1.replay) <= q1.typed
      BY <1>2, <1>5 DEF Resolved
    <3> QED BY <3>1, <3>2 DEF SentOf, Resolved
  <2>2. Begin(q1) = n - j
    BY <1>2, <1>5 DEF Begin, Resolved
  <2> QED BY <1>5, <2>1, <2>2
<1>6. CASE d >= b /\ d - b <= k
  <2>1. PICK o \in 0..k : o = d - b
    BY <1>6
  <2>2. q1.replay = SubSeq(q.sent, o + 1, k)
    BY <1>2, <1>6, <2>1 DEF Resolved
  <2>3. Len(q1.replay) = k - o
    BY <1>1, <1>2, <2>2, Suffix
  <2>4. From(t, q1.replay, (n - k) + o)
    <3>1. n - k \in Int
      OBVIOUS
    <3> QED BY <1>1, <1>2, <1>3, <2>2, <3>1, FromSuffix
  <2>5. k - o \in Nat /\ k - o <= n /\ n - (k - o) = (n - k) + o
    BY <1>3
  <2>6. SentOf(t, q1) /\ Begin(q1) = n - (k - o) /\ Begin(q1) \in Nat /\ Begin(q1) <= n
    BY <1>5, <2>3, <2>4, <2>5
  <2>7. n - (k - o) = (n - (b + k)) + d
    BY <2>1
  <2> QED BY <1>2, <1>4, <2>6, <2>7
<1>7. CASE ~(d >= b /\ d - b <= k)
  <2>1. q1.replay = <<>>
    <3>1. CASE d < b
      BY <1>2, <3>1 DEF Resolved
    <3>2. CASE d >= b /\ d - b > k
      <4>1. q1.replay = SubSeq(q.sent, (d - b) + 1, k)
        BY <1>2, <3>2 DEF Resolved
      <4>2. PICK o \in Nat : o = (d - b) + 1
        BY <3>2
      <4>3. o > k /\ q1.replay = SubSeq(q.sent, o, k)
        BY <3>2, <4>1, <4>2
      <4>4. q1.replay \in Seq(Unit) /\ Len(q1.replay) = 0
        BY <4>3, TermFields
      <4> QED BY <4>4, EmptySeq
    <3> QED BY <1>7, <3>1, <3>2
  <2>2. Len(q1.replay) = 0 /\ From(t, q1.replay, n - 0)
    BY <2>1 DEF From
  <2>3. 0 \in Nat /\ 0 <= n /\ n - 0 = n
    OBVIOUS
  <2>4. SentOf(t, q1) /\ Begin(q1) = n /\ Begin(q1) \in Nat /\ Begin(q1) <= n
    BY <1>5, <2>2, <2>3
  <2>5. d < b \/ (n - (b + k)) + d > n
    BY <1>7
  <2> QED BY <1>2, <1>4, <2>4, <2>5
<1> QED BY <1>6, <1>7

\* Nothing ahead keeps every order.
LEMMA Nothing ==
  ASSUME NEW t, NEW a \in Seq(Nat)
  PROVE  /\ Mine(t, <<>>) = {} /\ \A n : From(t, <<>>, n)
         /\ \A s, n : Ordered(t, a, s) /\ Below(t, a, s, n) => Ordered(t, a, <<>>) /\ Below(t, a, <<>>, n)
<1>1. Mine(t, <<>>) = {}
  BY DEF Mine
<1> QED BY <1>1 DEF From, Ordered, Below

\* The relay resolves its replay for the next runtime.
LEMMA TrackFinish ==
  ASSUME NEW t, NEW a \in Seq(Nat), NEW s \in Seq(Unit), NEW v \in Seq(Seq(Unit)), NEW q \in TermType,
         NEW c \in BOOLEAN, NEW p, NEW x, NEW r \in Nat, NEW y,
         Track(t, a, s, v, q, c, p, x, r, y), Pending(q), q.pc \in {"up", "failed"},
         NEW q1 \in TermType, Resolved(q, q1),
         NEW c1, c1 = TRUE, NEW p1, p1 = "off", NEW x1, x1 # t, NEW r1, NEW y1
  PROVE  Track(t, a, <<>>, <<>>, q1, c1, p1, x1, r1, y1)
<1>1. SentOf(t, q) /\ OrderOf(t, a, s, v, q, c, p # "off")
  BY DEF Track
<1>2. \A i \in DOMAIN a : a[i] <= Begin(q) + q.close.consumed
  BY DEF Track, PendingOf
<1>3. SentOf(t, q1) /\ Begin(q1) \in Nat
  BY <1>1, ReplayLeft
<1>4. q.typed \in Nat /\ \A i \in DOMAIN a : a[i] \in Nat /\ a[i] <= q.typed
  <2>1. q.typed \in Nat
    BY TermFields
  <2>2. \A i \in DOMAIN a : a[i] < q.typed + 1
    BY <1>1 DEF OrderOf, Below
  <2>3. \A i \in DOMAIN a : a[i] \in Nat
    OBVIOUS
  <2> QED BY <2>1, <2>2, <2>3
<1>5. \A i \in DOMAIN a : a[i] <= Begin(q1)
  BY <1>1, <1>2, <1>4, ReplayLeft
<1>6. AttachedOf(q1, c1, p1 # "off", x1 = t)
  BY DEF AttachedOf, Resolved
<1>7. FreshOf(t, a, <<>>, <<>>, q1)
  BY <1>5, Nothing DEF FreshOf, Resolved
<1>8. OrderOf(t, a, <<>>, <<>>, q1, c1, p1 # "off")
  <2>1. Ordered(t, a, <<>>) /\ Below(t, a, <<>>, q.typed + 1)
    BY <1>1, Nothing DEF OrderOf
  <2> QED BY <2>1 DEF OrderOf, Resolved
<1>9. CountOf(t, a, <<>>, <<>>, q1, p1 # "off", x1 = t, r1)
  BY DEF CountOf
<1>10. PendingOf(a, q1, y1 = "closed")
  BY DEF PendingOf, Pending, Resolved
<1> QED BY <1>3, <1>6, <1>7, <1>8, <1>9, <1>10 DEF Track

\* The close reports no less than what the window no longer holds.
Known(q) == q.close.consumed >= q.base

\* A lone terminal's replay begins right after what was acted on.
LEMMA AloneFinish ==
  ASSUME NEW t, NEW a \in Seq(Nat), NEW s \in Seq(Unit), NEW v \in Seq(Seq(Unit)), NEW q \in TermType,
         NEW c \in BOOLEAN, NEW p, NEW x, NEW r \in Nat, NEW y,
         Track(t, a, s, v, q, c, p, x, r, y), AloneOf(t, a, s, v, q, c, p, x, r),
         Pending(q), q.pc \in {"up", "failed"}, Known(q),
         NEW q1 \in TermType, Resolved(q, q1),
         NEW c1, NEW p1, p1 = "off", NEW x1, x1 # t, NEW r1
  PROVE  AloneOf(t, a, <<>>, <<>>, q1, c1, p1, x1, r1)
<1>8. q.close.consumed >= q.base
  BY DEF Known
<1>1. SentOf(t, q) /\ OrderOf(t, a, s, v, q, c, p # "off")
  BY DEF Track
<1>2. PICK l \in Nat, b \in Nat, n \in Nat, d \in Nat :
        l = Len(a) /\ b = Begin(q) /\ n = q.typed /\ d = q.close.consumed
  BY <1>1, BeginFacts, TermFields, LenProperties
<1>3. l = b + d
  BY <1>2 DEF AloneOf
<1>4. l <= n
  <2>1. CASE l = 0
    BY <2>1
  <2>2. CASE l > 0
    <3>1. l \in DOMAIN a
      BY <1>2, <2>2
    <3>2. a[l] = l
      BY <3>1 DEF AloneOf
    <3>3. a[l] < n + 1
      BY <1>1, <1>2, <3>1 DEF OrderOf, Below
    <3> QED BY <3>2, <3>3
  <2> QED BY <2>1, <2>2
<1>5. Begin(q1) = l
  <2>1. \/ Begin(q1) = b + d
        \/ Begin(q1) = n /\ d < q.base
        \/ Begin(q1) = n /\ b + d > n
    BY <1>1, <1>2, ReplayLeft
  <2>2. ~(d < q.base) /\ ~(b + d > n)
    <3>1. q.base \in Nat
      BY TermFields
    <3> QED BY <1>2, <1>3, <1>4, <1>8, <3>1
  <2> QED BY <1>3, <2>1, <2>2
<1>6. ~Pending(q1) /\ q1.pc = "idle"
  BY DEF Pending, Resolved
<1>7. (\A i \in DOMAIN a : a[i] = i) /\ From(t, <<>>, Len(a))
  BY Nothing DEF AloneOf
<1> QED BY <1>2, <1>5, <1>6, <1>7 DEF AloneOf

\* The invariants of a terminal in a state.
TrackAt(t) == Track(t, acted[t], Ahead, Stream(t), relay[t], cut[t], serving[t].pc, link.term, link.received, tui.pc)
AloneAt(t) == AloneOf(t, acted[t], Ahead, Stream(t), relay[t], cut[t], serving[t].pc, link.term, link.received)
TrackInv == \A t \in Terms : TrackAt(t)
AloneInv == \A t \in Terms : Solo(t) => AloneAt(t)

\* What was acted on are numbers.
LEMMA ActedNat ==
  ASSUME NEW s \in Seq(1..MaxTyped)
  PROVE  s \in Seq(Nat)
<1>1. 1..MaxTyped \subseteq Nat
  BY RelayAssumption
<1>2. PICK k \in Nat : k = Len(s)
  BY LenProperties
<1>3. s \in [1..k -> 1..MaxTyped]
  BY <1>2, LenProperties
<1>4. s \in [1..k -> Nat]
  BY <1>1, <1>3
<1> QED BY <1>4, SeqDef

\* What a connection carries are frames.
LEMMA StreamType ==
  ASSUME NEW f \in Seq(Unit), NEW w \in Seq(Seq(Unit))
  PROVE  (IF f = <<>> THEN <<>> ELSE <<f>>) \o w \in Seq(Seq(Unit))
<1>1. <<>> \in Seq(Seq(Unit)) /\ <<f>> \in Seq(Seq(Unit))
  OBVIOUS
<1> QED BY <1>1

\* The types of what a terminal's invariant speaks of.
LEMMA ViewTypes ==
  ASSUME LinkTypes, NEW t \in Terms
  PROVE  /\ acted[t] \in Seq(Nat) /\ Ahead \in Seq(Unit) /\ Stream(t) \in Seq(Seq(Unit)) /\ relay[t] \in TermType
         /\ cut[t] \in BOOLEAN /\ link.received \in Nat
         /\ link.term \in Terms \cup {Nobody} /\ tui.decoder \in Seq(Unit) /\ link.input \in Seq(Unit)
         /\ serving[t].frame \in Seq(Unit) /\ wire[t] \in Seq(Seq(Unit))
<1>1. acted[t] \in Seq(Nat)
  BY ActedNat DEF LinkTypes
<1>2. /\ tui.decoder \in Seq(Unit) /\ link.input \in Seq(Unit) /\ link.received \in Nat
      /\ link.term \in Terms \cup {Nobody}
  BY DEF LinkTypes, LinkType, TuiType
<1>3. Ahead \in Seq(Unit)
  BY <1>2 DEF Ahead
<1>4. serving[t].frame \in Seq(Unit) /\ wire[t] \in Seq(Seq(Unit))
  BY DEF LinkTypes, ThreadType
<1>5. Stream(t) \in Seq(Seq(Unit))
  BY <1>4, StreamType DEF Stream
<1> QED BY <1>1, <1>2, <1>3, <1>4, <1>5 DEF LinkTypes

\* The same after a step.
LEMMA ViewTypesNext ==
  ASSUME LinkTypes', NEW t \in Terms
  PROVE  /\ acted'[t] \in Seq(Nat) /\ Ahead' \in Seq(Unit) /\ Stream(t)' \in Seq(Seq(Unit)) /\ relay'[t] \in TermType
         /\ cut'[t] \in BOOLEAN /\ link'.received \in Nat
<1>1. acted'[t] \in Seq(Nat)
  BY ActedNat DEF LinkTypes
<1>2. tui'.decoder \in Seq(Unit) /\ link'.input \in Seq(Unit) /\ link'.received \in Nat
  BY DEF LinkTypes, LinkType, TuiType
<1>3. Ahead' \in Seq(Unit)
  BY <1>2 DEF Ahead
<1>4. serving'[t].frame \in Seq(Unit) /\ wire'[t] \in Seq(Seq(Unit))
  BY DEF LinkTypes, ThreadType
<1>5. Stream(t)' \in Seq(Seq(Unit))
  BY <1>4, StreamType DEF Stream
<1> QED BY <1>1, <1>2, <1>3, <1>5 DEF LinkTypes

\* A step that a terminal only loses by.
Loses(t) ==
  /\ acted'[t] = acted[t] /\ Before(Ahead', Ahead) /\ (Stream(t) = <<>> => Stream(t)' = <<>>)
  /\ Lowered(relay[t], relay'[t]) /\ (cut[t] => cut'[t])
  /\ relay'[t].pc = "gone" => cut'[t] \/ relay[t].pc \in {"idle", "gone"}
  /\ serving'[t].pc # "off" => serving[t].pc # "off" /\ Stream(t)' = Stream(t)
  /\ link'.term = t => link.term = t /\ Ahead' = Ahead /\ link'.received = link.received
                       /\ (cut'[t] => relay'[t].pc = "gone")
  /\ Pending(relay[t]) /\ tui.pc = "closed" => tui'.pc = "closed"

\* A terminal that only loses by a step keeps its invariant.
LEMMA TrackLoses ==
  ASSUME LinkTypes, LinkTypes', NEW t \in Terms, TrackAt(t), Loses(t)
  PROVE  TrackAt(t)'
<1>1. PICK a, s, v, q, c, p, x, r, y :
        /\ a = acted[t] /\ s = Ahead /\ v = Stream(t) /\ q = relay[t] /\ c = cut[t]
        /\ p = serving[t].pc /\ x = link.term /\ r = link.received /\ y = tui.pc
  OBVIOUS
<1>2. PICK s1, v1, q1, c1, p1, x1, r1, y1 :
        /\ s1 = Ahead' /\ v1 = Stream(t)' /\ q1 = relay'[t] /\ c1 = cut'[t]
        /\ p1 = serving'[t].pc /\ x1 = link'.term /\ r1 = link'.received /\ y1 = tui'.pc
  OBVIOUS
<1>3. a \in Seq(Nat) /\ s \in Seq(Unit) /\ v \in Seq(Seq(Unit)) /\ q \in TermType /\ c \in BOOLEAN /\ r \in Nat
  BY <1>1, ViewTypes
<1>4. s1 \in Seq(Unit) /\ v1 \in Seq(Seq(Unit)) /\ q1 \in TermType /\ c1 \in BOOLEAN /\ r1 \in Nat
  BY <1>2, ViewTypesNext
<1>5. Track(t, a, s, v, q, c, p, x, r, y)
  BY <1>1 DEF TrackAt
<1>6. /\ Before(s1, s) /\ (v = <<>> => v1 = <<>>) /\ Lowered(q, q1) /\ (c => c1)
      /\ q1.pc = "gone" => c1 \/ q.pc \in {"idle", "gone"}
      /\ p1 # "off" => p # "off" /\ v1 = v
      /\ x1 = t => x = t /\ s1 = s /\ r1 = r /\ (c1 => q1.pc = "gone")
      /\ Pending(q) /\ y = "closed" => y1 = "closed"
  BY <1>1, <1>2 DEF Loses
<1>7. Track(t, a, s1, v1, q1, c1, p1, x1, r1, y1)
  BY <1>3, <1>4, <1>5, <1>6, TrackLess
<1>8. acted'[t] = a
  BY <1>1 DEF Loses
<1> QED BY <1>2, <1>7, <1>8 DEF TrackAt

\* A lone terminal that only loses by a step keeps its invariant.
LEMMA AloneLoses ==
  ASSUME LinkTypes, LinkTypes', NEW t \in Terms, AloneAt(t), Loses(t), serving'[t].pc # "off" => Ahead' = Ahead
  PROVE  AloneAt(t)'
<1>1. PICK a, s, v, q, c, p, x, r :
        /\ a = acted[t] /\ s = Ahead /\ v = Stream(t) /\ q = relay[t] /\ c = cut[t]
        /\ p = serving[t].pc /\ x = link.term /\ r = link.received
  OBVIOUS
<1>2. PICK s1, v1, q1, c1, p1, x1, r1 :
        /\ s1 = Ahead' /\ v1 = Stream(t)' /\ q1 = relay'[t] /\ c1 = cut'[t]
        /\ p1 = serving'[t].pc /\ x1 = link'.term /\ r1 = link'.received
  OBVIOUS
<1>3. a \in Seq(Nat) /\ s \in Seq(Unit) /\ v \in Seq(Seq(Unit)) /\ q \in TermType /\ c \in BOOLEAN /\ r \in Nat
  BY <1>1, ViewTypes
<1>4. s1 \in Seq(Unit) /\ v1 \in Seq(Seq(Unit)) /\ q1 \in TermType /\ c1 \in BOOLEAN /\ r1 \in Nat
  BY <1>2, ViewTypesNext
<1>5. AloneOf(t, a, s, v, q, c, p, x, r)
  BY <1>1 DEF AloneAt
<1>6. /\ Before(s1, s) /\ Lowered(q, q1) /\ (c => c1)
      /\ p1 # "off" => p # "off" /\ v1 = v /\ s1 = s
      /\ x1 = t => x = t /\ s1 = s /\ r1 = r
  BY <1>1, <1>2 DEF Loses
<1>7. AloneOf(t, a, s1, v1, q1, c1, p1, x1, r1)
  BY <1>3, <1>4, <1>5, <1>6, AloneLess
<1>8. acted'[t] = a
  BY <1>1 DEF Loses
<1> QED BY <1>2, <1>7, <1>8 DEF AloneAt

\* Who is alone after a step that attaches nobody was alone before it.
LEMMA SoloBefore ==
  ASSUME NEW t \in Terms, relay[t].overrun => relay'[t].overrun,
         \A u \in Terms \ {t} : NeverAttached(u)' => NeverAttached(u), Solo(t)'
  PROVE  Solo(t)
  BY DEF Solo

\* A step that every terminal only loses by, and that takes nothing away from the
\* one terminal that was ever attached while its connection lasts.
LEMMA AllLose ==
  ASSUME LinkTypes, LinkTypes', TrackInv, AloneInv, OnePending, \A t \in Terms : Loses(t),
         \A t \in Terms : NeverAttached(t)' => NeverAttached(t),
         \A t \in Terms : Solo(t) /\ serving'[t].pc # "off" => Ahead' = Ahead
  PROVE  TrackInv' /\ AloneInv' /\ OnePending'
<1>1. TrackInv'
  BY TrackLoses DEF TrackInv
<1>2. AloneInv'
  <2> SUFFICES ASSUME NEW t \in Terms, Solo(t)'
               PROVE  AloneAt(t)'
    BY DEF AloneInv
  <2>1. Solo(t)
    BY SoloBefore DEF Loses, Lowered
  <2> QED BY <2>1, AloneLoses DEF AloneInv
<1>3. \A t \in Terms : Pending(relay'[t]) => Pending(relay[t])
  BY DEF Loses, Lowered, Pending
<1>4. OnePending'
  BY <1>3 DEF OnePending
<1> QED BY <1>1, <1>2, <1>4

-----------------------------------------------------------------------------
(* What each action changes, and that it preserves the invariant.           *)

\* The other terminals stay as they are.
Others(t) ==
  /\ \A u \in Terms \ {t} : serving'[u] = serving[u] /\ wire'[u] = wire[u]
                            /\ cut'[u] = cut[u] /\ relay'[u] = relay[u]

\* What `connect` and the locked part of `serve` change.
LEMMA AttachEffect ==
  ASSUME LinkTypes, NEW t \in Terms, Attach(t)
  PROVE  /\ LinkTypes' /\ Others(t) /\ UNCHANGED <<tui, acted>>
         /\ link'.term = t /\ link'.input = <<>> /\ link'.received = 0
         /\ serving'[t].pc = "welcomed" /\ serving'[t].frame = <<>>
         /\ wire'[t] = <<>> /\ cut'[t] = FALSE
         /\ relay'[t] \in TermType
         /\ relay[t].pc = "idle" /\ relay'[t].pc = "connected" /\ relay'[t].sent = <<>> /\ relay'[t].base = 0
         /\ relay'[t].close.handoff = FALSE
         /\ relay'[t].typed = relay[t].typed /\ relay'[t].replay = relay[t].replay
         /\ relay'[t].overrun = relay[t].overrun /\ link.term = Nobody
<1> DEFINE th == [NoThread EXCEPT !.pc = "welcomed"]
           q == [relay[t] EXCEPT !.pc = "connected", !.sent = <<>>, !.base = 0, !.close = NoClose]
<1>1. link \in LinkType /\ relay[t] \in TermType
  BY DEF LinkTypes
<1>2. th \in ThreadType /\ th.pc = "welcomed" /\ th.frame = <<>>
  BY NewTypes DEF NoThread, ThreadType
<1>3. /\ q \in TermType /\ q.pc = "connected" /\ q.sent = <<>> /\ q.base = 0 /\ q.close = NoClose
      /\ q.typed = relay[t].typed /\ q.replay = relay[t].replay /\ q.overrun = relay[t].overrun
  BY <1>1, NewTypes DEF TermType
<1>4. link' = [link EXCEPT !.term = t, !.gen = link.gen + 1, !.input = <<>>, !.received = 0]
  BY DEF Attach
<1>5. link' \in LinkType /\ link'.term = t /\ link'.input = <<>> /\ link'.received = 0
  <2>1. PICK g : g = link.gen + 1
    OBVIOUS
  <2>2. g \in Nat
    BY <1>1, <2>1 DEF LinkType
  <2>3. link' = [link EXCEPT !.term = t, !.gen = g, !.input = <<>>, !.received = 0]
    BY <1>4, <2>1
  <2> QED BY <1>1, <2>2, <2>3, NewTypes DEF LinkType
<1>6. /\ serving' = [serving EXCEPT ![t] = th] /\ wire' = [wire EXCEPT ![t] = <<>>]
      /\ cut' = [cut EXCEPT ![t] = FALSE] /\ UNCHANGED <<tui, acted>>
      /\ relay[t].pc = "idle" /\ link.term = Nobody
  BY DEF Attach
<1>7. relay' = [relay EXCEPT ![t] = q]
  BY DEF Attach, LinkTypes, TermType
<1> HIDE DEF th, q
<1>8. /\ serving' \in [Terms -> ThreadType] /\ serving'[t] = th
      /\ \A u \in Terms \ {t} : serving'[u] = serving[u]
  BY <1>2, <1>6, Put DEF LinkTypes
<1>9. /\ wire' \in [Terms -> Seq(Seq(Unit))] /\ wire'[t] = <<>>
      /\ \A u \in Terms \ {t} : wire'[u] = wire[u]
  BY <1>6, NewTypes, Put DEF LinkTypes
<1>10. /\ cut' \in [Terms -> BOOLEAN] /\ cut'[t] = FALSE
       /\ \A u \in Terms \ {t} : cut'[u] = cut[u]
  BY <1>6, Put DEF LinkTypes
<1>11. /\ relay' \in [Terms -> TermType] /\ relay'[t] = q
       /\ \A u \in Terms \ {t} : relay'[u] = relay[u]
  BY <1>3, <1>7, Put DEF LinkTypes
<1>12. LinkTypes'
  BY <1>5, <1>6, <1>8, <1>9, <1>10, <1>11 DEF LinkTypes
<1>13. NoClose.handoff = FALSE
  BY DEF NoClose
<1> QED BY <1>2, <1>3, <1>5, <1>6, <1>8, <1>9, <1>10, <1>11, <1>12, <1>13 DEF Others

\* A relay that only changes its place.
LEMMA RelayPcEffect ==
  ASSUME LinkTypes, NEW t \in Terms, NEW p \in {"idle", "connected", "up", "failed", "gone"},
         relay' = [relay EXCEPT ![t].pc = p]
  PROVE  /\ relay' \in [Terms -> TermType] /\ \A u \in Terms \ {t} : relay'[u] = relay[u]
         /\ relay'[t] \in TermType /\ relay'[t].pc = p /\ relay'[t].sent = relay[t].sent
         /\ relay'[t].base = relay[t].base /\ relay'[t].close = relay[t].close
         /\ relay'[t].typed = relay[t].typed /\ relay'[t].replay = relay[t].replay
         /\ relay'[t].overrun = relay[t].overrun
<1> DEFINE q == [relay[t] EXCEPT !.pc = p]
<1>1. relay[t] \in TermType
  BY DEF LinkTypes
<1>2. /\ q \in TermType /\ q.pc = p /\ q.sent = relay[t].sent /\ q.base = relay[t].base
      /\ q.close = relay[t].close /\ q.typed = relay[t].typed /\ q.replay = relay[t].replay
      /\ q.overrun = relay[t].overrun
  BY <1>1 DEF TermType
<1>3. relay' = [relay EXCEPT ![t] = q]
  BY DEF LinkTypes
<1> HIDE DEF q
<1>4. relay \in [Terms -> TermType] /\ q \in TermType
  BY <1>2 DEF LinkTypes
<1>5. relay' \in [Terms -> TermType] /\ relay'[t] = q /\ \A u \in Terms \ {t} : relay'[u] = relay[u]
  BY <1>3, <1>4, Put
<1> QED BY <1>2, <1>5

\* What a refused connection changes.
LEMMA RefusedEffect ==
  ASSUME LinkTypes, NEW t \in Terms, Refused(t)
  PROVE  LinkTypes' /\ relay[t].pc = "idle"
<1>1. relay' \in [Terms -> TermType]
  BY RelayPcEffect DEF Refused
<1> QED BY <1>1 DEF Refused, LinkTypes

\* What a terminal that goes away changes.
LEMMA RelayGoneEffect ==
  ASSUME LinkTypes, NEW t \in Terms, RelayGone(t)
  PROVE  /\ LinkTypes' /\ cut'[t] = TRUE /\ \A u \in Terms \ {t} : cut'[u] = cut[u]
<1>1. relay' \in [Terms -> TermType]
  BY RelayPcEffect DEF RelayGone
<1>2. cut' = [cut EXCEPT ![t] = TRUE]
  BY DEF RelayGone
<1>3. cut' \in [Terms -> BOOLEAN] /\ cut'[t] = TRUE /\ \A u \in Terms \ {t} : cut'[u] = cut[u]
  BY <1>2, Put DEF LinkTypes
<1> QED BY <1>1, <1>3 DEF RelayGone, LinkTypes

\* What sending the replay changes.
LEMMA SendReplayEffect ==
  ASSUME LinkTypes, NEW t \in Terms, SendReplay(t), relay[t].replay # <<>>, ~cut[t]
  PROVE  /\ LinkTypes' /\ Others(t) /\ UNCHANGED <<link, serving, cut, tui, acted>>
         /\ wire'[t] = Append(wire[t], relay[t].replay)
         /\ relay'[t].pc = "up" /\ relay'[t].replay = <<>> /\ relay'[t].typed = relay[t].typed
         /\ relay'[t].close = relay[t].close /\ relay'[t].overrun = relay[t].overrun
         /\ relay'[t] = Record([relay[t] EXCEPT !.pc = "up", !.replay = <<>>], relay[t].replay)
<1> DEFINE q0 == [relay[t] EXCEPT !.pc = "up", !.replay = <<>>]
           q == Record(q0, relay[t].replay)
           w == Append(wire[t], relay[t].replay)
<1>1. relay[t] \in TermType /\ wire[t] \in Seq(Seq(Unit))
  BY DEF LinkTypes
<1>2. q0 \in TermType /\ q0.pc = "up" /\ q0.replay = <<>> /\ q0.typed = relay[t].typed
      /\ q0.close = relay[t].close /\ q0.overrun = relay[t].overrun
  BY <1>1, NewTypes DEF TermType
<1>3. relay[t].replay \in Seq(Unit) /\ q0.sent \in Seq(Unit)
  BY <1>1, <1>2, TermFields
<1>4. wire' = [wire EXCEPT ![t] = w] /\ relay' = [relay EXCEPT ![t] = q]
      /\ UNCHANGED <<link, serving, cut, tui, acted>>
  BY DEF SendReplay
<1> HIDE DEF q0
<1>5. PICK k \in Nat, l \in Nat : k = Len(q0.sent) /\ l = Len(relay[t].replay)
  BY <1>3, LenProperties
<1>6. q \in TermType /\ q.pc = "up" /\ q.replay = <<>> /\ q.typed = relay[t].typed
      /\ q.close = relay[t].close /\ q.overrun = relay[t].overrun
  <2>1. 0 \in Int
    OBVIOUS
  <2> QED BY <1>2, <1>3, <1>5, <2>1, RecordFields
<1>7. w \in Seq(Seq(Unit))
  BY <1>1, <1>3
<1> HIDE DEF q, w
<1>8. relay' \in [Terms -> TermType] /\ relay'[t] = q /\ \A u \in Terms \ {t} : relay'[u] = relay[u]
  BY <1>4, <1>6, Put DEF LinkTypes
<1>9. wire' \in [Terms -> Seq(Seq(Unit))] /\ wire'[t] = w /\ \A u \in Terms \ {t} : wire'[u] = wire[u]
  BY <1>4, <1>7, Put DEF LinkTypes
<1>10. LinkTypes'
  BY <1>4, <1>8, <1>9 DEF LinkTypes
<1> QED BY <1>4, <1>6, <1>8, <1>9, <1>10 DEF Others, q, w, q0

\* What typing a unit changes.
LEMMA TypeEffect ==
  ASSUME LinkTypes, NEW t \in Terms, Type(t)
  PROVE  /\ LinkTypes' /\ Others(t) /\ UNCHANGED <<link, serving, cut, tui, acted>>
         /\ relay[t].pc = "up" /\ relay[t].typed + 1 \in 1..MaxTyped
         /\ wire'[t] = IF cut[t] THEN wire[t] ELSE Append(wire[t], <<<<t, relay[t].typed + 1>>>>)
         /\ relay'[t].pc = (IF cut[t] THEN "failed" ELSE "up")
         /\ relay'[t].replay = relay[t].replay /\ relay'[t].typed = relay[t].typed + 1
         /\ relay'[t].close = relay[t].close /\ relay'[t].overrun = relay[t].overrun
         /\ \A k \in Nat, m \in Int : k = Len(relay[t].sent) =>
              \E o \in 0..(k + 1) :
                /\ Len(relay'[t].sent) = (k + 1) - o /\ relay'[t].base = relay[t].base + o
                /\ From(t, relay[t].sent, m) /\ m + k = relay[t].typed => From(t, relay'[t].sent, m + o)
<1> DEFINE n == relay[t].typed + 1
           p == IF cut[t] THEN "failed" ELSE "up"
           q0 == [relay[t] EXCEPT !.typed = n, !.pc = p]
           units == <<<<t, n>>>>
           q == Record(q0, units)
           w == Append(wire[t], units)
<1>1. relay[t] \in TermType /\ wire[t] \in Seq(Seq(Unit)) /\ cut[t] \in BOOLEAN
  BY DEF LinkTypes
<1>2. relay[t].typed \in Nat /\ MaxTyped \in Nat /\ relay[t].typed < MaxTyped /\ relay[t].pc = "up"
  BY <1>1, TermFields, RelayAssumption DEF Type
<1>3. n \in 1..MaxTyped /\ n \in 0..MaxTyped
  BY <1>2
<1>4. <<t, n>> \in Unit
  BY <1>3 DEF Unit
<1>5. units \in Seq(Unit) /\ Len(units) = 1
  BY <1>4
<1>6. relay' = [relay EXCEPT ![t] = q] /\ UNCHANGED <<link, serving, cut, tui, acted>>
      /\ wire' = IF cut[t] THEN wire ELSE [wire EXCEPT ![t] = w]
  <2>1. UNCHANGED <<link, serving, cut, tui, acted>>
    BY DEF Type
  <2>2. wire' = IF cut[t] THEN wire ELSE [wire EXCEPT ![t] = w]
    BY DEF Type
  <2>3. relay' = [relay EXCEPT ![t] = q]
    BY DEF Type
  <2> QED BY <2>1, <2>2, <2>3
<1>7. p \in {"up", "failed"}
  OBVIOUS
<1> HIDE DEF n, p
<1>8. q0 \in TermType /\ q0.pc = p /\ q0.replay = relay[t].replay /\ q0.typed = n
      /\ q0.close = relay[t].close /\ q0.overrun = relay[t].overrun /\ q0.sent = relay[t].sent
      /\ q0.base = relay[t].base
  BY <1>1, <1>3, <1>7 DEF TermType
<1> HIDE DEF q0, units
<1>9. q0.sent \in Seq(Unit)
  BY <1>8, TermFields
<1>10. PICK k \in Nat : k = Len(q0.sent)
  BY <1>9, LenProperties
<1>11. q \in TermType /\ q.pc = p /\ q.replay = relay[t].replay /\ q.typed = n
      /\ q.close = relay[t].close /\ q.overrun = relay[t].overrun
  <2>1. 0 \in Int /\ 1 \in Nat
    OBVIOUS
  <2> QED BY <1>5, <1>8, <1>10, <2>1, RecordFields
<1>12. ASSUME NEW m \in Int
       PROVE  \E o \in 0..(k + 1) :
                /\ Len(q.sent) = (k + 1) - o /\ q.base = relay[t].base + o
                /\ From(t, relay[t].sent, m) /\ m + k = relay[t].typed => From(t, q.sent, m + o)
  <2>1. PICK o \in 0..(k + 1) :
                /\ Len(q.sent) = (k + 1) - o /\ q.base = q0.base + o
                /\ From(t, q0.sent, m) /\ From(t, units, m + k) => From(t, q.sent, m + o)
    <3>1. 1 \in Nat
      OBVIOUS
    <3> QED BY <1>5, <1>8, <1>10, <3>1, RecordFields, ZenonT(60)
  <2>2. m + k = relay[t].typed => From(t, units, m + k)
    BY <1>2 DEF From, units, n
  <2> QED BY <1>8, <2>1, <2>2
<1>13. w \in Seq(Seq(Unit))
  BY <1>1, <1>5
<1> HIDE DEF q, w
<1>14. relay' \in [Terms -> TermType] /\ relay'[t] = q /\ \A u \in Terms \ {t} : relay'[u] = relay[u]
  BY <1>6, <1>11, Put DEF LinkTypes
<1>15. /\ wire' \in [Terms -> Seq(Seq(Unit))] /\ wire'[t] = (IF cut[t] THEN wire[t] ELSE w)
       /\ \A u \in Terms \ {t} : wire'[u] = wire[u]
  <2>1. CASE cut[t]
    BY <1>6, <2>1 DEF LinkTypes
  <2>2. CASE ~cut[t]
    BY <1>6, <1>13, <2>2, Put DEF LinkTypes
  <2> QED BY <2>1, <2>2
<1>16. LinkTypes'
  BY <1>6, <1>14, <1>15 DEF LinkTypes
<1>17. n = relay[t].typed + 1 /\ p = (IF cut[t] THEN "failed" ELSE "up") /\ w = Append(wire[t], units)
       /\ units = <<<<t, n>>>>
  BY DEF n, p, w, units
<1>18. \A j \in Nat, m \in Int : j = Len(relay[t].sent) =>
              \E o \in 0..(j + 1) :
                /\ Len(relay'[t].sent) = (j + 1) - o /\ relay'[t].base = relay[t].base + o
                /\ From(t, relay[t].sent, m) /\ m + j = relay[t].typed => From(t, relay'[t].sent, m + o)
  BY <1>8, <1>10, <1>12, <1>14
<1>19. Others(t)
  BY <1>6, <1>14, <1>15 DEF Others
<1> QED BY <1>2, <1>3, <1>6, <1>11, <1>14, <1>15, <1>16, <1>17, <1>18, <1>19

\* One thread changes.
LEMMA ServingEffect ==
  ASSUME LinkTypes, NEW t \in Terms, NEW th \in ThreadType, serving' = [serving EXCEPT ![t] = th]
  PROVE  /\ serving' \in [Terms -> ThreadType] /\ serving'[t] = th
         /\ \A u \in Terms \ {t} : serving'[u] = serving[u]
<1>1. serving \in [Terms -> ThreadType]
  BY DEF LinkTypes
<1> QED BY <1>1, Put

\* What reading the generation changes.
LEMMA ReadGenerationEffect ==
  ASSUME LinkTypes, NEW t \in Terms, ReadGeneration(t)
  PROVE  /\ LinkTypes' /\ \A u \in Terms \ {t} : serving'[u] = serving[u]
         /\ serving[t].pc = "welcomed" /\ serving'[t].pc = "reading" /\ serving'[t].frame = serving[t].frame
<1> DEFINE th == [serving[t] EXCEPT !.pc = "reading", !.gen = link.gen]
<1>1. serving[t] \in ThreadType /\ link.gen \in Nat
  BY DEF LinkTypes, LinkType
<1>2. th \in ThreadType /\ th.pc = "reading" /\ th.frame = serving[t].frame
  BY <1>1 DEF ThreadType
<1>3. serving' = [serving EXCEPT ![t] = th]
  BY DEF ReadGeneration, LinkTypes, ThreadType
<1> HIDE DEF th
<1> QED BY <1>2, <1>3, ServingEffect DEF ReadGeneration, LinkTypes

\* What reading a frame changes.
LEMMA ReadFrameEffect ==
  ASSUME LinkTypes, NEW t \in Terms, ReadFrame(t)
  PROVE  /\ LinkTypes' /\ \A u \in Terms \ {t} : serving'[u] = serving[u] /\ wire'[u] = wire[u]
         /\ serving[t].pc = "reading" /\ serving'[t].pc = "holding" /\ serving'[t].frame = Head(wire[t])
         /\ wire[t] # <<>> /\ wire'[t] = Tail(wire[t]) /\ UNCHANGED <<link, cut, relay, tui, acted>>
<1> DEFINE th == [serving[t] EXCEPT !.pc = "holding", !.frame = Head(wire[t])]
<1>1. serving[t] \in ThreadType /\ wire[t] \in Seq(Seq(Unit)) /\ wire[t] # <<>>
  BY DEF LinkTypes, ReadFrame
<1>2. Head(wire[t]) \in Seq(Unit) /\ Tail(wire[t]) \in Seq(Seq(Unit))
  BY <1>1
<1>3. th \in ThreadType /\ th.pc = "holding" /\ th.frame = Head(wire[t])
  BY <1>1, <1>2 DEF ThreadType
<1>4. serving' = [serving EXCEPT ![t] = th]
  BY DEF ReadFrame, LinkTypes, ThreadType
<1>5. wire' = [wire EXCEPT ![t] = Tail(wire[t])]
  BY DEF ReadFrame
<1>6. wire' \in [Terms -> Seq(Seq(Unit))] /\ wire'[t] = Tail(wire[t])
      /\ \A u \in Terms \ {t} : wire'[u] = wire[u]
  <2>1. wire \in [Terms -> Seq(Seq(Unit))]
    BY DEF LinkTypes
  <2> QED BY <1>2, <1>5, <2>1, Put
<1> HIDE DEF th
<1>7. /\ serving' \in [Terms -> ThreadType] /\ serving'[t] = th
      /\ \A u \in Terms \ {t} : serving'[u] = serving[u]
  BY <1>3, <1>4, ServingEffect
<1> QED BY <1>1, <1>3, <1>6, <1>7 DEF ReadFrame, LinkTypes

\* What delivering a frame changes.
LEMMA DeliverEffect ==
  ASSUME LinkTypes, NEW t \in Terms, Deliver(t)
  PROVE  /\ LinkTypes' /\ \A u \in Terms \ {t} : serving'[u] = serving[u]
         /\ serving[t].pc = "holding" /\ serving'[t].pc = "reading" /\ serving'[t].frame = <<>>
         /\ link'.input = link.input \o serving[t].frame
         /\ link'.received = link.received + Len(serving[t].frame) /\ link'.term = link.term
         /\ UNCHANGED <<wire, cut, relay, tui, acted>>
<1> DEFINE th == [serving[t] EXCEPT !.pc = "reading", !.frame = <<>>]
<1>1. serving[t] \in ThreadType /\ link \in LinkType
  BY DEF LinkTypes
<1>2. th \in ThreadType /\ th.pc = "reading" /\ th.frame = <<>>
  BY <1>1, NewTypes DEF ThreadType
<1>3. serving' = [serving EXCEPT ![t] = th]
  BY DEF Deliver, LinkTypes, ThreadType
<1>4. serving[t].frame \in Seq(Unit) /\ link.input \in Seq(Unit) /\ link.received \in Nat
  BY <1>1 DEF ThreadType, LinkType
<1>5. PICK n, q : n = link.received + Len(serving[t].frame) /\ q = link.input \o serving[t].frame
  OBVIOUS
<1>6. n \in Nat /\ q \in Seq(Unit)
  BY <1>4, <1>5, LenProperties
<1>7. link' = [link EXCEPT !.received = n, !.input = q]
  BY <1>5 DEF Deliver
<1>8. link' \in LinkType /\ link'.received = n /\ link'.input = q /\ link'.term = link.term
  BY <1>1, <1>6, <1>7 DEF LinkType
<1> HIDE DEF th
<1>9. /\ serving' \in [Terms -> ThreadType] /\ serving'[t] = th
      /\ \A u \in Terms \ {t} : serving'[u] = serving[u]
  BY <1>2, <1>3, ServingEffect
<1> QED BY <1>2, <1>5, <1>8, <1>9 DEF Deliver, LinkTypes

\* What the end of a connection's thread changes.
LEMMA EndServeEffect ==
  ASSUME LinkTypes, NEW t \in Terms, EndServe(t)
  PROVE  /\ LinkTypes' /\ \A u \in Terms \ {t} : serving'[u] = serving[u]
         /\ serving[t].pc = "reading" /\ cut[t] /\ serving'[t].pc = "off" /\ serving'[t].frame = <<>>
         /\ \/ link' = link
            \/ link'.term = Nobody /\ link'.input = <<>> /\ link'.received = link.received
         /\ UNCHANGED <<wire, cut, relay, tui, acted>>
<1>1. link \in LinkType
  BY DEF LinkTypes
<1>2. [link EXCEPT !.term = Nobody, !.input = <<>>] \in LinkType
  BY <1>1, NewTypes DEF LinkType
<1>3. link' \in LinkType
  BY <1>1, <1>2 DEF EndServe
<1>4. \/ link' = link
      \/ link'.term = Nobody /\ link'.input = <<>> /\ link'.received = link.received
  BY <1>1 DEF EndServe, LinkType
<1>5. /\ serving' \in [Terms -> ThreadType] /\ serving'[t] = NoThread
      /\ \A u \in Terms \ {t} : serving'[u] = serving[u]
  BY NewTypes, ServingEffect DEF EndServe
<1>6. NoThread.pc = "off" /\ NoThread.frame = <<>>
  BY DEF NoThread
<1> QED BY <1>3, <1>4, <1>5, <1>6 DEF EndServe, LinkTypes

\* What a terminal that does not keep up changes.
LEMMA WriteOutputFailsEffect ==
  ASSUME LinkTypes, WriteOutputFails
  PROVE  /\ LinkTypes' /\ link.term \in Terms /\ cut'[link.term] = TRUE
         /\ \A u \in Terms \ {link.term} : cut'[u] = cut[u]
         /\ link'.term = Nobody /\ link'.input = link.input /\ link'.received = link.received
         /\ UNCHANGED <<serving, wire, relay, tui, acted>>
<1>1. link \in LinkType /\ cut \in [Terms -> BOOLEAN]
  BY DEF LinkTypes
<1>2. link.term \in Terms
  BY <1>1 DEF WriteOutputFails, LinkType
<1>3. link' \in LinkType /\ link'.term = Nobody /\ link'.input = link.input /\ link'.received = link.received
  BY <1>1 DEF WriteOutputFails, LinkType
<1>4. cut' \in [Terms -> BOOLEAN] /\ cut'[link.term] = TRUE /\ \A u \in Terms \ {link.term} : cut'[u] = cut[u]
  BY <1>1, <1>2 DEF WriteOutputFails
<1> QED BY <1>2, <1>3, <1>4 DEF WriteOutputFails, LinkTypes

\* What entering and polling change.
LEMMA TuiPcEffect ==
  ASSUME LinkTypes, EnterRemote \/ PollGeneration
  PROVE  /\ LinkTypes' /\ tui'.decoder = tui.decoder /\ tui'.handoff = tui.handoff
         /\ tui'.pc # "settling" /\ tui.pc # "closed" /\ tui'.pc # "closed"
         /\ tui'.pc = "waiting" => tui.decoder = <<>>
         /\ UNCHANGED <<link, serving, wire, cut, relay, acted>>
<1>1. tui \in TuiType /\ link.gen \in Nat
  BY DEF LinkTypes, LinkType
<1>2. UNCHANGED <<link, serving, wire, cut, relay, acted>>
  BY DEF EnterRemote, PollGeneration, TuiSet
<1>3. CASE EnterRemote
  BY <1>1, <1>2, <1>3 DEF EnterRemote, TuiSet, TuiType, LinkTypes
<1>4. CASE PollGeneration /\ link.gen # tui.gen
  BY <1>1, <1>2, <1>4 DEF PollGeneration, TuiSet, TuiType, LinkTypes
<1>5. CASE PollGeneration /\ link.gen = tui.gen
  BY <1>1, <1>2, <1>5 DEF PollGeneration, TuiSet, TuiType, LinkTypes
<1> QED BY <1>3, <1>4, <1>5

\* What acting on a unit changes.
LEMMA ActEffect ==
  ASSUME LinkTypes, NEW handler, Act(handler)
  PROVE  /\ LinkTypes' /\ tui.pc = "loop" /\ tui'.pc = "loop" /\ tui.decoder # <<>> /\ tui'.decoder = Tail(tui.decoder)
         /\ \E t \in Terms, n \in 1..MaxTyped :
              /\ Head(tui.decoder) = <<t, n>> /\ acted'[t] = Append(acted[t], n)
              /\ \A u \in Terms \ {t} : acted'[u] = acted[u]
         /\ UNCHANGED <<link, serving, wire, cut, relay>>
<1>1. tui \in TuiType /\ tui.decoder \in Seq(Unit) /\ tui.decoder # <<>> /\ tui.pc = "loop"
  BY DEF LinkTypes, TuiType, Act
<1>2. Head(tui.decoder) \in Unit /\ Tail(tui.decoder) \in Seq(Unit)
  BY <1>1
<1>3. PICK t \in Terms, n \in 1..MaxTyped : Head(tui.decoder) = <<t, n>>
  BY <1>2 DEF Unit
<1>4. acted' = [acted EXCEPT ![t] = Append(acted[t], n)]
  <2>1. Head(tui.decoder)[1] = t /\ Head(tui.decoder)[2] = n
    BY <1>3
  <2>2. acted' = [acted EXCEPT ![Head(tui.decoder)[1]] = Append(acted[Head(tui.decoder)[1]], Head(tui.decoder)[2])]
    BY DEF Act
  <2> QED BY <2>1, <2>2
<1>5. Append(acted[t], n) \in Seq(1..MaxTyped)
  BY DEF LinkTypes
<1>6. acted' \in [Terms -> Seq(1..MaxTyped)] /\ acted'[t] = Append(acted[t], n)
      /\ \A u \in Terms \ {t} : acted'[u] = acted[u]
  <2>1. acted \in [Terms -> Seq(1..MaxTyped)]
    BY DEF LinkTypes
  <2> QED BY <1>4, <1>5, <2>1, Put
<1>7. PICK d, qt, h : /\ d = Tail(tui.decoder) /\ qt = (tui.quitting \/ handler # "key")
                      /\ h = (tui.handoff \/ handler = "switch")
  OBVIOUS
<1>8. qt \in BOOLEAN /\ h \in BOOLEAN /\ d \in Seq(Unit)
  BY <1>2, <1>7
<1>9. tui' = [tui EXCEPT !.decoder = d, !.quitting = qt, !.handoff = h]
  BY <1>7 DEF Act, TuiSet
<1>10. tui' \in TuiType /\ tui'.decoder = d /\ tui'.pc = tui.pc
  BY <1>1, <1>8, <1>9 DEF TuiType
<1>11. UNCHANGED <<link, serving, wire, cut, relay>>
  BY DEF Act, TuiSet
<1>12. LinkTypes'
  BY <1>6, <1>10, <1>11 DEF LinkTypes
<1> QED BY <1>1, <1>3, <1>6, <1>7, <1>10, <1>11, <1>12

\* What taking the link's input changes.
LEMMA WaitInputEffect ==
  ASSUME LinkTypes, WaitInput
  PROVE  /\ LinkTypes' /\ tui.pc = "waiting" /\ tui'.pc = "loop" /\ tui'.decoder = link.input
         /\ link'.input = <<>> /\ link'.term = link.term /\ link'.received = link.received
         /\ UNCHANGED <<serving, wire, cut, relay, acted>>
<1>1. tui \in TuiType /\ link \in LinkType /\ link.input \in Seq(Unit)
  BY DEF LinkTypes, LinkType
<1>2. tui' \in TuiType /\ tui'.pc = "loop" /\ tui'.decoder = link.input
  BY <1>1 DEF WaitInput, TuiSet, TuiType
<1>3. link' \in LinkType /\ link'.input = <<>> /\ link'.term = link.term /\ link'.received = link.received
  BY <1>1, NewTypes DEF WaitInput, LinkType
<1> QED BY <1>2, <1>3 DEF WaitInput, TuiSet, LinkTypes

\* What leaving the event loop changes.
LEMMA LeaveLoopEffect ==
  ASSUME LinkTypes, LeaveLoop
  PROVE  /\ LinkTypes' /\ tui.pc # "closed" /\ tui'.pc = "settling" /\ tui'.decoder = tui.decoder /\ tui'.handoff = tui.handoff
         /\ tui'.unconsumed = IF tui.handoff THEN Len(tui.decoder) ELSE 0
         /\ UNCHANGED <<link, serving, wire, cut, relay, acted>>
<1>1. tui \in TuiType /\ tui.decoder \in Seq(Unit)
  BY DEF LinkTypes, TuiType
<1>2. PICK n : n = IF tui.handoff THEN Len(tui.decoder) ELSE 0
  OBVIOUS
<1>3. n \in Nat
  BY <1>1, <1>2, LenProperties
<1>4. tui' = [tui EXCEPT !.pc = "settling", !.unconsumed = n]
  BY <1>2 DEF LeaveLoop, TuiSet
<1>5. tui' \in TuiType /\ tui'.pc = "settling" /\ tui'.decoder = tui.decoder /\ tui'.unconsumed = n
      /\ tui'.handoff = tui.handoff
  BY <1>1, <1>3, <1>4 DEF TuiType
<1>6. tui.pc # "closed"
  BY DEF LeaveLoop
<1> QED BY <1>2, <1>5, <1>6 DEF LeaveLoop, TuiSet, LinkTypes

\* What a relay with no replay, or no connection for it, changes.
LEMMA SendNothingEffect ==
  ASSUME LinkTypes, NEW t \in Terms, SendReplay(t), relay[t].replay = <<>> \/ cut[t]
  PROVE  /\ LinkTypes' /\ UNCHANGED <<link, serving, wire, cut, tui, acted>> /\ relay[t].pc = "connected"
         /\ \A u \in Terms \ {t} : relay'[u] = relay[u]
         /\ relay'[t].pc = (IF relay[t].replay = <<>> THEN "up" ELSE "gone")
         /\ relay'[t].sent = relay[t].sent /\ relay'[t].base = relay[t].base /\ relay'[t].close = relay[t].close
         /\ relay'[t].typed = relay[t].typed /\ relay'[t].replay = relay[t].replay
         /\ relay'[t].overrun = relay[t].overrun
<1>1. UNCHANGED <<link, serving, wire, cut, tui, acted>> /\ relay[t].pc = "connected"
  BY DEF SendReplay
<1>2. PICK p : p = IF relay[t].replay = <<>> THEN "up" ELSE "gone"
  OBVIOUS
<1>3. relay' = [relay EXCEPT ![t].pc = p] /\ p \in {"idle", "connected", "up", "failed", "gone"}
  BY <1>2 DEF SendReplay
<1>4. /\ relay' \in [Terms -> TermType] /\ \A u \in Terms \ {t} : relay'[u] = relay[u]
      /\ relay'[t].pc = p /\ relay'[t].sent = relay[t].sent
      /\ relay'[t].base = relay[t].base /\ relay'[t].close = relay[t].close
      /\ relay'[t].typed = relay[t].typed /\ relay'[t].replay = relay[t].replay
      /\ relay'[t].overrun = relay[t].overrun
  BY <1>3, RelayPcEffect
<1>5. LinkTypes'
  BY <1>1, <1>4 DEF LinkTypes
<1> QED BY <1>1, <1>2, <1>4, <1>5

\* What the exit of a relay changes.
LEMMA FinishGoneEffect ==
  ASSUME LinkTypes, NEW t \in Terms, Finish(t), ~relay[t].close.handoff \/ runtimes = MaxRuntimes
  PROVE  /\ LinkTypes' /\ UNCHANGED <<link, serving, wire, cut, tui, acted>> /\ cut[t]
         /\ \A u \in Terms \ {t} : relay'[u] = relay[u]
         /\ relay'[t].pc = "gone"
         /\ relay'[t].sent = relay[t].sent /\ relay'[t].base = relay[t].base /\ relay'[t].close = relay[t].close
         /\ relay'[t].typed = relay[t].typed /\ relay'[t].replay = relay[t].replay
         /\ relay'[t].overrun = relay[t].overrun
<1>1. ~(relay[t].close.handoff /\ runtimes < MaxRuntimes)
  BY RelayAssumption
<1>2. UNCHANGED <<link, serving, wire, cut, tui, acted>> /\ cut[t] /\ relay' = [relay EXCEPT ![t].pc = "gone"]
  BY <1>1 DEF Finish
<1>4. /\ relay' \in [Terms -> TermType] /\ \A u \in Terms \ {t} : relay'[u] = relay[u]
      /\ relay'[t].pc = "gone" /\ relay'[t].sent = relay[t].sent
      /\ relay'[t].base = relay[t].base /\ relay'[t].close = relay[t].close
      /\ relay'[t].typed = relay[t].typed /\ relay'[t].replay = relay[t].replay
      /\ relay'[t].overrun = relay[t].overrun
  BY <1>2, RelayPcEffect
<1>5. LinkTypes'
  BY <1>2, <1>4 DEF LinkTypes
<1> QED BY <1>2, <1>4, <1>5

\* What the handoff to the next runtime changes.
LEMMA FinishEffect ==
  ASSUME LinkTypes, NEW t \in Terms, Finish(t), relay[t].close.handoff, runtimes # MaxRuntimes
  PROVE  /\ LinkTypes' /\ UNCHANGED acted /\ relay[t].pc \in {"up", "failed"}
         /\ \A u \in Terms \ {t} : relay'[u] = relay[u]
         /\ relay'[t] \in TermType /\ Resolved(relay[t], relay'[t])
         /\ relay'[t].overrun = (relay[t].overrun \/ ~(relay[t].close.consumed >= relay[t].base))
         /\ link'.term = Nobody /\ link'.input = <<>> /\ tui'.decoder = <<>> /\ tui' = NewTui
         /\ \A u \in Terms : /\ serving'[u].pc = "off" /\ serving'[u].frame = <<>> /\ wire'[u] = <<>>
                             /\ cut'[u] = (u = t \/ cut[u] \/ relay[u].pc # "idle")
<1> DEFINE known == relay[t].close.consumed >= relay[t].base
           rp == IF known THEN SubSeq(relay[t].sent, relay[t].close.consumed - relay[t].base + 1, Len(relay[t].sent))
                 ELSE <<>>
           ov == relay[t].overrun \/ ~known
           q == [relay[t] EXCEPT !.pc = "idle", !.overrun = ov, !.replay = rp]
<1>1. relay[t] \in TermType
  BY DEF LinkTypes
<1>2. /\ relay[t].pc \in {"up", "failed"} /\ UNCHANGED acted
      /\ link' = NewLink /\ tui' = NewTui
      /\ serving' = [u \in Terms |-> NoThread] /\ wire' = [u \in Terms |-> <<>>]
      /\ cut' = [u \in Terms |-> u = t \/ cut[u] \/ relay[u].pc # "idle"]
  BY DEF Finish
<1>3. rp \in Seq(Unit)
  <2>1. /\ relay[t].sent \in Seq(Unit) /\ relay[t].close.consumed \in Nat /\ relay[t].base \in Nat
    BY <1>1, TermFields
  <2>2. CASE ~known
    BY <2>2, NewTypes
  <2>3. CASE known
    <3>1. PICK o \in Nat, k \in Nat : o = relay[t].close.consumed - relay[t].base + 1 /\ k = Len(relay[t].sent) /\ o >= 1
      BY <2>1, <2>3, LenProperties
    <3>2. \A i \in o..k : relay[t].sent[i] \in Unit
      BY <2>1, <3>1
    <3>3. SubSeq(relay[t].sent, o, k) \in Seq(Unit)
      BY <2>1, <3>1, <3>2
    <3> QED BY <2>3, <3>1, <3>3
  <2> QED BY <2>2, <2>3
<1>4. ov \in BOOLEAN
  OBVIOUS
<1>5. relay' = [relay EXCEPT ![t] = q]
  <2>1. relay' = [relay EXCEPT ![t].pc = "idle", ![t].overrun = ov, ![t].replay = rp]
    BY DEF Finish
  <2> HIDE DEF ov, rp
  <2> QED BY <1>1, <2>1 DEF LinkTypes, TermType
<1>6. rp = rp /\ ov = ov
  OBVIOUS
<1> HIDE DEF ov, rp
<1>7. /\ q \in TermType /\ q.pc = "idle" /\ q.overrun = ov /\ q.replay = rp /\ q.typed = relay[t].typed
      /\ q.sent = relay[t].sent /\ q.base = relay[t].base /\ q.close = relay[t].close
  BY <1>1, <1>3, <1>4 DEF TermType
<1> HIDE DEF q
<1>8. relay' \in [Terms -> TermType] /\ relay'[t] = q /\ \A u \in Terms \ {t} : relay'[u] = relay[u]
  <2>1. relay \in [Terms -> TermType]
    BY DEF LinkTypes
  <2> QED BY <1>5, <1>7, <2>1, Put
<1>9. Resolved(relay[t], relay'[t]) /\ relay'[t].overrun = (relay[t].overrun \/ ~(relay[t].close.consumed >= relay[t].base))
  BY <1>7, <1>8 DEF Resolved, ov, rp
<1>10. \A u \in Terms : /\ serving'[u] = NoThread /\ wire'[u] = <<>>
                        /\ cut'[u] = (u = t \/ cut[u] \/ relay[u].pc # "idle")
  BY <1>2
<1>11. NoThread.pc = "off" /\ NoThread.frame = <<>> /\ NewLink.term = Nobody /\ NewLink.input = <<>> /\ NewTui.decoder = <<>>
  BY DEF NoThread, NewLink, NewTui
<1>12. LinkTypes'
  <2>1. cut' \in [Terms -> BOOLEAN]
    BY <1>2
  <2>2. serving' \in [Terms -> ThreadType] /\ wire' \in [Terms -> Seq(Seq(Unit))]
    BY <1>2, NewTypes
  <2> QED BY <1>2, <1>8, <2>1, <2>2, NewTypes DEF LinkTypes
<1> QED BY <1>2, <1>7, <1>8, <1>9, <1>10, <1>11, <1>12

\* What `close_with_handoff` changes.
LEMMA CloseEffect ==
  ASSUME LinkTypes, CloseWithHandoff
  PROVE  /\ LinkTypes' /\ tui.pc = "settling" /\ tui'.pc = "closed" /\ tui'.decoder = tui.decoder
         /\ link'.term = Nobody /\ link'.input = link.input /\ link'.received = link.received
         /\ UNCHANGED <<serving, wire, acted>>
         /\ link.term = Nobody => relay' = relay /\ cut' = cut
         /\ link.term # Nobody =>
              /\ link.term \in Terms /\ cut'[link.term] = TRUE
              /\ \A u \in Terms \ {link.term} : relay'[u] = relay[u] /\ cut'[u] = cut[u]
              /\ relay'[link.term] \in TermType
              /\ Closed(relay[link.term], relay'[link.term], tui.handoff, Consumed)
<1>1. /\ link \in LinkType /\ tui \in TuiType /\ relay \in [Terms -> TermType] /\ cut \in [Terms -> BOOLEAN]
      /\ serving \in [Terms -> ThreadType] /\ wire \in [Terms -> Seq(Seq(Unit))] /\ acted \in [Terms -> Seq(1..MaxTyped)]
  BY DEF LinkTypes
<1>2. /\ tui.pc = "settling" /\ tui' = [tui EXCEPT !.pc = "closed"]
      /\ link' = [link EXCEPT !.closed = TRUE, !.term = Nobody] /\ UNCHANGED <<serving, wire, acted>>
  BY DEF CloseWithHandoff
<1>3. tui' \in TuiType /\ tui'.pc = "closed" /\ tui'.decoder = tui.decoder
  BY <1>1, <1>2 DEF TuiType
<1>4. link' \in LinkType /\ link'.term = Nobody /\ link'.input = link.input /\ link'.received = link.received
  BY <1>1, <1>2 DEF LinkType
<1>5. CASE link.term = Nobody
  <2>1. relay' = relay /\ cut' = cut
    BY <1>5 DEF CloseWithHandoff
  <2>2. LinkTypes'
    BY <1>1, <1>2, <1>3, <1>4, <2>1 DEF LinkTypes
  <2> QED BY <1>2, <1>3, <1>4, <1>5, <2>1, <2>2
<1>6. CASE link.term # Nobody
  <2>1. PICK t \in Terms : t = link.term
    BY <1>1, <1>6 DEF LinkType
  <2>2. PICK n, h : n = Consumed /\ h = tui.handoff
    OBVIOUS
  <2>3. n \in Nat /\ h \in BOOLEAN
    <3>1. tui.unconsumed \in Nat /\ link.received \in Nat /\ link.input \in Seq(Unit) /\ tui.handoff \in BOOLEAN
      BY <1>1 DEF TuiType, LinkType
    <3>2. PICK k \in Nat : k = Len(link.input)
      BY <3>1, LenProperties
    <3>3. n = IF link.received > tui.unconsumed + k THEN link.received - (tui.unconsumed + k) ELSE 0
      BY <2>2, <3>2 DEF Consumed
    <3> QED BY <2>2, <3>1, <3>3
  <2>4. PICK cl : cl = [consumed |-> n, handoff |-> h]
    OBVIOUS
  <2>5. cl \in CloseType /\ cl.consumed = n /\ cl.handoff = h
    BY <2>3, <2>4 DEF CloseType
  <2>6. PICK q : q = [relay[t] EXCEPT !.close = cl]
    OBVIOUS
  <2>7. relay[t] \in TermType
    BY <1>1
  <2>8. /\ q \in TermType /\ q.pc = relay[t].pc /\ q.typed = relay[t].typed /\ q.sent = relay[t].sent
        /\ q.base = relay[t].base /\ q.replay = relay[t].replay /\ q.overrun = relay[t].overrun /\ q.close = cl
    BY <2>5, <2>6, <2>7 DEF TermType
  <2>9. relay' = [relay EXCEPT ![t].close = cl] /\ cut' = [cut EXCEPT ![t] = TRUE]
    BY <1>6, <2>1, <2>2, <2>4 DEF CloseWithHandoff
  <2>10. relay' = [relay EXCEPT ![t] = q]
    BY <1>1, <2>6, <2>9
  <2>11. relay' \in [Terms -> TermType] /\ relay'[t] = q /\ \A u \in Terms \ {t} : relay'[u] = relay[u]
    BY <1>1, <2>8, <2>10, Put
  <2>12. cut' \in [Terms -> BOOLEAN] /\ cut'[t] = TRUE /\ \A u \in Terms \ {t} : cut'[u] = cut[u]
    BY <1>1, <2>9, Put
  <2>13. Closed(relay[t], relay'[t], h, n)
    BY <2>5, <2>8, <2>11 DEF Closed
  <2>14. LinkTypes'
    BY <1>1, <1>2, <1>3, <1>4, <2>11, <2>12 DEF LinkTypes
  <2> QED BY <1>2, <1>3, <1>4, <1>6, <2>1, <2>2, <2>8, <2>11, <2>12, <2>13, <2>14
<1> QED BY <1>5, <1>6

\* What the end of the process changes.
LEMMA RuntimeEndsEffect ==
  ASSUME LinkTypes, RuntimeEnds
  PROVE  /\ LinkTypes' /\ tui'.pc = "closed" /\ tui'.decoder = tui.decoder
         /\ link'.term = Nobody /\ link'.input = link.input /\ link'.received = link.received
         /\ UNCHANGED <<wire, relay, acted>>
         /\ \A u \in Terms : serving'[u].pc = "off" /\ serving'[u].frame = <<>> /\ (cut[u] => cut'[u])
<1>1. link \in LinkType /\ tui \in TuiType
  BY DEF LinkTypes
<1>2. tui' \in TuiType /\ tui'.pc = "closed" /\ tui'.decoder = tui.decoder
  BY <1>1 DEF RuntimeEnds, TuiType
<1>3. link' \in LinkType /\ link'.term = Nobody /\ link'.input = link.input /\ link'.received = link.received
  BY <1>1 DEF RuntimeEnds, LinkType
<1>4. /\ UNCHANGED <<wire, relay, acted>> /\ serving' = [t \in Terms |-> NoThread]
      /\ cut' = [t \in Terms |-> cut[t] \/ serving[t].pc # "off"]
  BY DEF RuntimeEnds
<1>5. serving' \in [Terms -> ThreadType] /\ cut' \in [Terms -> BOOLEAN]
  BY <1>4, NewTypes
<1>6. \A u \in Terms : serving'[u] = NoThread /\ (cut[u] => cut'[u])
  BY <1>4
<1>7. NoThread.pc = "off" /\ NoThread.frame = <<>>
  BY DEF NoThread
<1>8. LinkTypes'
  BY <1>2, <1>3, <1>4, <1>5 DEF LinkTypes
<1> QED BY <1>2, <1>3, <1>4, <1>6, <1>7, <1>8

\* The inductive invariant.
RelayInv == LinkTypes /\ TrackInv /\ AloneInv /\ OnePending /\ Holding /\ TuiInv

\* A sequence begins with itself, with what it extends, and with nothing.
LEMMA Prefixes ==
  ASSUME NEW s \in Seq(Unit), NEW f \in Seq(Unit)
  PROVE  Before(s, s) /\ Before(s, s \o f) /\ Before(<<>>, s)
<1>1. PICK k \in Nat, l \in Nat : k = Len(s) /\ l = Len(f)
  BY LenProperties
<1>0. PICK c : c = s \o f
  OBVIOUS
<1>2. Len(c) = k + l /\ \A i \in 1..k : c[i] = s[i]
  BY <1>0, <1>1, Concat
<1>3. Before(s, c)
  BY <1>1, <1>2 DEF Before
<1>4. Before(s, s)
  BY <1>1 DEF Before
<1>5. Before(<<>>, s)
  BY <1>1 DEF Before
<1> QED BY <1>0, <1>3, <1>4, <1>5

\* The link keeps a terminal that was cut only when its relay is gone.
LEMMA LinkHeld ==
  ASSUME NEW t \in Terms, TrackAt(t), link.term = t, cut[t]
  PROVE  relay[t].pc = "gone"
  BY DEF TrackAt, Track, AttachedOf

\* A terminal that a step leaves as it was, but for what the application holds.
LEMMA LeftAlone ==
  ASSUME LinkTypes, NEW t \in Terms, TrackAt(t), acted'[t] = acted[t], Before(Ahead', Ahead),
         relay'[t] = relay[t], cut'[t] = cut[t],
         Stream(t)' = Stream(t), serving'[t].pc # "off" => serving[t].pc # "off",
         link'.term = t => link.term = t /\ Ahead' = Ahead /\ link'.received = link.received,
         Pending(relay[t]) /\ tui.pc = "closed" => tui'.pc = "closed"
  PROVE  Loses(t) /\ (NeverAttached(t)' => NeverAttached(t))
<1>1. Lowered(relay[t], relay'[t])
  BY DEF Lowered
<1>2. link'.term = t => (cut'[t] => relay'[t].pc = "gone")
  BY LinkHeld
<1>3. NeverAttached(t)' => NeverAttached(t)
  BY DEF NeverAttached
<1> QED BY <1>1, <1>2, <1>3 DEF Loses

\* A step that leaves every terminal as it was.
LEMMA Quiet ==
  ASSUME LinkTypes, LinkTypes', TrackInv, AloneInv, OnePending, UNCHANGED <<acted, relay, cut>>, Ahead' = Ahead,
         \A t \in Terms : Stream(t)' = Stream(t) /\ (serving'[t].pc # "off" => serving[t].pc # "off"),
         link'.term = link.term, link'.received = link.received, tui.pc = "closed" => tui'.pc = "closed"
  PROVE  TrackInv' /\ AloneInv' /\ OnePending'
<1>1. Before(Ahead', Ahead) \/ Terms = {}
  <2>1. ASSUME NEW t \in Terms PROVE Before(Ahead', Ahead)
    BY ViewTypes, Prefixes
  <2> QED BY <2>1
<1>2. ASSUME NEW t \in Terms PROVE Loses(t) /\ (NeverAttached(t)' => NeverAttached(t))
  <2>1. TrackAt(t) /\ Before(Ahead', Ahead)
    BY <1>1 DEF TrackInv
  <2> QED BY <2>1, LeftAlone
<1> QED BY <1>2, AllLose

\* What a connection carries depends on its thread and its wire.
LEMMA StreamSame ==
  ASSUME NEW t, serving'[t].frame = serving[t].frame, wire'[t] = wire[t]
  PROVE  Stream(t)' = Stream(t)
  BY DEF Stream

\* Entering, polling and leaving the loop preserve the invariant.
LEMMA TuiStep ==
  ASSUME RelayInv, EnterRemote \/ PollGeneration \/ LeaveLoop
  PROVE  RelayInv'
<1>1. LinkTypes /\ TrackInv /\ AloneInv /\ OnePending /\ Holding /\ TuiInv
  BY DEF RelayInv
<1>2. CASE EnterRemote \/ PollGeneration
  <2>1. /\ LinkTypes' /\ tui'.decoder = tui.decoder /\ tui'.pc # "settling" /\ tui.pc # "closed"
        /\ tui'.pc = "waiting" => tui.decoder = <<>>
        /\ UNCHANGED <<link, serving, wire, cut, relay, acted>>
    BY <1>1, <1>2, TuiPcEffect
  <2>2. Ahead' = Ahead
    BY <2>1 DEF Ahead
  <2>3. \A t \in Terms : Stream(t)' = Stream(t)
    BY <2>1, StreamSame
  <2>4. TrackInv' /\ AloneInv' /\ OnePending'
    BY <1>1, <2>1, <2>2, <2>3, Quiet
  <2>5. TuiInv' /\ Holding'
    BY <1>1, <2>1 DEF TuiInv, Holding
  <2> QED BY <2>1, <2>4, <2>5 DEF RelayInv
<1>3. CASE LeaveLoop
  <2>1. /\ LinkTypes' /\ tui.pc # "closed" /\ tui'.pc = "settling" /\ tui'.decoder = tui.decoder /\ tui'.handoff = tui.handoff
        /\ tui'.unconsumed = IF tui.handoff THEN Len(tui.decoder) ELSE 0
        /\ UNCHANGED <<link, serving, wire, cut, relay, acted>>
    BY <1>1, <1>3, LeaveLoopEffect
  <2>2. Ahead' = Ahead
    BY <2>1 DEF Ahead
  <2>3. \A t \in Terms : Stream(t)' = Stream(t)
    BY <2>1, StreamSame
  <2>4. TrackInv' /\ AloneInv' /\ OnePending'
    BY <1>1, <2>1, <2>2, <2>3, Quiet
  <2>5. TuiInv' /\ Holding'
    BY <1>1, <2>1 DEF TuiInv, Holding
  <2> QED BY <2>1, <2>4, <2>5 DEF RelayInv
<1> QED BY <1>2, <1>3

\* Taking the link's input preserves it: the decoder was empty.
LEMMA WaitStep ==
  ASSUME RelayInv, WaitInput
  PROVE  RelayInv'
<1>1. LinkTypes /\ TrackInv /\ AloneInv /\ OnePending /\ Holding /\ TuiInv
  BY DEF RelayInv
<1>2. /\ LinkTypes' /\ tui.pc = "waiting" /\ tui'.pc = "loop" /\ tui'.decoder = link.input
      /\ link'.input = <<>> /\ link'.term = link.term /\ link'.received = link.received
      /\ UNCHANGED <<serving, wire, cut, relay, acted>>
  BY <1>1, WaitInputEffect
<1>3. Ahead' = Ahead
  <2>1. tui.decoder = <<>> /\ link.input \in Seq(Unit)
    BY <1>1, <1>2 DEF TuiInv, LinkTypes, LinkType
  <2>2. link.input \o <<>> = link.input /\ <<>> \o link.input = link.input
    BY <2>1, ConcatEmptySeq
  <2> QED BY <1>2, <2>1, <2>2 DEF Ahead
<1>4. \A t \in Terms : Stream(t)' = Stream(t)
  BY <1>2, StreamSame
<1>5. TrackInv' /\ AloneInv' /\ OnePending'
  BY <1>1, <1>2, <1>3, <1>4, Quiet
<1>6. TuiInv' /\ Holding'
  BY <1>1, <1>2 DEF TuiInv, Holding
<1> QED BY <1>2, <1>5, <1>6 DEF RelayInv

\* Reading the generation preserves it.
LEMMA ReadGenerationStep ==
  ASSUME RelayInv, NEW t \in Terms, ReadGeneration(t)
  PROVE  RelayInv'
<1>1. LinkTypes /\ TrackInv /\ AloneInv /\ OnePending /\ Holding /\ TuiInv
  BY DEF RelayInv
<1>2. /\ LinkTypes' /\ \A u \in Terms \ {t} : serving'[u] = serving[u]
      /\ serving[t].pc = "welcomed" /\ serving'[t].pc = "reading" /\ serving'[t].frame = serving[t].frame
  BY <1>1, ReadGenerationEffect
<1>3. UNCHANGED <<link, wire, cut, relay, tui, acted>>
  BY DEF ReadGeneration
<1>4. Ahead' = Ahead
  BY <1>3 DEF Ahead
<1>5. \A u \in Terms : serving'[u].frame = serving[u].frame /\ (serving'[u].pc # "off" => serving[u].pc # "off")
  BY <1>2
<1>6. \A u \in Terms : Stream(u)' = Stream(u)
  BY <1>3, <1>5, StreamSame
<1>7. TrackInv' /\ AloneInv' /\ OnePending'
  BY <1>1, <1>2, <1>3, <1>4, <1>5, <1>6, Quiet
<1>8. Holding'
  BY <1>1, <1>2 DEF Holding
<1>9. TuiInv'
  BY <1>1, <1>3 DEF TuiInv
<1> QED BY <1>2, <1>7, <1>8, <1>9 DEF RelayInv

\* Reading a frame preserves it.
LEMMA ReadFrameStep ==
  ASSUME RelayInv, NEW t \in Terms, ReadFrame(t)
  PROVE  RelayInv'
<1>1. LinkTypes /\ TrackInv /\ AloneInv /\ OnePending /\ Holding /\ TuiInv
  BY DEF RelayInv
<1>2. /\ LinkTypes' /\ \A u \in Terms \ {t} : serving'[u] = serving[u] /\ wire'[u] = wire[u]
      /\ serving[t].pc = "reading" /\ serving'[t].pc = "holding" /\ serving'[t].frame = Head(wire[t])
      /\ wire[t] # <<>> /\ wire'[t] = Tail(wire[t]) /\ UNCHANGED <<link, cut, relay, tui, acted>>
  BY <1>1, ReadFrameEffect
<1>3. Ahead' = Ahead
  BY <1>2 DEF Ahead
<1>4. serving[t].frame = <<>> /\ wire[t] \in Seq(Seq(Unit))
  BY <1>1, <1>2 DEF Holding, LinkTypes
<1>5. Stream(t) = wire[t]
  <2>1. Stream(t) = <<>> \o wire[t]
    BY <1>4 DEF Stream
  <2> QED BY <1>4, <2>1, ConcatEmptySeq
<1>6. Head(wire[t]) # <<>>
  <2>1. OrderOf(t, acted[t], Ahead, wire[t], relay[t], cut[t], serving[t].pc # "off")
    BY <1>1, <1>5 DEF TrackInv, TrackAt, Track
  <2>2. Chain(t, wire[t], relay[t].typed)
    BY <1>2, <2>1 DEF OrderOf
  <2>3. 1 \in DOMAIN wire[t] /\ Head(wire[t]) = wire[t][1]
    BY <1>2, <1>4, EmptySeq
  <2> QED BY <2>2, <2>3 DEF Chain, IsRun
<1>7. Stream(t)' = Stream(t)
  <2>1. Stream(t)' = <<Head(wire[t])>> \o Tail(wire[t])
    BY <1>2, <1>6 DEF Stream
  <2>2. <<Head(wire[t])>> \o Tail(wire[t]) = wire[t]
    BY <1>2, <1>4
  <2> QED BY <1>5, <2>1, <2>2
<1>8. \A u \in Terms : Stream(u)' = Stream(u) /\ (serving'[u].pc # "off" => serving[u].pc # "off")
  BY <1>2, <1>7, StreamSame
<1>9. TrackInv' /\ AloneInv' /\ OnePending'
  BY <1>1, <1>2, <1>3, <1>8, Quiet
<1>10. Holding'
  BY <1>1, <1>2, <1>6 DEF Holding
<1>11. TuiInv'
  BY <1>1, <1>2 DEF TuiInv
<1> QED BY <1>2, <1>9, <1>10, <1>11 DEF RelayInv

\* A relay that exits.
LEMMA RelayLeaves ==
  ASSUME RelayInv, LinkTypes', NEW t \in Terms, relay' = [relay EXCEPT ![t].pc = "gone"],
         UNCHANGED <<link, serving, wire, tui, acted>>,
         \A u \in Terms \ {t} : cut'[u] = cut[u], cut[t] => cut'[t], cut'[t] \/ relay[t].pc = "idle"
  PROVE  RelayInv'
<1>1. LinkTypes /\ TrackInv /\ AloneInv /\ OnePending /\ Holding /\ TuiInv
  BY DEF RelayInv
<1>2. /\ \A u \in Terms \ {t} : relay'[u] = relay[u]
      /\ relay'[t].pc = "gone" /\ relay'[t].sent = relay[t].sent
      /\ relay'[t].base = relay[t].base /\ relay'[t].close = relay[t].close
      /\ relay'[t].typed = relay[t].typed /\ relay'[t].replay = relay[t].replay
      /\ relay'[t].overrun = relay[t].overrun
  BY <1>1, RelayPcEffect
<1>3. Ahead' = Ahead /\ Before(Ahead', Ahead)
  <2>1. Ahead' = Ahead
    BY DEF Ahead
  <2> QED BY <1>1, <2>1, ViewTypes, Prefixes
<1>4. \A u \in Terms : Stream(u)' = Stream(u)
  BY StreamSame
<1>5. Loses(t) /\ (NeverAttached(t)' => NeverAttached(t))
  <2>1. Lowered(relay[t], relay'[t])
    BY <1>2 DEF Lowered
  <2>2. NeverAttached(t)' => NeverAttached(t)
    BY <1>2 DEF NeverAttached
  <2> QED BY <1>2, <1>3, <1>4, <2>1, <2>2 DEF Loses
<1>6. ASSUME NEW u \in Terms \ {t} PROVE Loses(u) /\ (NeverAttached(u)' => NeverAttached(u))
  <2>1. TrackAt(u)
    BY <1>1 DEF TrackInv
  <2>2. relay'[u] = relay[u] /\ cut'[u] = cut[u]
    BY <1>2
  <2> QED BY <1>1, <1>3, <1>4, <2>1, <2>2, LeftAlone
<1>7. TrackInv' /\ AloneInv' /\ OnePending'
  BY <1>1, <1>3, <1>5, <1>6, AllLose
<1>8. Holding' /\ TuiInv'
  BY <1>1 DEF Holding, TuiInv
<1> QED BY <1>7, <1>8 DEF RelayInv

\* A refused connection preserves it.
LEMMA RefusedStep ==
  ASSUME RelayInv, NEW t \in Terms, Refused(t)
  PROVE  RelayInv'
<1>1. LinkTypes
  BY DEF RelayInv
<1>2. LinkTypes' /\ relay[t].pc = "idle"
  BY <1>1, RefusedEffect
<1>3. relay' = [relay EXCEPT ![t].pc = "gone"] /\ UNCHANGED <<link, serving, wire, cut, tui, acted>>
  BY DEF Refused
<1> QED BY <1>2, <1>3, RelayLeaves

\* A terminal that goes away preserves it.
LEMMA RelayGoneStep ==
  ASSUME RelayInv, NEW t \in Terms, RelayGone(t)
  PROVE  RelayInv'
<1>1. LinkTypes
  BY DEF RelayInv
<1>2. LinkTypes' /\ cut'[t] = TRUE /\ \A u \in Terms \ {t} : cut'[u] = cut[u]
  BY <1>1, RelayGoneEffect
<1>3. relay' = [relay EXCEPT ![t].pc = "gone"] /\ UNCHANGED <<link, serving, wire, tui, acted>>
  BY DEF RelayGone
<1> QED BY <1>2, <1>3, RelayLeaves

\* The exit of a relay preserves it.
LEMMA FinishGoneStep ==
  ASSUME RelayInv, NEW t \in Terms, Finish(t), ~relay[t].close.handoff \/ runtimes = MaxRuntimes
  PROVE  RelayInv'
<1>1. LinkTypes
  BY DEF RelayInv
<1>2. LinkTypes' /\ UNCHANGED <<link, serving, wire, cut, tui, acted>> /\ cut[t]
  BY <1>1, FinishGoneEffect
<1>3. ~(relay[t].close.handoff /\ runtimes < MaxRuntimes)
  BY RelayAssumption
<1>4. relay' = [relay EXCEPT ![t].pc = "gone"]
  BY <1>3 DEF Finish
<1> QED BY <1>2, <1>4, RelayLeaves

\* A replay that cannot be sent preserves it.
LEMMA ReplayLostStep ==
  ASSUME RelayInv, NEW t \in Terms, SendReplay(t), relay[t].replay # <<>>, cut[t]
  PROVE  RelayInv'
<1>1. LinkTypes
  BY DEF RelayInv
<1>2. LinkTypes' /\ UNCHANGED <<link, serving, wire, cut, tui, acted>>
  BY <1>1, SendNothingEffect
<1>4. relay' = [relay EXCEPT ![t].pc = "gone"]
  BY DEF SendReplay
<1> QED BY <1>2, <1>4, RelayLeaves

\* The end of a connection's thread preserves it.
LEMMA EndServeStep ==
  ASSUME RelayInv, NEW t \in Terms, EndServe(t)
  PROVE  RelayInv'
<1>1. LinkTypes /\ TrackInv /\ AloneInv /\ OnePending /\ Holding /\ TuiInv
  BY DEF RelayInv
<1>2. /\ LinkTypes' /\ \A u \in Terms \ {t} : serving'[u] = serving[u]
      /\ serving[t].pc = "reading" /\ cut[t] /\ serving'[t].pc = "off" /\ serving'[t].frame = <<>>
      /\ UNCHANGED <<wire, cut, relay, tui, acted>>
  BY <1>1, EndServeEffect
<1>3. \/ link' = link
      \/ link'.term = Nobody /\ link'.input = <<>> /\ link'.received = link.received
  BY <1>1, EndServeEffect
<1>4. serving[t].frame = <<>>
  BY <1>1, <1>2 DEF Holding
<1>5. \A u \in Terms : Stream(u)' = Stream(u) /\ (serving'[u].pc # "off" => serving[u].pc # "off")
  BY <1>2, <1>4, StreamSame
<1>6. /\ Before(Ahead', Ahead)
      /\ \A u \in Terms : link'.term = u => link.term = u /\ Ahead' = Ahead /\ link'.received = link.received
  <2>1. tui.decoder \in Seq(Unit) /\ link.input \in Seq(Unit) /\ Ahead \in Seq(Unit)
    BY <1>1, ViewTypes
  <2>2. CASE link' = link
    <3>1. Ahead' = Ahead
      BY <1>2, <2>2 DEF Ahead
    <3> QED BY <2>1, <2>2, <3>1, Prefixes
  <2>3. CASE link'.term = Nobody /\ link'.input = <<>> /\ link'.received = link.received
    <3>1. Ahead' = tui.decoder
      BY <1>2, <2>1, <2>3, ConcatEmptySeq DEF Ahead
    <3>2. Before(tui.decoder, Ahead)
      BY <2>1, Prefixes DEF Ahead
    <3> QED BY <2>3, <3>1, <3>2, RelayAssumption
  <2> QED BY <1>3, <2>2, <2>3
<1>7. ASSUME NEW u \in Terms PROVE Loses(u) /\ (NeverAttached(u)' => NeverAttached(u))
  <2>1. TrackAt(u)
    BY <1>1 DEF TrackInv
  <2> QED BY <1>1, <1>2, <1>5, <1>6, <2>1, LeftAlone
<1>8. ASSUME NEW u \in Terms, Solo(u), serving'[u].pc # "off" PROVE FALSE
  <2>1. u # t
    BY <1>2, <1>8
  <2>2. NeverAttached(t)
    BY <1>8, <2>1 DEF Solo
  <2> QED BY <1>2, <2>2 DEF NeverAttached
<1>9. TrackInv' /\ AloneInv' /\ OnePending'
  BY <1>1, <1>2, <1>7, <1>8, AllLose
<1>10. Holding'
  BY <1>1, <1>2 DEF Holding
<1>11. TuiInv'
  BY <1>1, <1>2 DEF TuiInv
<1> QED BY <1>2, <1>9, <1>10, <1>11 DEF RelayInv

\* The connection of the terminal attached is shut down, or every connection is.
LEMMA CutStep ==
  ASSUME RelayInv, LinkTypes', UNCHANGED <<wire, relay, acted>>, tui'.decoder = tui.decoder,
         link'.term = Nobody, link'.input = link.input, link'.received = link.received,
         tui.pc = "closed" => tui'.pc = "closed",
         \A t \in Terms : cut[t] => cut'[t],
         \A t \in Terms : \/ serving'[t] = serving[t]
                          \/ serving'[t].pc = "off" /\ serving'[t].frame = <<>>
  PROVE  TrackInv' /\ AloneInv' /\ OnePending' /\ Holding'
<1>1. LinkTypes /\ TrackInv /\ AloneInv /\ OnePending /\ Holding /\ TuiInv
  BY DEF RelayInv
<1>2. Ahead' = Ahead
  BY DEF Ahead
<1>3. ASSUME NEW t \in Terms PROVE Loses(t) /\ (NeverAttached(t)' => NeverAttached(t))
  <2>1. Before(Ahead', Ahead)
    BY <1>1, <1>2, ViewTypes, Prefixes
  <2>2. Lowered(relay[t], relay'[t])
    BY DEF Lowered
  <2>3. Stream(t) = <<>> => Stream(t)' = <<>>
    <3>1. CASE serving'[t] = serving[t]
      BY <3>1, StreamSame
    <3>2. CASE serving'[t].frame = <<>>
      <4>1. wire[t] \in Seq(Seq(Unit)) /\ serving[t].frame \in Seq(Unit)
        BY <1>1, ViewTypes
      <4>2. Stream(t)' = wire[t]
        <5>1. Stream(t)' = <<>> \o wire[t]
          BY <3>2 DEF Stream
        <5> QED BY <4>1, <5>1, ConcatEmptySeq
      <4>3. CASE serving[t].frame = <<>>
        <5>1. Stream(t) = <<>> \o wire[t]
          BY <4>3 DEF Stream
        <5> QED BY <4>1, <4>2, <5>1, ConcatEmptySeq
      <4>4. CASE serving[t].frame # <<>>
        <5>1. Stream(t) = <<serving[t].frame>> \o wire[t]
          BY <4>4 DEF Stream
        <5>2. <<serving[t].frame>> \o wire[t] # <<>>
          BY <4>1
        <5> QED BY <5>1, <5>2
      <4> QED BY <4>3, <4>4
    <3> QED BY <3>1, <3>2
  <2>4. serving'[t].pc # "off" => serving[t].pc # "off" /\ Stream(t)' = Stream(t)
    BY StreamSame
  <2>5. NeverAttached(t)' => NeverAttached(t)
    BY DEF NeverAttached
  <2>6. link'.term # t /\ (relay'[t].pc = "gone" => relay[t].pc \in {"idle", "gone"})
    BY RelayAssumption
  <2> QED BY <2>1, <2>2, <2>3, <2>4, <2>5, <2>6 DEF Loses
<1>4. TrackInv' /\ AloneInv' /\ OnePending'
  BY <1>1, <1>2, <1>3, AllLose
<1>5. Holding'
  BY <1>1 DEF Holding
<1> QED BY <1>4, <1>5

\* A terminal that does not keep up preserves it.
LEMMA WriteOutputFailsStep ==
  ASSUME RelayInv, WriteOutputFails
  PROVE  RelayInv'
<1>1. LinkTypes /\ TuiInv
  BY DEF RelayInv
<1>2. /\ LinkTypes' /\ link.term \in Terms /\ cut'[link.term] = TRUE
      /\ \A u \in Terms \ {link.term} : cut'[u] = cut[u]
      /\ link'.term = Nobody /\ link'.input = link.input /\ link'.received = link.received
      /\ UNCHANGED <<serving, wire, relay, tui, acted>>
  BY <1>1, WriteOutputFailsEffect
<1>3. \A t \in Terms : cut[t] => cut'[t]
  BY <1>2
<1>4. TrackInv' /\ AloneInv' /\ OnePending' /\ Holding'
  BY <1>2, <1>3, CutStep
<1>5. TuiInv'
  BY <1>1, <1>2 DEF TuiInv
<1> QED BY <1>2, <1>4, <1>5 DEF RelayInv

\* The end of the process preserves it.
LEMMA RuntimeEndsStep ==
  ASSUME RelayInv, RuntimeEnds
  PROVE  RelayInv'
<1>1. LinkTypes /\ TuiInv
  BY DEF RelayInv
<1>2. /\ LinkTypes' /\ tui'.pc = "closed" /\ tui'.decoder = tui.decoder
      /\ link'.term = Nobody /\ link'.input = link.input /\ link'.received = link.received
      /\ UNCHANGED <<wire, relay, acted>>
      /\ \A u \in Terms : serving'[u].pc = "off" /\ serving'[u].frame = <<>> /\ (cut[u] => cut'[u])
  BY <1>1, RuntimeEndsEffect
<1>4. TrackInv' /\ AloneInv' /\ OnePending' /\ Holding'
  BY <1>2, CutStep
<1>5. TuiInv'
  BY <1>1, <1>2 DEF TuiInv
<1> QED BY <1>2, <1>4, <1>5 DEF RelayInv

\* A step of one terminal that is, or is now, attached.
LEMMA OneMoves ==
  ASSUME TrackInv, AloneInv, NEW t \in Terms, ~NeverAttached(t)', TrackAt(t)',
         relay[t].overrun => relay'[t].overrun,
         Solo(t) /\ AloneAt(t) /\ ~relay'[t].overrun => AloneAt(t)',
         \A u \in Terms \ {t} : TrackAt(u)' /\ (NeverAttached(u)' => NeverAttached(u))
  PROVE  TrackInv' /\ AloneInv'
<1>1. TrackInv'
  BY DEF TrackInv
<1>2. ASSUME NEW u \in Terms, Solo(u)' PROVE u = t
  BY <1>2 DEF Solo
<1>3. Solo(t)' => Solo(t) /\ ~relay'[t].overrun
  BY SoloBefore DEF Solo
<1>4. AloneInv'
  BY <1>2, <1>3 DEF AloneInv
<1> QED BY <1>1, <1>4

\* Attaching preserves it.
LEMMA AttachStep ==
  ASSUME RelayInv, NEW t \in Terms, Attach(t)
  PROVE  RelayInv'
<1>1. LinkTypes /\ TrackInv /\ AloneInv /\ OnePending /\ Holding /\ TuiInv
  BY DEF RelayInv
<1>2. /\ LinkTypes' /\ Others(t) /\ UNCHANGED <<tui, acted>>
      /\ link'.term = t /\ link'.input = <<>> /\ link'.received = 0
      /\ serving'[t].pc = "welcomed" /\ serving'[t].frame = <<>>
      /\ wire'[t] = <<>> /\ cut'[t] = FALSE
  BY <1>1, AttachEffect
<1>3. /\ relay'[t] \in TermType
      /\ relay[t].pc = "idle" /\ relay'[t].pc = "connected" /\ relay'[t].sent = <<>> /\ relay'[t].base = 0
      /\ relay'[t].close.handoff = FALSE
      /\ relay'[t].typed = relay[t].typed /\ relay'[t].replay = relay[t].replay
      /\ relay'[t].overrun = relay[t].overrun
  BY <1>1, AttachEffect
<1>4. tui.decoder \in Seq(Unit) /\ link.input \in Seq(Unit) /\ Ahead \in Seq(Unit)
  BY <1>1, ViewTypes
<1>5. Ahead' = tui.decoder /\ Before(Ahead', Ahead)
  <2>1. Ahead' = tui.decoder \o <<>>
    BY <1>2 DEF Ahead
  <2>2. Ahead' = tui.decoder
    BY <1>4, <2>1, ConcatEmptySeq
  <2> QED BY <1>4, <2>2, Prefixes DEF Ahead
<1>6. Stream(t)' = <<>>
  <2>1. Stream(t)' = <<>> \o <<>>
    BY <1>2 DEF Stream
  <2> QED BY <2>1, NewTypes, ConcatEmptySeq
<1>7. ASSUME NEW u \in Terms \ {t} PROVE TrackAt(u)' /\ (NeverAttached(u)' => NeverAttached(u))
  <2>1. TrackAt(u) /\ serving'[u] = serving[u] /\ wire'[u] = wire[u] /\ relay'[u] = relay[u] /\ cut'[u] = cut[u]
    BY <1>1, <1>2 DEF TrackInv, Others
  <2>2. Stream(u)' = Stream(u)
    BY <2>1, StreamSame
  <2>3. Loses(u) /\ (NeverAttached(u)' => NeverAttached(u))
    BY <1>1, <1>2, <1>5, <2>1, <2>2, LeftAlone
  <2> QED BY <1>1, <1>2, <2>1, <2>3, TrackLoses
<1>8. PICK a, s, v, q, c, p, x, r, y :
        /\ a = acted[t] /\ s = Ahead /\ v = Stream(t) /\ q = relay[t] /\ c = cut[t]
        /\ p = serving[t].pc /\ x = link.term /\ r = link.received /\ y = tui.pc
  OBVIOUS
<1>9. a \in Seq(Nat) /\ s \in Seq(Unit) /\ v \in Seq(Seq(Unit)) /\ q \in TermType /\ c \in BOOLEAN /\ r \in Nat
  BY <1>1, <1>8, ViewTypes
<1>10. PICK s1, q1, p1, c1 : s1 = tui.decoder /\ q1 = relay'[t] /\ p1 = serving'[t].pc /\ c1 = cut'[t]
  OBVIOUS
<1>11. /\ s1 \in Seq(Unit) /\ Before(s1, s) /\ q1 \in TermType /\ c1 = FALSE /\ q.pc = "idle"
       /\ q1.pc = "connected" /\ q1.sent = <<>> /\ q1.base = 0 /\ q1.close.handoff = FALSE
       /\ q1.typed = q.typed /\ q1.replay = q.replay
  BY <1>2, <1>3, <1>4, <1>5, <1>8, <1>10
<1>12. Track(t, a, s, v, q, c, p, x, r, y)
  BY <1>1, <1>8 DEF TrackInv, TrackAt
<1>13. Track(t, a, s1, <<>>, q1, c1, p1, t, 0, y)
  BY <1>9, <1>11, <1>12, TrackAttach
<1>14. TrackAt(t)'
  BY <1>2, <1>5, <1>6, <1>8, <1>10, <1>13 DEF TrackAt
<1>15. ASSUME AloneAt(t) PROVE AloneAt(t)'
  <2>1. AloneOf(t, a, s, v, q, c, p, x, r)
    BY <1>8, <1>15 DEF AloneAt
  <2>2. AloneOf(t, a, s1, <<>>, q1, c1, p1, t, 0)
    BY <1>9, <1>11, <1>12, <2>1, AloneAttach
  <2> QED BY <1>2, <1>5, <1>6, <1>8, <1>10, <2>2 DEF AloneAt
<1>16. TrackInv' /\ AloneInv'
  <2>1. ~NeverAttached(t)'
    BY <1>3 DEF NeverAttached
  <2> QED BY <1>1, <1>3, <1>7, <1>14, <1>15, <2>1, OneMoves
<1>17. OnePending'
  <2>1. ~Pending(relay'[t])
    BY <1>3 DEF Pending
  <2> QED BY <1>1, <1>2, <2>1 DEF OnePending, Others
<1>18. Holding' /\ TuiInv'
  BY <1>1, <1>2 DEF Holding, TuiInv, Others
<1> QED BY <1>2, <1>16, <1>17, <1>18 DEF RelayInv

\* A relay that sends, or has nothing to send, leaves the others alone.
LEMMA OthersKeep ==
  ASSUME RelayInv, LinkTypes', NEW t \in Terms, Others(t), UNCHANGED <<link, serving, cut, tui, acted>>
  PROVE  /\ \A u \in Terms \ {t} : TrackAt(u)' /\ (NeverAttached(u)' => NeverAttached(u))
         /\ Ahead' = Ahead /\ Holding' /\ TuiInv'
         /\ (Pending(relay'[t]) => Pending(relay[t])) => OnePending'
<1>1. LinkTypes /\ TrackInv /\ AloneInv /\ OnePending /\ Holding /\ TuiInv
  BY DEF RelayInv
<1>2. Ahead' = Ahead
  BY DEF Ahead
<1>3. ASSUME NEW u \in Terms \ {t} PROVE TrackAt(u)' /\ (NeverAttached(u)' => NeverAttached(u))
  <2>1. TrackAt(u) /\ serving'[u] = serving[u] /\ wire'[u] = wire[u] /\ relay'[u] = relay[u] /\ cut'[u] = cut[u]
    BY <1>1 DEF TrackInv, Others
  <2>2. Stream(u)' = Stream(u)
    BY <2>1, StreamSame
  <2>3. Before(Ahead', Ahead)
    BY <1>1, <1>2, ViewTypes, Prefixes
  <2>4. Loses(u) /\ (NeverAttached(u)' => NeverAttached(u))
    BY <1>1, <1>2, <2>1, <2>2, <2>3, LeftAlone
  <2> QED BY <1>1, <2>1, <2>4, TrackLoses
<1>4. Holding' /\ TuiInv'
  BY <1>1 DEF Holding, TuiInv
<1>5. (Pending(relay'[t]) => Pending(relay[t])) => OnePending'
  BY <1>1 DEF OnePending, Others
<1> QED BY <1>2, <1>3, <1>4, <1>5

\* A relay that comes up preserves it.
LEMMA UpStep ==
  ASSUME RelayInv, LinkTypes', NEW t \in Terms, Others(t), UNCHANGED <<link, serving, cut, tui, acted>>,
         Upped(relay[t], relay'[t]), SentOf(t, relay'[t]), relay'[t].overrun = relay[t].overrun,
         Stream(t)' = Replayed(relay[t])
  PROVE  RelayInv'
<1>1. LinkTypes /\ TrackInv /\ AloneInv /\ OnePending /\ Holding /\ TuiInv
  BY DEF RelayInv
<1>2. /\ \A u \in Terms \ {t} : TrackAt(u)' /\ (NeverAttached(u)' => NeverAttached(u))
      /\ Ahead' = Ahead /\ Holding' /\ TuiInv'
      /\ (Pending(relay'[t]) => Pending(relay[t])) => OnePending'
  BY OthersKeep
<1>3. OnePending'
  BY <1>2 DEF Upped, Pending
<1>8. PICK a, s, v, q, c, p, x, r, y :
        /\ a = acted[t] /\ s = Ahead /\ v = Stream(t) /\ q = relay[t] /\ c = cut[t]
        /\ p = serving[t].pc /\ x = link.term /\ r = link.received /\ y = tui.pc
  OBVIOUS
<1>9. a \in Seq(Nat) /\ s \in Seq(Unit) /\ v \in Seq(Seq(Unit)) /\ q \in TermType /\ c \in BOOLEAN /\ r \in Nat
  BY <1>1, <1>8, ViewTypes
<1>10. PICK q1 : q1 = relay'[t]
  OBVIOUS
<1>11. q1 \in TermType /\ Upped(q, q1) /\ SentOf(t, q1)
  BY <1>8, <1>10, ViewTypesNext
<1>12. Track(t, a, s, v, q, c, p, x, r, y)
  BY <1>1, <1>8 DEF TrackInv, TrackAt
<1>13. Track(t, a, s, Replayed(q), q1, c, p, x, r, y)
  BY <1>9, <1>11, <1>12, TrackUp
<1>14. TrackAt(t)'
  BY <1>2, <1>8, <1>10, <1>13 DEF TrackAt
<1>15. ASSUME AloneAt(t) PROVE AloneAt(t)'
  <2>1. AloneOf(t, a, s, v, q, c, p, x, r)
    BY <1>8, <1>15 DEF AloneAt
  <2>2. AloneOf(t, a, s, Replayed(q), q1, c, p, x, r)
    BY <1>9, <1>11, <1>12, <2>1, AloneUp
  <2> QED BY <1>2, <1>8, <1>10, <2>2 DEF AloneAt
<1>16. TrackInv' /\ AloneInv'
  <2>1. ~NeverAttached(t)'
    BY DEF NeverAttached, Upped
  <2> QED BY <1>1, <1>2, <1>14, <1>15, <2>1, OneMoves
<1> QED BY <1>2, <1>3, <1>16 DEF RelayInv

\* A relay that has only connected has sent nothing.
LEMMA ConnectedFacts ==
  ASSUME RelayInv, NEW t \in Terms, relay[t].pc = "connected"
  PROVE  /\ SentOf(t, relay[t]) /\ relay[t] \in TermType /\ relay[t].sent = <<>> /\ relay[t].base = 0
         /\ Stream(t) = <<>> /\ serving[t].frame = <<>> /\ wire[t] = <<>>
<1>1. LinkTypes /\ TrackAt(t)
  BY DEF RelayInv, TrackInv
<1>2. SentOf(t, relay[t]) /\ relay[t] \in TermType /\ Stream(t) = <<>>
  BY <1>1 DEF TrackAt, Track, FreshOf, LinkTypes
<1>3. relay[t].sent = <<>> /\ relay[t].base = 0
  BY <1>2 DEF SentOf
<1>4. serving[t].frame = <<>>
  <2> SUFFICES ASSUME serving[t].frame # <<>> PROVE FALSE
    OBVIOUS
  <2>1. Stream(t) = <<serving[t].frame>> \o wire[t]
    BY DEF Stream
  <2>2. serving[t].frame \in Seq(Unit) /\ wire[t] \in Seq(Seq(Unit))
    BY <1>1, ViewTypes
  <2>3. <<serving[t].frame>> \o wire[t] # <<>>
    BY <2>2
  <2> QED BY <1>2, <2>1, <2>3
<1>5. wire[t] = <<>>
  <2>1. Stream(t) = <<>> \o wire[t]
    BY <1>4 DEF Stream
  <2>2. wire[t] \in Seq(Seq(Unit))
    BY <1>1, ViewTypes
  <2> QED BY <1>2, <2>1, <2>2, ConcatEmptySeq
<1> QED BY <1>2, <1>3, <1>4, <1>5

\* A relay with no replay comes up.
LEMMA SendNothingStep ==
  ASSUME RelayInv, NEW t \in Terms, SendReplay(t), relay[t].replay = <<>>
  PROVE  RelayInv'
<1>1. LinkTypes
  BY DEF RelayInv
<1>2. /\ LinkTypes' /\ UNCHANGED <<link, serving, wire, cut, tui, acted>> /\ relay[t].pc = "connected"
      /\ \A u \in Terms \ {t} : relay'[u] = relay[u]
      /\ relay'[t].pc = "up"
  BY <1>1, SendNothingEffect
<1>3. /\ relay'[t].sent = relay[t].sent /\ relay'[t].base = relay[t].base /\ relay'[t].close = relay[t].close
      /\ relay'[t].typed = relay[t].typed /\ relay'[t].replay = relay[t].replay
      /\ relay'[t].overrun = relay[t].overrun
  BY <1>1, SendNothingEffect
<1>4. /\ SentOf(t, relay[t]) /\ relay[t] \in TermType /\ relay[t].sent = <<>> /\ relay[t].base = 0
      /\ Stream(t) = <<>>
  BY <1>2, ConnectedFacts
<1>5. relay[t].typed \in Nat /\ Len(<<>>) = 0
  BY <1>4, TermFields
<1>6. Begin(relay'[t]) = Begin(relay[t])
  BY <1>2, <1>3, <1>4, <1>5 DEF Begin
<1>7. Upped(relay[t], relay'[t])
  BY <1>2, <1>3, <1>6 DEF Upped
<1>8. SentOf(t, relay'[t])
  BY <1>2, <1>3, <1>4 DEF SentOf
<1>9. Stream(t)' = Replayed(relay[t])
  <2>1. Stream(t)' = Stream(t)
    BY <1>2, StreamSame
  <2> QED BY <1>4, <2>1 DEF Replayed
<1>10. Others(t)
  BY <1>2 DEF Others
<1> QED BY <1>2, <1>3, <1>7, <1>8, <1>9, <1>10, UpStep

\* A relay sends its replay and comes up.
LEMMA SendReplayStep ==
  ASSUME RelayInv, NEW t \in Terms, SendReplay(t), relay[t].replay # <<>>, ~cut[t]
  PROVE  RelayInv'
<1>1. LinkTypes /\ relay[t].pc = "connected"
  BY DEF RelayInv, SendReplay
<1>2. /\ LinkTypes' /\ Others(t) /\ UNCHANGED <<link, serving, cut, tui, acted>>
      /\ wire'[t] = Append(wire[t], relay[t].replay)
      /\ relay'[t].pc = "up" /\ relay'[t].replay = <<>> /\ relay'[t].typed = relay[t].typed
      /\ relay'[t].close = relay[t].close /\ relay'[t].overrun = relay[t].overrun
  BY <1>1, SendReplayEffect
<1>3. relay'[t] = Record([relay[t] EXCEPT !.pc = "up", !.replay = <<>>], relay[t].replay)
  BY <1>1, SendReplayEffect
<1>4. /\ SentOf(t, relay[t]) /\ relay[t] \in TermType /\ relay[t].sent = <<>> /\ relay[t].base = 0
      /\ serving[t].frame = <<>> /\ wire[t] = <<>>
  BY <1>1, ConnectedFacts
<1>5. relay[t].typed \in Nat /\ relay[t].replay \in Seq(Unit)
  BY <1>4, TermFields
<1>6. PICK l \in Nat, n \in Nat : l = Len(relay[t].replay) /\ n = relay[t].typed
  BY <1>5, LenProperties
<1>7. l <= n /\ From(t, relay[t].replay, n - l)
  BY <1>4, <1>6 DEF SentOf
<1>8. PICK q : q = [relay[t] EXCEPT !.pc = "up", !.replay = <<>>]
  OBVIOUS
<1>9. q \in TermType /\ q.sent = <<>> /\ q.base = 0
  BY <1>4, <1>8, NewTypes DEF TermType
<1>20. Len(q.sent) = 0 /\ n - l \in Int
  BY <1>6, <1>9
<1>10. PICK k \in Nat, m \in Int : k = Len(q.sent) /\ m = n - l
  BY <1>20
<1>0. PICK u : u = relay[t].replay
  OBVIOUS
<1>21. q \in TermType /\ u \in Seq(Unit) /\ l = Len(u) /\ k = Len(q.sent)
  BY <1>0, <1>5, <1>6, <1>9, <1>10
<1>17. k = 0 /\ u \in Seq(Unit) /\ l = Len(u) /\ m + k = m
  BY <1>0, <1>5, <1>6, <1>9, <1>10
<1>11. From(t, q.sent, m) /\ From(t, u, m + Len(q.sent))
  <2>1. From(t, u, m)
    BY <1>0, <1>7, <1>10
  <2>2. From(t, q.sent, m)
    BY <1>9 DEF From
  <2> QED BY <1>10, <1>17, <2>1, <2>2
<1>22. Recorded(t, q, u, m)
  BY <1>10, <1>11, <1>21, RecordedAs
<1>18. PICK o \in 0..(k + l) :
         /\ Len(Record(q, u).sent) = (k + l) - o /\ Record(q, u).base = q.base + o
         /\ From(t, Record(q, u).sent, m + o)
  BY <1>21, <1>22 DEF Recorded
<1>12. Len(relay'[t].sent) = l - o /\ relay'[t].base = o /\ From(t, relay'[t].sent, (n - l) + o)
  <2>1. From(t, Record(q, u).sent, m + o)
    BY <1>18
  <2>2. relay'[t] = Record(q, u)
    BY <1>0, <1>3, <1>8
  <2>3. k + l = l /\ q.base + o = o /\ m + o = (n - l) + o
    BY <1>9, <1>10, <1>17
  <2> QED BY <1>18, <2>1, <2>2, <2>3
<1>19. o \in Nat /\ o <= l
  BY <1>17
<1>13. SentOf(t, relay'[t])
  <2>1. (n - l) + o = n - (l - o) /\ o + (l - o) <= n
    BY <1>7
  <2>2. From(t, relay'[t].sent, relay'[t].typed - Len(relay'[t].sent))
    BY <1>2, <1>6, <1>12, <2>1
  <2>3. relay'[t].base + Len(relay'[t].sent) <= relay'[t].typed
    BY <1>2, <1>6, <1>12, <2>1
  <2>4. From(t, relay'[t].replay, relay'[t].typed - Len(relay'[t].replay)) /\ Len(relay'[t].replay) <= relay'[t].typed
    BY <1>2, <1>5 DEF From
  <2> QED BY <1>2, <2>2, <2>3, <2>4 DEF SentOf
<1>14. Begin(relay'[t]) = Begin(relay[t])
  <2>1. Begin(relay'[t]) = n - (o + (l - o))
    BY <1>2, <1>6, <1>12 DEF Begin
  <2>2. Begin(relay[t]) = n - l
    BY <1>1, <1>6 DEF Begin
  <2> QED BY <2>1, <2>2
<1>15. Upped(relay[t], relay'[t])
  BY <1>1, <1>2, <1>14 DEF Upped
<1>16. Stream(t)' = Replayed(relay[t])
  <2>1. wire'[t] = <<relay[t].replay>>
    BY <1>2, <1>4
  <2>2. Stream(t)' = <<>> \o <<relay[t].replay>>
    BY <1>2, <1>4, <2>1 DEF Stream
  <2>3. <<>> \o <<relay[t].replay>> = <<relay[t].replay>>
    BY <1>5
  <2> QED BY <2>2, <2>3 DEF Replayed
<1> QED BY <1>2, <1>13, <1>15, <1>16, UpStep

\* A frame appended to what a connection carries.
LEMMA StreamAppend ==
  ASSUME NEW g \in Seq(Unit), NEW w \in Seq(Seq(Unit)), NEW f \in Seq(Unit)
  PROVE  (IF g = <<>> THEN <<>> ELSE <<g>>) \o Append(w, f) = Append((IF g = <<>> THEN <<>> ELSE <<g>>) \o w, f)
<1>1. CASE g = <<>>
  <2>1. <<>> \o Append(w, f) = Append(w, f)
    BY AppendProperties, ConcatEmptySeq
  <2>2. <<>> \o w = w
    BY ConcatEmptySeq
  <2> QED BY <1>1, <2>1, <2>2
<1>2. CASE g # <<>>
  <2>1. <<g>> \o Append(w, f) = Append(<<g>> \o w, f)
    OBVIOUS
  <2> QED BY <1>2, <2>1
<1> QED BY <1>1, <1>2

\* One more unit, o of them dropped.
TypeSum(n, b, k, o) ==
  /\ (n + 1) - ((k + 1) - o) = (n - k) + o /\ (b + o) + ((k + 1) - o) <= n + 1
  /\ (n + 1) - ((b + o) + ((k + 1) - o)) = n - (b + k)

\* The sums behind one more unit in the window.
LEMMA TypeArith ==
  ASSUME NEW n \in Nat, NEW b \in Nat, NEW k \in Nat, NEW o \in Nat, b + k <= n
  PROVE  TypeSum(n, b, k, o)
  BY DEF TypeSum

\* Typing does not move where the connection begins.
LEMMA TypeBegin ==
  ASSUME NEW t, NEW q \in TermType, NEW q1 \in TermType, SentOf(t, q), q.pc = "up", q1.pc \in {"up", "failed"},
         q1.typed = q.typed + 1, q1.close = q.close, q1.replay = q.replay,
         NEW k \in Nat, k = Len(q.sent), NEW m \in Int, m = q.typed - k, NEW o \in 0..(k + 1),
         Len(q1.sent) = (k + 1) - o, q1.base = q.base + o, From(t, q1.sent, m + o)
  PROVE  Typed(q, q1) /\ SentOf(t, q1)
<1>1. PICK n \in Nat, b \in Nat : n = q.typed /\ b = q.base
  BY TermFields
<1>2. b + k <= n /\ q.replay = <<>>
  BY <1>1 DEF SentOf
<1>3. q1.typed = n + 1 /\ q1.base = b + o /\ Len(q1.sent) = (k + 1) - o /\ m = n - k /\ o \in Nat
  BY <1>1
<1>8. TypeSum(n, b, k, o)
  BY <1>1, <1>2, <1>3, TypeArith
<1>4. (n + 1) - ((k + 1) - o) = m + o /\ (b + o) + ((k + 1) - o) <= n + 1
      /\ (n + 1) - ((b + o) + ((k + 1) - o)) = n - (b + k)
  BY <1>3, <1>8 DEF TypeSum
<1>5. Begin(q1) = Begin(q)
  <2>1. Begin(q1) = (n + 1) - ((b + o) + ((k + 1) - o))
    BY <1>3 DEF Begin
  <2>2. Begin(q) = n - (b + k)
    BY <1>1 DEF Begin
  <2> QED BY <1>4, <2>1, <2>2
<1>6. From(t, q1.sent, q1.typed - Len(q1.sent)) /\ q1.base + Len(q1.sent) <= q1.typed
  BY <1>3, <1>4
<1>7. From(t, q1.replay, q1.typed - Len(q1.replay)) /\ Len(q1.replay) <= q1.typed /\ q1.replay = <<>>
  BY <1>2, <1>3 DEF From
<1> QED BY <1>5, <1>6, <1>7 DEF Typed, SentOf

\* Typing preserves the invariant.
LEMMA TypeStep ==
  ASSUME RelayInv, NEW t \in Terms, Type(t)
  PROVE  RelayInv'
<1>1. LinkTypes /\ TrackInv /\ AloneInv /\ OnePending /\ Holding /\ TuiInv
  BY DEF RelayInv
<1>2. /\ LinkTypes' /\ Others(t) /\ UNCHANGED <<link, serving, cut, tui, acted>>
      /\ relay[t].pc = "up" /\ relay[t].typed + 1 \in 1..MaxTyped
      /\ wire'[t] = IF cut[t] THEN wire[t] ELSE Append(wire[t], <<<<t, relay[t].typed + 1>>>>)
      /\ relay'[t].pc = (IF cut[t] THEN "failed" ELSE "up")
      /\ relay'[t].replay = relay[t].replay /\ relay'[t].typed = relay[t].typed + 1
      /\ relay'[t].close = relay[t].close /\ relay'[t].overrun = relay[t].overrun
  BY <1>1, TypeEffect
<1>3. \A k \in Nat, m \in Int : k = Len(relay[t].sent) =>
        \E o \in 0..(k + 1) :
          /\ Len(relay'[t].sent) = (k + 1) - o /\ relay'[t].base = relay[t].base + o
          /\ From(t, relay[t].sent, m) /\ m + k = relay[t].typed => From(t, relay'[t].sent, m + o)
  BY <1>1, TypeEffect
<1>4. PICK a, s, v, q, c, p, x, r, y :
        /\ a = acted[t] /\ s = Ahead /\ v = Stream(t) /\ q = relay[t] /\ c = cut[t]
        /\ p = serving[t].pc /\ x = link.term /\ r = link.received /\ y = tui.pc
  OBVIOUS
<1>5. a \in Seq(Nat) /\ s \in Seq(Unit) /\ v \in Seq(Seq(Unit)) /\ q \in TermType /\ c \in BOOLEAN /\ r \in Nat
  BY <1>1, <1>4, ViewTypes
<1>6. PICK q1 : q1 = relay'[t]
  OBVIOUS
<1>7. q1 \in TermType
  BY <1>2, <1>6, ViewTypesNext
<1>8. Track(t, a, s, v, q, c, p, x, r, y)
  BY <1>1, <1>4 DEF TrackInv, TrackAt
<1>9. SentOf(t, q)
  BY <1>8 DEF Track
<1>10. Typed(q, q1) /\ SentOf(t, q1)
  <2>1. q.sent \in Seq(Unit) /\ q.typed \in Nat
    BY <1>5, TermFields
  <2>2. PICK k \in Nat, m \in Int : k = Len(q.sent) /\ m = q.typed - k
    BY <2>1, LenProperties
  <2>3. From(t, q.sent, m) /\ m + k = q.typed
    BY <1>9, <2>1, <2>2 DEF SentOf
  <2>4. PICK o \in 0..(k + 1) : Len(q1.sent) = (k + 1) - o /\ q1.base = q.base + o /\ From(t, q1.sent, m + o)
    BY <1>3, <1>4, <1>6, <2>2, <2>3
  <2> QED BY <1>2, <1>4, <1>5, <1>6, <1>7, <1>9, <2>2, <2>4, TypeBegin
<1>11. /\ \A u \in Terms \ {t} : TrackAt(u)' /\ (NeverAttached(u)' => NeverAttached(u))
       /\ Ahead' = Ahead /\ Holding' /\ TuiInv'
       /\ (Pending(relay'[t]) => Pending(relay[t])) => OnePending'
  BY <1>2, OthersKeep
<1>12. OnePending'
  BY <1>2, <1>11 DEF Pending
<1>13. ~NeverAttached(t)'
  BY <1>2 DEF NeverAttached
<1>14. CASE ~cut[t]
  <2>1. PICK n \in Nat : n = q.typed + 1
    BY <1>5, TermFields, SMTT(30)
  <2>2. PICK f : f = <<<<t, n>>>>
    OBVIOUS
  <2>3. f \in Seq(Unit)
    <3>1. <<t, n>> \in Unit
      BY <1>2, <1>4, <2>1 DEF Unit
    <3> QED BY <2>2, <3>1
  <2>4. IsRun(t, f) /\ FirstOf(f) = n /\ FinalOf(f) = n
    BY <2>2, <2>3, UnitRun
  <2>5. q1.pc = "up" /\ q1.typed = n /\ ~c
    BY <1>2, <1>4, <1>6, <1>14, <2>1
  <2>6. Stream(t)' = Append(v, f)
    <3>1. wire'[t] = Append(wire[t], f) /\ serving'[t] = serving[t]
      BY <1>2, <1>4, <1>14, <2>1, <2>2
    <3>2. PICK g, w : g = serving[t].frame /\ w = wire[t]
      OBVIOUS
    <3>5. g \in Seq(Unit) /\ w \in Seq(Seq(Unit))
      BY <1>1, <3>2, ViewTypes
    <3>3. Stream(t)' = (IF g = <<>> THEN <<>> ELSE <<g>>) \o Append(w, f)
      BY <3>1, <3>2 DEF Stream
    <3>4. v = (IF g = <<>> THEN <<>> ELSE <<g>>) \o w
      BY <1>4, <3>2 DEF Stream
    <3>6. (IF g = <<>> THEN <<>> ELSE <<g>>) \o Append(w, f) = Append((IF g = <<>> THEN <<>> ELSE <<g>>) \o w, f)
      BY <2>3, <3>5, StreamAppend
    <3> QED BY <3>3, <3>4, <3>6
  <2>7. Track(t, a, s, Append(v, f), q1, c, p, x, r, y)
    BY <1>5, <1>7, <1>8, <1>10, <2>3, <2>4, <2>5, TrackTypeSent
  <2>8. TrackAt(t)'
    BY <1>2, <1>4, <1>6, <1>11, <2>6, <2>7 DEF TrackAt
  <2>9. ASSUME AloneAt(t) PROVE AloneAt(t)'
    <3>1. AloneOf(t, a, s, v, q, c, p, x, r)
      BY <1>4, <2>9 DEF AloneAt
    <3>2. AloneOf(t, a, s, Append(v, f), q1, c, p, x, r)
      BY <1>5, <1>7, <1>8, <1>10, <2>3, <2>4, <2>5, <3>1, AloneTypeSent
    <3> QED BY <1>2, <1>4, <1>6, <1>11, <2>6, <3>2 DEF AloneAt
  <2>10. TrackInv' /\ AloneInv'
    BY <1>1, <1>2, <1>11, <1>13, <2>8, <2>9, OneMoves
  <2> QED BY <1>2, <1>11, <1>12, <2>10 DEF RelayInv
<1>15. CASE cut[t]
  <2>1. q1.pc = "failed" /\ c
    BY <1>2, <1>4, <1>6, <1>15
  <2>2. Stream(t)' = v
    <3>1. wire'[t] = wire[t] /\ serving'[t] = serving[t]
      BY <1>2, <1>15
    <3> QED BY <1>4, <3>1, StreamSame
  <2>7. Track(t, a, s, v, q1, c, p, x, r, y)
    BY <1>5, <1>7, <1>8, <1>10, <2>1, TrackTypeLost
  <2>8. TrackAt(t)'
    BY <1>2, <1>4, <1>6, <1>11, <2>2, <2>7 DEF TrackAt
  <2>9. ASSUME AloneAt(t) PROVE AloneAt(t)'
    <3>1. AloneOf(t, a, s, v, q, c, p, x, r)
      BY <1>4, <2>9 DEF AloneAt
    <3>2. AloneOf(t, a, s, v, q1, c, p, x, r)
      BY <1>5, <1>7, <1>8, <1>10, <2>1, <3>1, AloneTypeLost
    <3> QED BY <1>2, <1>4, <1>6, <1>11, <2>2, <3>2 DEF AloneAt
  <2>10. TrackInv' /\ AloneInv'
    BY <1>1, <1>2, <1>11, <1>13, <2>8, <2>9, OneMoves
  <2> QED BY <1>2, <1>11, <1>12, <2>10 DEF RelayInv
<1> QED BY <1>14, <1>15

\* The frame a thread holds is the first its connection carries.
LEMMA StreamNext ==
  ASSUME NEW g \in Seq(Unit), NEW w \in Seq(Seq(Unit)), NEW v, v = <<g>> \o w
  PROVE  v # <<>> /\ v[1] = g /\ Tail(v) = w
<1>1. <<g>> \in Seq(Seq(Unit)) /\ Len(<<g>>) = 1
  OBVIOUS
<1>2. PICK k \in Nat : k = Len(w)
  BY LenProperties
<1>3. v \in Seq(Seq(Unit)) /\ Len(v) = k + 1 /\ v[1] = g /\ \A i \in 1..k : v[i + 1] = w[i]
  BY <1>1, <1>2
<1>4. v # <<>>
  BY <1>2, <1>3
<1>5. Tail(v) \in Seq(Seq(Unit)) /\ Len(Tail(v)) = (k + 1) - 1 /\ \A i \in 1..((k + 1) - 1) : Tail(v)[i] = v[i + 1]
  BY <1>2, <1>3, <1>4, TailIndex
<1>6. (k + 1) - 1 = k
  BY <1>2
<1>7. Len(Tail(v)) = Len(w) /\ \A i \in 1..Len(w) : Tail(v)[i] = w[i]
  BY <1>2, <1>3, <1>5, <1>6
<1>8. Tail(v) = w
  BY <1>5, <1>7, SeqEqual
<1> QED BY <1>3, <1>4, <1>8

\* Delivering a frame preserves the invariant.
LEMMA DeliverStep ==
  ASSUME RelayInv, NEW t \in Terms, Deliver(t)
  PROVE  RelayInv'
<1>1. LinkTypes /\ TrackInv /\ AloneInv /\ OnePending /\ Holding /\ TuiInv
  BY DEF RelayInv
<1>2. /\ LinkTypes' /\ \A u \in Terms \ {t} : serving'[u] = serving[u]
      /\ serving[t].pc = "holding" /\ serving'[t].pc = "reading" /\ serving'[t].frame = <<>>
      /\ link'.input = link.input \o serving[t].frame
      /\ link'.received = link.received + Len(serving[t].frame) /\ link'.term = link.term
      /\ UNCHANGED <<wire, cut, relay, tui, acted>>
  BY <1>1, DeliverEffect
<1>3. PICK a, s, v, q, c, p, x, r, y :
        /\ a = acted[t] /\ s = Ahead /\ v = Stream(t) /\ q = relay[t] /\ c = cut[t]
        /\ p = serving[t].pc /\ x = link.term /\ r = link.received /\ y = tui.pc
  OBVIOUS
<1>4. PICK f, w : f = serving[t].frame /\ w = wire[t]
  OBVIOUS
<1>5. a \in Seq(Nat) /\ s \in Seq(Unit) /\ v \in Seq(Seq(Unit)) /\ q \in TermType /\ c \in BOOLEAN /\ r \in Nat
      /\ f \in Seq(Unit) /\ w \in Seq(Seq(Unit)) /\ tui.decoder \in Seq(Unit) /\ link.input \in Seq(Unit)
  BY <1>1, <1>3, <1>4, ViewTypes
<1>6. f # <<>>
  BY <1>1, <1>2, <1>4 DEF Holding
<1>7. v # <<>> /\ v[1] = f /\ Tail(v) = w
  <2>1. v = <<f>> \o w
    BY <1>3, <1>4, <1>6 DEF Stream
  <2> QED BY <1>5, <2>1, StreamNext
<1>8. PICK m \in Nat : m = Len(f)
  BY <1>5, LenProperties
<1>9. Ahead' = s \o f
  <2>3. PICK d, i : d = tui.decoder /\ i = link.input
    OBVIOUS
  <2>4. d \in Seq(Unit) /\ i \in Seq(Unit)
    BY <1>5, <2>3
  <2>1. Ahead' = d \o (i \o f)
    BY <1>2, <1>4, <2>3 DEF Ahead
  <2>2. s = d \o i
    BY <1>3, <2>3 DEF Ahead
  <2>5. (d \o i) \o f = d \o (i \o f)
    <3>1. f \in Seq(Unit)
      BY <1>5
    <3> QED BY <2>4, <3>1, ConcatAssociative
  <2> QED BY <2>1, <2>2, <2>5
<1>10. Stream(t)' = w
  <2>1. Stream(t)' = <<>> \o w
    BY <1>2, <1>4 DEF Stream
  <2> QED BY <1>5, <2>1, ConcatEmptySeq
<1>11. Track(t, a, s, v, q, c, p, x, r, y)
  BY <1>1, <1>3 DEF TrackInv, TrackAt
<1>12. PICK p1 : p1 = serving'[t].pc
  OBVIOUS
<1>13. p # "off" /\ p1 # "off"
  BY <1>2, <1>3, <1>12
<1>14. Track(t, a, s \o f, Tail(v), q, c, p1, x, Received(r, f), y) /\ IsRun(t, f)
  <2>1. Track(t, a, s \o f, Tail(v), q, c, p1, x, Received(r, f), y)
    BY <1>5, <1>7, <1>8, <1>11, <1>13, TrackDeliverOwn, ZenonT(60)
  <2>2. Chain(t, v, q.typed)
    BY <1>11, <1>13 DEF Track, OrderOf
  <2>3. 1 \in DOMAIN v
    BY <1>5, <1>7, EmptySeq
  <2> QED BY <1>7, <2>1, <2>2, <2>3 DEF Chain
<1>15. link'.received = Received(r, f)
  BY <1>2, <1>3, <1>4 DEF Received
<1>16. TrackAt(t)'
  BY <1>2, <1>3, <1>7, <1>9, <1>10, <1>12, <1>14, <1>15 DEF TrackAt
<1>17. ASSUME AloneAt(t) PROVE AloneAt(t)'
  <2>1. AloneOf(t, a, s, v, q, c, p, x, r)
    BY <1>3, <1>17 DEF AloneAt
  <2>2. AloneOf(t, a, s \o f, Tail(v), q, c, p1, x, Received(r, f))
    BY <1>5, <1>7, <1>8, <1>11, <1>13, <2>1, AloneDeliver, ZenonT(60)
  <2> QED BY <1>2, <1>3, <1>7, <1>9, <1>10, <1>12, <1>15, <2>2 DEF AloneAt
<1>18. ASSUME NEW u \in Terms \ {t} PROVE TrackAt(u)' /\ (NeverAttached(u)' => NeverAttached(u))
  <2>1. PICK a1, v1, q1, c1, pu : a1 = acted[u] /\ v1 = Stream(u) /\ q1 = relay[u] /\ c1 = cut[u] /\ pu = serving[u].pc
    OBVIOUS
  <2>2. a1 \in Seq(Nat) /\ v1 \in Seq(Seq(Unit)) /\ q1 \in TermType /\ c1 \in BOOLEAN
    BY <1>1, <2>1, ViewTypes
  <2>3. Track(u, a1, s, v1, q1, c1, pu, x, r, y)
    BY <1>1, <1>3, <2>1 DEF TrackInv, TrackAt
  <2>4. Track(u, a1, s \o f, v1, q1, c1, pu, x, Received(r, f), y)
    BY <1>5, <1>8, <1>14, <2>2, <2>3, TrackDeliverOther
  <2>5. Stream(u)' = v1
    BY <1>2, <2>1, StreamSame
  <2>6. TrackAt(u)'
    BY <1>2, <1>3, <1>9, <1>15, <2>1, <2>4, <2>5 DEF TrackAt
  <2>7. NeverAttached(u)' => NeverAttached(u)
    BY <1>2 DEF NeverAttached
  <2> QED BY <2>6, <2>7
<1>19. ~NeverAttached(t)'
  <2>1. AttachedOf(q, c, p # "off", x = t)
    BY <1>11 DEF Track
  <2> QED BY <1>2, <1>3, <1>13, <2>1 DEF NeverAttached, AttachedOf
<1>20. TrackInv' /\ AloneInv'
  BY <1>1, <1>2, <1>16, <1>17, <1>18, <1>19, OneMoves
<1>21. OnePending' /\ TuiInv'
  BY <1>1, <1>2 DEF OnePending, TuiInv
<1>22. Holding'
  BY <1>1, <1>2 DEF Holding
<1> QED BY <1>2, <1>20, <1>21, <1>22 DEF RelayInv

\* The decoder's first unit is the first ahead.
LEMMA HeadAhead ==
  ASSUME NEW d \in Seq(Unit), NEW i \in Seq(Unit), d # <<>>, NEW s, s = d \o i
  PROVE  s # <<>> /\ s[1] = Head(d) /\ Tail(s) = Tail(d) \o i
<1>1. PICK k \in Nat, l \in Nat : k = Len(d) /\ l = Len(i)
  BY LenProperties
<1>2. k >= 1 /\ Tail(d) \in Seq(Unit) /\ Len(Tail(d)) = k - 1
      /\ Head(d) = d[1] /\ \A j \in 1..(k - 1) : Tail(d)[j] = d[j + 1]
  BY <1>1, TailIndex
<1>3. /\ s \in Seq(Unit) /\ Len(s) = k + l
      /\ \A j \in 1..k : s[j] = d[j]
      /\ \A j \in 1..l : s[k + j] = i[j]
  BY <1>1, Concat
<1>4. s # <<>> /\ s[1] = Head(d)
  <2>1. 1 \in 1..k /\ k + l >= 1
    BY <1>1, <1>2
  <2> QED BY <1>2, <1>3, <2>1
<1>5. PICK n \in Nat, h \in Nat : n = k + l /\ h = k - 1
  BY <1>1, <1>2
<1>6. Tail(s) \in Seq(Unit) /\ Len(Tail(s)) = n - 1 /\ \A j \in 1..(n - 1) : Tail(s)[j] = s[j + 1]
  BY <1>3, <1>4, <1>5, TailIndex
<1>7. PICK e : e = Tail(d) \o i
  OBVIOUS
<1>8. /\ e \in Seq(Unit) /\ Len(e) = h + l
      /\ \A j \in 1..h : e[j] = Tail(d)[j]
      /\ \A j \in 1..l : e[h + j] = i[j]
  BY <1>1, <1>2, <1>5, <1>7, Concat
<1>9. n - 1 = h + l
  BY <1>1, <1>5
<1>10. ASSUME NEW j \in 1..(h + l) PROVE Tail(s)[j] = e[j]
  <2>1. j \in 1..h \/ \E o \in 1..l : j = h + o
    <3>1. h \in Nat /\ l \in Nat
      BY <1>1, <1>5
    <3> QED BY <3>1, SplitIndex
  <2>2. Tail(s)[j] = s[j + 1]
    BY <1>6, <1>9
  <2>3. CASE j \in 1..h
    <3>1. j + 1 \in 1..k /\ j \in 1..(k - 1)
      BY <1>1, <1>5, <2>3
    <3> QED BY <1>2, <1>3, <1>8, <2>2, <2>3, <3>1
  <2>4. ASSUME NEW o \in 1..l, j = h + o PROVE Tail(s)[j] = e[j]
    <3>1. j + 1 = k + o
      BY <1>1, <1>5, <2>4
    <3>2. s[j + 1] = i[o]
      BY <1>3, <3>1
    <3>3. e[j] = i[o]
      BY <1>8, <2>4
    <3> QED BY <2>2, <3>2, <3>3
  <2> QED BY <2>1, <2>3, <2>4
<1>11. Tail(s) = e
  <2>1. Len(Tail(s)) = Len(e) /\ \A j \in 1..Len(e) : Tail(s)[j] = e[j]
    BY <1>6, <1>8, <1>9, <1>10
  <2> QED BY <1>6, <1>8, <2>1, SeqEqual
<1> QED BY <1>4, <1>7, <1>11

\* Acting on a unit preserves the invariant.
LEMMA ActStep ==
  ASSUME RelayInv, NEW handler, Act(handler)
  PROVE  RelayInv'
<1>1. LinkTypes /\ TrackInv /\ AloneInv /\ OnePending /\ Holding /\ TuiInv
  BY DEF RelayInv
<1>2. /\ LinkTypes' /\ tui.pc = "loop" /\ tui'.pc = "loop" /\ tui.decoder # <<>> /\ tui'.decoder = Tail(tui.decoder)
      /\ UNCHANGED <<link, serving, wire, cut, relay>>
  BY <1>1, ActEffect
<1>3. PICK t \in Terms, n \in 1..MaxTyped :
        /\ Head(tui.decoder) = <<t, n>> /\ acted'[t] = Append(acted[t], n)
        /\ \A u \in Terms \ {t} : acted'[u] = acted[u]
  BY <1>1, ActEffect
<1>4. n \in Nat
  BY <1>3, RelayAssumption
<1>5. PICK s : s = Ahead
  OBVIOUS
<1>6. s \in Seq(Unit) /\ tui.decoder \in Seq(Unit) /\ link.input \in Seq(Unit)
  BY <1>1, <1>3, <1>5, ViewTypes
<1>7. s # <<>> /\ s[1] = <<t, n>> /\ Tail(s) = Tail(tui.decoder) \o link.input
  <2>1. PICK d, i : d = tui.decoder /\ i = link.input
    OBVIOUS
  <2>2. s = d \o i /\ d \in Seq(Unit) /\ i \in Seq(Unit) /\ d # <<>>
    BY <1>2, <1>5, <1>6, <2>1 DEF Ahead
  <2>3. s # <<>> /\ s[1] = Head(d) /\ Tail(s) = Tail(d) \o i
    BY <2>2, HeadAhead
  <2> QED BY <1>3, <2>1, <2>3
<1>8. Ahead' = Tail(s)
  BY <1>2, <1>7 DEF Ahead
<1>9. \A u \in Terms : Stream(u)' = Stream(u)
  BY <1>2, StreamSame
<1>10. ASSUME NEW u \in Terms
       PROVE  /\ TrackAt(u)' /\ (Solo(u)' => AloneAt(u)')
  <2>1. PICK a, v, q, c, p, x, r, y :
        /\ a = acted[u] /\ v = Stream(u) /\ q = relay[u] /\ c = cut[u]
        /\ p = serving[u].pc /\ x = link.term /\ r = link.received /\ y = tui.pc
    OBVIOUS
  <2>2. a \in Seq(Nat) /\ v \in Seq(Seq(Unit)) /\ q \in TermType /\ c \in BOOLEAN /\ r \in Nat
    BY <1>1, <2>1, ViewTypes
  <2>3. Track(u, a, s, v, q, c, p, x, r, y) /\ y # "closed" /\ tui'.pc = y
    BY <1>1, <1>2, <1>5, <2>1 DEF TrackInv, TrackAt
  <2>4. Solo(u)' => AloneOf(u, a, s, v, q, c, p, x, r)
    <3>1. Solo(u)' => Solo(u)
      BY <1>2 DEF Solo, NeverAttached
    <3> QED BY <1>1, <1>5, <2>1, <3>1 DEF AloneInv, AloneAt
  <2>5. CASE u = t
    <3>1. s[1] = <<u, n>> /\ acted'[u] = Append(a, n)
      BY <1>3, <1>7, <2>1, <2>5
    <3>2. Track(u, Append(a, n), Tail(s), v, q, c, p, x, r, y)
      BY <1>4, <1>6, <1>7, <2>2, <2>3, <3>1, TrackActOwn
    <3>3. Solo(u)' => AloneOf(u, Append(a, n), Tail(s), v, q, c, p, x, r)
      BY <1>4, <1>6, <1>7, <2>2, <2>3, <2>4, <3>1, AloneAct
    <3>4. TrackAt(u)'
      BY <1>2, <1>8, <1>9, <2>1, <2>3, <3>1, <3>2 DEF TrackAt
    <3>5. Solo(u)' => AloneAt(u)'
      BY <1>2, <1>8, <1>9, <2>1, <3>1, <3>3 DEF AloneAt
    <3> QED BY <3>4, <3>5
  <2>6. CASE u # t
    <3>1. s[1][1] # u /\ acted'[u] = a
      BY <1>3, <1>7, <2>1, <2>6
    <3>2. Track(u, a, Tail(s), v, q, c, p, x, r, y)
      BY <1>6, <1>7, <2>2, <2>3, <3>1, TrackActOther
    <3>3. ~Solo(u)'
      <4>1. \A m : ~From(u, s, m)
        BY <1>6, <1>7, <2>2, <3>1, ActOther
      <4> QED BY <2>4, <4>1 DEF AloneOf
    <3>4. TrackAt(u)'
      BY <1>2, <1>8, <1>9, <2>1, <2>3, <3>1, <3>2 DEF TrackAt
    <3> QED BY <3>3, <3>4
  <2> QED BY <2>5, <2>6
<1>11. TrackInv' /\ AloneInv'
  BY <1>10 DEF TrackInv, AloneInv
<1>12. OnePending' /\ Holding' /\ TuiInv'
  BY <1>1, <1>2 DEF OnePending, Holding, TuiInv
<1> QED BY <1>2, <1>11, <1>12 DEF RelayInv

\* The count reported by a close with a handoff is what arrived and is not ahead.
LEMMA ConsumedAhead ==
  ASSUME LinkTypes, TuiInv, tui.pc = "settling", tui.handoff
  PROVE  Consumed = Taken(link.received, Len(Ahead))
<1>1. tui.decoder \in Seq(Unit) /\ link.input \in Seq(Unit) /\ link.received \in Nat
  BY DEF LinkTypes, LinkType, TuiType
<1>2. PICK k \in Nat, l \in Nat : k = Len(tui.decoder) /\ l = Len(link.input)
  BY <1>1, LenProperties
<1>3. PICK d, i, s : d = tui.decoder /\ i = link.input /\ s = d \o i
  OBVIOUS
<1>4. Len(s) = k + l
  BY <1>1, <1>2, <1>3, Concat
<1>5. Len(Ahead) = k + l
  BY <1>3, <1>4 DEF Ahead
<1>6. tui.unconsumed = k
  BY <1>2 DEF TuiInv
<1> QED BY <1>2, <1>5, <1>6 DEF Consumed, Taken

\* `close_with_handoff` preserves it.
LEMMA CloseStep ==
  ASSUME RelayInv, CloseWithHandoff
  PROVE  RelayInv'
<1>1. LinkTypes /\ TrackInv /\ AloneInv /\ OnePending /\ Holding /\ TuiInv
  BY DEF RelayInv
<1>2. /\ LinkTypes' /\ tui.pc = "settling" /\ tui'.pc = "closed" /\ tui'.decoder = tui.decoder
      /\ link'.term = Nobody /\ link'.input = link.input /\ link'.received = link.received
      /\ UNCHANGED <<serving, wire, acted>>
      /\ link.term = Nobody => relay' = relay /\ cut' = cut
  BY <1>1, CloseEffect
<1>3. TuiInv'
  BY <1>2 DEF TuiInv
<1>4. CASE link.term = Nobody
  <2>1. TrackInv' /\ AloneInv' /\ OnePending' /\ Holding'
    BY <1>2, <1>4, CutStep
  <2> QED BY <1>2, <1>3, <2>1 DEF RelayInv
<1>5. CASE link.term # Nobody
  <2>1. PICK t : t = link.term
    OBVIOUS
  <2>2. /\ t \in Terms /\ cut'[t] = TRUE
        /\ \A u \in Terms \ {t} : relay'[u] = relay[u] /\ cut'[u] = cut[u]
        /\ relay'[t] \in TermType
        /\ Closed(relay[t], relay'[t], tui.handoff, Consumed)
    BY <1>1, <1>5, <2>1, CloseEffect
  <2>3. PICK a, s, v, q, c, p, x, r, y :
        /\ a = acted[t] /\ s = Ahead /\ v = Stream(t) /\ q = relay[t] /\ c = cut[t]
        /\ p = serving[t].pc /\ x = link.term /\ r = link.received /\ y = tui.pc
    OBVIOUS
  <2>4. a \in Seq(Nat) /\ s \in Seq(Unit) /\ v \in Seq(Seq(Unit)) /\ q \in TermType /\ c \in BOOLEAN /\ r \in Nat
    BY <1>1, <2>2, <2>3, ViewTypes
  <2>5. PICK q1, c1, x1, y1, h : q1 = relay'[t] /\ c1 = cut'[t] /\ x1 = link'.term /\ y1 = tui'.pc /\ h = tui.handoff
    OBVIOUS
  <2>6. q1 \in TermType /\ c1 = TRUE /\ x1 # t /\ y1 = "closed" /\ x = t /\ h \in BOOLEAN
    BY <1>1, <1>2, <2>1, <2>2, <2>3, <2>5, RelayAssumption DEF LinkTypes, TuiType
  <2>7. Closed(q, q1, h, Taken(r, Len(s)))
    <3>1. tui.handoff => Consumed = Taken(r, Len(s))
      BY <1>1, <1>2, <2>3, ConsumedAhead
    <3> QED BY <2>2, <2>3, <2>5, <3>1 DEF Closed
  <2>8. Track(t, a, s, v, q, c, p, x, r, y)
    BY <1>1, <2>2, <2>3 DEF TrackInv, TrackAt
  <2>9. Track(t, a, s, v, q1, c1, p, x1, r, y1)
    BY <2>4, <2>6, <2>7, <2>8, TrackClose, ZenonT(60)
  <2>10. Ahead' = Ahead /\ \A u \in Terms : Stream(u)' = Stream(u)
    <3>1. Ahead' = Ahead
      BY <1>2 DEF Ahead
    <3> QED BY <1>2, <3>1, StreamSame
  <2>11. TrackAt(t)'
    BY <1>2, <2>2, <2>3, <2>5, <2>9, <2>10 DEF TrackAt
  <2>12. ASSUME AloneAt(t) PROVE AloneAt(t)'
    <3>1. AloneOf(t, a, s, v, q, c, p, x, r)
      BY <2>3, <2>12 DEF AloneAt
    <3>2. AloneOf(t, a, s, v, q1, c1, p, x1, r)
      BY <2>4, <2>6, <2>7, <2>8, <3>1, AloneClose
    <3> QED BY <1>2, <2>2, <2>3, <2>5, <2>10, <3>2 DEF AloneAt
  <2>13. ASSUME NEW u \in Terms \ {t} PROVE TrackAt(u)' /\ (NeverAttached(u)' => NeverAttached(u))
    <3>1. TrackAt(u) /\ Before(Ahead', Ahead)
      BY <1>1, <2>4, <2>3, <2>10, Prefixes DEF TrackInv
    <3>2. link'.term # u
      BY <1>2, RelayAssumption
    <3>3. Loses(u) /\ (NeverAttached(u)' => NeverAttached(u))
      BY <1>1, <1>2, <2>2, <2>10, <3>1, <3>2, LeftAlone
    <3> QED BY <1>1, <1>2, <3>1, <3>3, TrackLoses
  <2>14. ~NeverAttached(t)' /\ relay'[t].overrun = relay[t].overrun
    BY <2>2 DEF NeverAttached, Closed
  <2>15. TrackInv' /\ AloneInv'
    BY <1>1, <2>2, <2>11, <2>12, <2>13, <2>14, OneMoves
  <2>16. \A u \in Terms : ~Pending(relay[u])
    BY <1>1, <1>2 DEF TrackInv, TrackAt, Track, PendingOf
  <2>17. OnePending'
    BY <2>2, <2>16 DEF OnePending
  <2>18. Holding'
    BY <1>1, <1>2 DEF Holding
  <2> QED BY <1>2, <1>3, <2>15, <2>17, <2>18 DEF RelayInv
<1> QED BY <1>4, <1>5

\* The handoff to the next runtime preserves it.
LEMMA FinishStep ==
  ASSUME RelayInv, NEW t \in Terms, Finish(t), relay[t].close.handoff, runtimes # MaxRuntimes
  PROVE  RelayInv'
<1>1. LinkTypes /\ TrackInv /\ AloneInv /\ OnePending /\ Holding /\ TuiInv
  BY DEF RelayInv
<1>2. /\ LinkTypes' /\ UNCHANGED acted /\ relay[t].pc \in {"up", "failed"}
      /\ \A u \in Terms \ {t} : relay'[u] = relay[u]
      /\ relay'[t] \in TermType /\ Resolved(relay[t], relay'[t])
      /\ relay'[t].overrun = (relay[t].overrun \/ ~(relay[t].close.consumed >= relay[t].base))
      /\ link'.term = Nobody /\ link'.input = <<>> /\ tui'.decoder = <<>> /\ tui' = NewTui
  BY <1>1, FinishEffect
<1>3. \A u \in Terms : /\ serving'[u].pc = "off" /\ serving'[u].frame = <<>> /\ wire'[u] = <<>>
                       /\ cut'[u] = (u = t \/ cut[u] \/ relay[u].pc # "idle")
  BY <1>1, FinishEffect
<1>4. Ahead' = <<>> /\ \A u \in Terms : Stream(u)' = <<>>
  <2>1. <<>> \o <<>> = <<>>
    BY NewTypes, ConcatEmptySeq
  <2> QED BY <1>2, <1>3, <2>1 DEF Ahead, Stream
<1>5. Pending(relay[t])
  BY <1>2 DEF Pending
<1>6. PICK a, s, v, q, c, p, x, r, y :
        /\ a = acted[t] /\ s = Ahead /\ v = Stream(t) /\ q = relay[t] /\ c = cut[t]
        /\ p = serving[t].pc /\ x = link.term /\ r = link.received /\ y = tui.pc
  OBVIOUS
<1>7. a \in Seq(Nat) /\ s \in Seq(Unit) /\ v \in Seq(Seq(Unit)) /\ q \in TermType /\ c \in BOOLEAN /\ r \in Nat
  BY <1>1, <1>6, ViewTypes
<1>8. PICK q1, c1, p1, x1, r1, y1 :
        /\ q1 = relay'[t] /\ c1 = cut'[t] /\ p1 = serving'[t].pc /\ x1 = link'.term
        /\ r1 = link'.received /\ y1 = tui'.pc
  OBVIOUS
<1>9. q1 \in TermType /\ c1 = TRUE /\ p1 = "off" /\ x1 # t /\ Resolved(q, q1)
      /\ Pending(q) /\ q.pc \in {"up", "failed"}
  BY <1>2, <1>3, <1>5, <1>6, <1>8, RelayAssumption
<1>10. Track(t, a, s, v, q, c, p, x, r, y)
  BY <1>1, <1>6 DEF TrackInv, TrackAt
<1>11. Track(t, a, <<>>, <<>>, q1, c1, p1, x1, r1, y1)
  BY <1>7, <1>9, <1>10, TrackFinish
<1>12. TrackAt(t)'
  BY <1>2, <1>4, <1>6, <1>8, <1>11 DEF TrackAt
<1>13. ASSUME AloneAt(t), ~relay'[t].overrun PROVE AloneAt(t)'
  <2>1. AloneOf(t, a, s, v, q, c, p, x, r)
    BY <1>6, <1>13 DEF AloneAt
  <2>2. Known(q)
    BY <1>2, <1>6, <1>13 DEF Known
  <2>3. AloneOf(t, a, <<>>, <<>>, q1, c1, p1, x1, r1)
    <3>1. q1 \in TermType /\ p1 = "off" /\ x1 # t /\ Resolved(q, q1) /\ Pending(q) /\ q.pc \in {"up", "failed"}
      BY <1>9
    <3> QED BY <1>7, <1>10, <2>1, <2>2, <3>1, AloneFinish
  <2> QED BY <1>2, <1>4, <1>6, <1>8, <2>3 DEF AloneAt
<1>14. ASSUME NEW u \in Terms \ {t} PROVE TrackAt(u)' /\ (NeverAttached(u)' => NeverAttached(u))
  <2>1. TrackAt(u) /\ Before(Ahead', Ahead)
    <3>1. Before(<<>>, Ahead)
      BY <1>6, <1>7, Prefixes
    <3> QED BY <1>1, <1>4, <3>1 DEF TrackInv
  <2>2. link'.term # u
    BY <1>2, RelayAssumption
  <2>3. ~Pending(relay[u])
    BY <1>1, <1>5 DEF OnePending
  <2>4. Lowered(relay[u], relay'[u]) /\ acted'[u] = acted[u] /\ (cut[u] => cut'[u])
    BY <1>2, <1>3 DEF Lowered
  <2>5. relay'[u].pc = "gone" => cut'[u] \/ relay[u].pc \in {"idle", "gone"}
    BY <1>2
  <2>6. Loses(u)
    BY <1>3, <1>4, <2>1, <2>2, <2>3, <2>4, <2>5 DEF Loses
  <2>7. NeverAttached(u)' => NeverAttached(u)
    BY <1>2, <1>3 DEF NeverAttached
  <2> QED BY <1>1, <1>2, <2>1, <2>6, <2>7, TrackLoses
<1>15. ~NeverAttached(t)' /\ (relay[t].overrun => relay'[t].overrun)
  BY <1>2, <1>3 DEF NeverAttached
<1>16. TrackInv' /\ AloneInv'
  BY <1>1, <1>12, <1>13, <1>14, <1>15, OneMoves
<1>17. OnePending'
  <2>1. ~Pending(relay'[t])
    BY <1>2 DEF Pending, Resolved
  <2> QED BY <1>1, <1>2, <2>1 DEF OnePending
<1>18. Holding' /\ TuiInv'
  BY <1>2, <1>3 DEF Holding, TuiInv, NewTui
<1> QED BY <1>2, <1>16, <1>17, <1>18 DEF RelayInv

\* The invariant holds at the start.
LEMMA RelayInitInv ==
  ASSUME RelayInit
  PROVE  RelayInv
<1>1. LinkTypes
  <2>1. PICK q : q = [pc |-> "idle", typed |-> 0, sent |-> <<>>, base |-> 0, replay |-> <<>>,
                               close |-> NoClose, overrun |-> FALSE]
    OBVIOUS
  <2>2. q \in TermType
    BY <2>1, NewTypes, RelayAssumption DEF TermType
  <2>3. relay \in [Terms -> TermType]
    BY <2>1, <2>2 DEF RelayInit
  <2>4. serving \in [Terms -> ThreadType] /\ wire \in [Terms -> Seq(Seq(Unit))] /\ cut \in [Terms -> BOOLEAN]
    BY NewTypes DEF RelayInit
  <2>5. acted \in [Terms -> Seq(1..MaxTyped)] /\ link \in LinkType /\ tui \in TuiType
    BY NewTypes DEF RelayInit
  <2> QED BY <2>3, <2>4, <2>5 DEF LinkTypes
<1>2. Ahead = <<>> /\ link.term = Nobody /\ link.received = 0 /\ tui.pc = "starting" /\ tui.decoder = <<>>
  <2>1. link.input = <<>> /\ tui.decoder = <<>> /\ link.term = Nobody /\ link.received = 0 /\ tui.pc = "starting"
    BY DEF RelayInit, NewLink, NewTui
  <2>2. <<>> \o <<>> = <<>>
    BY NewTypes, ConcatEmptySeq
  <2> QED BY <2>1, <2>2 DEF Ahead
<1>3. ASSUME NEW t \in Terms
      PROVE  /\ acted[t] = <<>> /\ Stream(t) = <<>> /\ cut[t] = FALSE /\ serving[t].pc = "off" /\ serving[t].frame = <<>>
             /\ relay[t].pc = "idle" /\ relay[t].typed = 0 /\ relay[t].sent = <<>> /\ relay[t].base = 0
             /\ relay[t].replay = <<>>
  <2>1. /\ acted[t] = <<>> /\ wire[t] = <<>> /\ cut[t] = FALSE /\ serving[t].pc = "off" /\ serving[t].frame = <<>>
        /\ relay[t].pc = "idle" /\ relay[t].typed = 0 /\ relay[t].sent = <<>> /\ relay[t].base = 0
        /\ relay[t].replay = <<>>
    BY DEF RelayInit, NoThread
  <2>2. <<>> \o <<>> = <<>>
    BY NewTypes, ConcatEmptySeq
  <2> QED BY <2>1, <2>2 DEF Stream
<1>4. ASSUME NEW t \in Terms PROVE TrackAt(t) /\ AloneAt(t)
  <2>1. PICK q : q = relay[t]
    OBVIOUS
  <2>2. q \in TermType /\ q.pc = "idle" /\ q.typed = 0 /\ q.sent = <<>> /\ q.base = 0 /\ q.replay = <<>>
    BY <1>1, <1>3, <2>1, ViewTypes
  <2>3. SentOf(t, q)
    BY <2>2 DEF SentOf, From
  <2>4. Begin(q) = 0
    <3>1. q.typed = 0 /\ Len(q.replay) = 0
      BY <2>2
    <3>2. Begin(q) = q.typed - Len(q.replay)
      BY <2>2 DEF Begin
    <3> QED BY <3>1, <3>2
  <2>5. Nobody # t
    BY RelayAssumption
  <2>6. AttachedOf(q, FALSE, FALSE, FALSE) /\ ~Pending(q)
    BY <2>2 DEF AttachedOf, Pending
  <2>7. Mine(t, <<>>) = {} /\ From(t, <<>>, 0)
    BY DEF Mine, From
  <2>8. FreshOf(t, <<>>, <<>>, <<>>, q) /\ OrderOf(t, <<>>, <<>>, <<>>, q, FALSE, FALSE)
    BY <2>2, <2>7 DEF FreshOf, OrderOf, Ordered, Below
  <2>9. CountOf(t, <<>>, <<>>, <<>>, q, FALSE, FALSE, 0) /\ PendingOf(<<>>, q, FALSE)
    BY <2>6 DEF CountOf, PendingOf
  <2>10. ("off" # "off") = FALSE /\ (Nobody = t) = FALSE /\ ("starting" = "closed") = FALSE
    BY <2>5
  <2>11. Track(t, <<>>, <<>>, <<>>, q, FALSE, "off", Nobody, 0, "starting")
    BY <2>3, <2>6, <2>8, <2>9, <2>10 DEF Track
  <2>12. AloneOf(t, <<>>, <<>>, <<>>, q, FALSE, "off", Nobody, 0)
    BY <2>2, <2>4, <2>5, <2>6, <2>7 DEF AloneOf
  <2> QED BY <1>2, <1>3, <2>1, <2>11, <2>12 DEF TrackAt, AloneAt
<1>5. TrackInv /\ AloneInv
  BY <1>4 DEF TrackInv, AloneInv
<1>6. OnePending /\ Holding /\ TuiInv
  BY <1>2, <1>3 DEF OnePending, Pending, Holding, TuiInv
<1> QED BY <1>1, <1>5, <1>6 DEF RelayInv

\* A stuttering step preserves it.
LEMMA RelayStutters ==
  ASSUME RelayInv, UNCHANGED relayVars
  PROVE  RelayInv'
<1>1. LinkTypes /\ TrackInv /\ AloneInv /\ OnePending /\ Holding /\ TuiInv
  BY DEF RelayInv
<1>2. UNCHANGED <<link, serving, wire, cut, relay, tui, acted>>
  BY DEF relayVars
<1>3. LinkTypes' /\ OnePending' /\ Holding' /\ TuiInv'
  BY <1>1, <1>2 DEF LinkTypes, OnePending, Holding, TuiInv
<1>4. Ahead' = Ahead /\ \A t \in Terms : Stream(t)' = Stream(t)
  <2>1. Ahead' = Ahead
    BY <1>2 DEF Ahead
  <2> QED BY <1>2, <2>1, StreamSame
<1>5. TrackInv' /\ AloneInv'
  BY <1>1, <1>2, <1>3, <1>4, Quiet
<1> QED BY <1>3, <1>5 DEF RelayInv

\* Every step preserves it.
LEMMA RelayNextInv ==
  ASSUME RelayInv, RelayNext
  PROVE  RelayInv'
<1>1. ASSUME NEW t \in Terms,
             \/ Attach(t) \/ Refused(t) \/ SendReplay(t) \/ Type(t) \/ RelayGone(t) \/ Finish(t)
             \/ ReadGeneration(t) \/ ReadFrame(t) \/ Deliver(t) \/ EndServe(t)
      PROVE  RelayInv'
  <2>1. CASE SendReplay(t)
    <3>1. CASE relay[t].replay = <<>>
      BY <2>1, <3>1, SendNothingStep
    <3>2. CASE relay[t].replay # <<>> /\ ~cut[t]
      BY <2>1, <3>2, SendReplayStep
    <3>3. CASE relay[t].replay # <<>> /\ cut[t]
      BY <2>1, <3>3, ReplayLostStep
    <3> QED BY <3>1, <3>2, <3>3
  <2>2. CASE Finish(t)
    <3>1. CASE ~relay[t].close.handoff \/ runtimes = MaxRuntimes
      BY <2>2, <3>1, FinishGoneStep
    <3>2. CASE relay[t].close.handoff /\ runtimes # MaxRuntimes
      BY <2>2, <3>2, FinishStep
    <3> QED BY <3>1, <3>2
  <2>3. CASE Attach(t)
    BY <2>3, AttachStep
  <2>4. CASE Refused(t)
    BY <2>4, RefusedStep
  <2>5. CASE Type(t)
    BY <2>5, TypeStep
  <2>6. CASE RelayGone(t)
    BY <2>6, RelayGoneStep
  <2>7. CASE ReadGeneration(t)
    BY <2>7, ReadGenerationStep
  <2>8. CASE ReadFrame(t)
    BY <2>8, ReadFrameStep
  <2>9. CASE Deliver(t)
    BY <2>9, DeliverStep
  <2>10. CASE EndServe(t)
    BY <2>10, EndServeStep
  <2> QED BY <1>1, <2>1, <2>2, <2>3, <2>4, <2>5, <2>6, <2>7, <2>8, <2>9, <2>10
<1>2. ASSUME NEW handler, Act(handler) PROVE RelayInv'
  BY <1>2, ActStep
<1>3. CASE EnterRemote \/ PollGeneration \/ LeaveLoop
  BY <1>3, TuiStep
<1>4. CASE WriteOutputFails
  BY <1>4, WriteOutputFailsStep
<1>5. CASE WaitInput
  BY <1>5, WaitStep
<1>6. CASE CloseWithHandoff
  BY <1>6, CloseStep
<1>7. CASE RuntimeEnds
  BY <1>7, RuntimeEndsStep
<1> QED BY <1>1, <1>2, <1>3, <1>4, <1>5, <1>6, <1>7 DEF RelayNext

\* The invariant implies that input is acted on once and in order.
LEMMA InputFollows ==
  ASSUME RelayInv
  PROVE  InputOnce
<1> SUFFICES ASSUME NEW t \in Terms
             PROVE  /\ \A i, j \in DOMAIN acted[t] : i < j => acted[t][i] < acted[t][j]
                    /\ Solo(t) => \A i \in DOMAIN acted[t] : acted[t][i] = i
  BY DEF InputOnce, Solo
<1>1. TrackAt(t) /\ (Solo(t) => AloneAt(t))
  BY DEF RelayInv, TrackInv, AloneInv
<1>2. Ordered(t, acted[t], Ahead)
  BY <1>1 DEF TrackAt, Track, OrderOf
<1> QED BY <1>1, <1>2 DEF Ordered, AloneAt, AloneOf

\* Whatever a user types during a session switch is acted on at most once and in
\* order, by one runtime or the next (close_with_handoff, ReplayWindow); with one
\* terminal attached and no more than the window on its way, nothing is skipped.
THEOREM InputActedOnce == RelaySpec => []InputOnce
<1>1. RelayInit => RelayInv
  BY RelayInitInv
<1>2. RelayInv /\ [RelayNext]_relayVars => RelayInv'
  BY RelayNextInv, RelayStutters
<1>3. RelayInv => InputOnce
  BY InputFollows
<1> QED BY <1>1, <1>2, <1>3, PTL DEF RelaySpec

RelayTyped == RelayInv /\ runtimes \in 1..MaxRuntimes

\* The number of runtimes stays within its bound.
LEMMA RuntimesBounded ==
  ASSUME runtimes \in 1..MaxRuntimes, [RelayNext]_relayVars
  PROVE  runtimes' \in 1..MaxRuntimes
<1>1. runtimes' = runtimes \/ (runtimes < MaxRuntimes /\ runtimes' = runtimes + 1)
  BY DEF RelayNext, relayVars, Attach, Refused, SendReplay, Type, RelayGone, Finish, ReadGeneration, ReadFrame,
         Deliver, EndServe, WriteOutputFails, EnterRemote, Act, PollGeneration, WaitInput, LeaveLoop,
         CloseWithHandoff, RuntimeEnds, TuiSet
<1> QED BY <1>1, RelayAssumption

\* Every variable of the relay, the link, the threads and the application keeps
\* its type.
THEOREM RelayTypeCorrect == RelaySpec => []RelayTypeOK
<1>1. RelayInit => RelayTyped
  BY RelayInitInv, RelayAssumption DEF RelayInit, RelayTyped
<1>2. RelayTyped /\ [RelayNext]_relayVars => RelayTyped'
  BY RelayNextInv, RelayStutters, RuntimesBounded DEF RelayTyped
<1>3. RelayTyped => RelayTypeOK
  BY DEF RelayTyped, RelayInv, LinkTypes, RelayTypeOK, LinkType, ThreadType, TermType, CloseType, TuiType
<1> QED BY <1>1, <1>2, <1>3, PTL DEF RelaySpec
=============================================================================
