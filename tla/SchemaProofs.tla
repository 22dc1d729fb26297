---------------------------- MODULE SchemaProofs ----------------------------
(***************************************************************************)
(* Proofs about Schema.  First the migrations as data: what every entry    *)
(* may do, and what getting past some entry of a migration settles.  Then  *)
(* the invariants of the servers that run them.                            *)
(***************************************************************************)
EXTENDS Schema, TLAPS

-----------------------------------------------------------------------------
(***************************************************************************)
(* Entries.  No statement drops anything but the column presets, and none  *)
(* adds that one; every column is added to a table that is there.          *)
(***************************************************************************)
Presets == <<"watcher_presets", "presets">>

AskEntry ==
  [op : {"ask"}, item : Items, wanted : BOOLEAN, skip : Nat,
   onError : {"fail", "skip", "run"}]

RunEntry ==
  [op : {"run"}, needs : SUBSET (Items \cup {NoItem}), adds : SUBSET Items,
   drops : SUBSET {Presets}, defaults : SUBSET Items, valued : SUBSET Items,
   fills : SUBSET Items, lax : BOOLEAN, twice : BOOLEAN, skip : Nat]

Sound(s) ==
  /\ Presets \notin s.adds
  /\ s.defaults \subseteq s.adds
  /\ \A x \in s.adds :
       Table(x[1]) \in s.needs \cup s.adds \/ \E y \in s.drops : y[1] = x[1]

Entry == AskEntry \cup {s \in RunEntry : Sound(s)}

LEMMA TableItems == \A t \in Tables : Table(t) \in Items /\ Table(t) # Presets
<1> SUFFICES ASSUME NEW t \in Tables PROVE Table(t) \in Items /\ Table(t) # Presets
  OBVIOUS
<1>1. "table" \in Names
  BY DEF Names
<1>2. Table(t) \in Items
  BY <1>1 DEF Table, Items
<1>3. Table(t)[2] = "table" /\ Presets[2] = "presets"
  BY DEF Table, Presets
<1> QED  BY <1>2, <1>3

LEMMA AskIsEntry ==
  ASSUME NEW t \in Tables, NEW c \in Names, NEW wanted \in BOOLEAN, NEW skip \in Nat,
         NEW e \in {"fail", "skip", "run"}
  PROVE  Ask(<<t, c>>, wanted, skip, e) \in Entry
BY DEF Ask, Entry, AskEntry, Items

LEMMA ItemParts ==
  ASSUME NEW t, NEW c
  PROVE  <<t, c>>[1] = t /\ <<t, c>>[2] = c
OBVIOUS

\* A statement of a migration.
IsRun(s) == s \in RunEntry /\ Sound(s)

LEMMA RunIsEntry == \A s : IsRun(s) => s \in Entry /\ s.op = "run" /\ s.op # "ask"
BY DEF IsRun, Entry, RunEntry

\* A statement as the others are written from.
IsPlain(s, needs, adds) ==
  /\ s \in RunEntry
  /\ s.needs = needs /\ s.adds = adds /\ s.drops = {} /\ s.defaults = {}
  /\ ~s.lax /\ ~s.twice /\ s.skip = 0

LEMMA Statements ==
  ASSUME NEW needs \in SUBSET (Items \cup {NoItem}), NEW adds \in SUBSET Items
  PROVE  IsPlain(Statement(needs, adds), needs, adds)
BY DEF Statement, RunEntry, IsPlain

-----------------------------------------------------------------------------
(***************************************************************************)
(* What a migration settles.  Item x is settled when it is there or, if it *)
(* is the column presets, when it is gone.  Entry s, the k-th, secures x   *)
(* at n if whoever gets from it to the n-th entry or past it has settled   *)
(* x, be it by an answer or by a statement: `certain' if also when the     *)
(* database does not answer and the code goes on.  When all the entries    *)
(* before the n-th do, x is settled at n.                                  *)
(***************************************************************************)
Secures(s, k, n, x, certain) ==
  IF s.op = "ask"
  THEN /\ k + 1 < n
       /\ k + 1 + s.skip >= n =>
            /\ s.item = x
            /\ s.wanted <=> x = Presets
            /\ certain => s.onError # "skip"
  ELSE k + 1 + s.skip >= n =>
         /\ IF x = Presets THEN x \in s.drops ELSE x \in s.adds
         /\ s.twice => s.adds = {x}
         /\ certain => ~s.lax

SettledAt(p, n, x, certain) == \A k \in 1..n - 1 : Secures(p[k], k, n, x, certain)

Gives(p, certain) ==
  {x \in Items : \E n \in 2..Len(p) + 1 : SettledAt(p, n, x, certain)}

\* A list of entries none of which skips past its end.
WellMade(p) == p \in Seq(Entry) /\ \A k \in 1..Len(p) : k + p[k].skip <= Len(p)

LEMMA EntrySkips == \A s \in Entry : s.skip \in Nat /\ s.op \in {"ask", "run"}
BY DEF Entry, AskEntry, RunEntry

LEMMA Concatenation ==
  ASSUME NEW a \in Seq(Entry), NEW b \in Seq(Entry)
  PROVE  /\ a \o b \in Seq(Entry)
         /\ Len(a \o b) = Len(a) + Len(b)
         /\ Len(a) \in Nat /\ Len(b) \in Nat
         /\ \A k \in 1..Len(a) : (a \o b)[k] = a[k]
         /\ \A k \in 1..Len(b) : (a \o b)[Len(a) + k] = b[k]
         /\ \A k \in 1..Len(a) : a[k] \in Entry
         /\ \A k \in 1..Len(b) : b[k] \in Entry
OBVIOUS

\* Migrations can be put together.
LEMMA JoinWellMade ==
  ASSUME NEW a, NEW b, WellMade(a), WellMade(b)
  PROVE  WellMade(a \o b)
<1>1. a \in Seq(Entry) /\ b \in Seq(Entry)
  BY DEF WellMade
<1> DEFINE p == a \o b
<1>2. SUFFICES ASSUME NEW k \in 1..Len(p)  PROVE k + p[k].skip <= Len(p)
  BY <1>1, Concatenation DEF WellMade
<1>3. CASE k \in 1..Len(a)
  <2>1. p[k] = a[k] /\ k + a[k].skip <= Len(a) /\ Len(p) = Len(a) + Len(b)
        /\ Len(a) \in Nat /\ Len(b) \in Nat /\ a[k].skip \in Nat
    BY <1>1, <1>3, Concatenation, EntrySkips DEF WellMade
  <2> QED  BY <2>1
<1>4. CASE ~(k \in 1..Len(a))
  <2> DEFINE l == k - Len(a)
  <2>1. l \in 1..Len(b) /\ k = Len(a) + l
    BY <1>1, <1>4, Concatenation
  <2>2. p[k] = b[l] /\ l + b[l].skip <= Len(b) /\ Len(p) = Len(a) + Len(b)
        /\ Len(a) \in Nat /\ Len(b) \in Nat /\ b[l].skip \in Nat
    BY <1>1, <2>1, Concatenation, EntrySkips DEF WellMade
  <2> QED  BY <2>1, <2>2
<1> QED  BY <1>3, <1>4

LEMMA GivesFirst ==
  ASSUME NEW a, NEW b, WellMade(a), WellMade(b), NEW certain \in BOOLEAN
  PROVE  Gives(a, certain) \subseteq Gives(a \o b, certain)
<1> DEFINE p == a \o b
<1>1. a \in Seq(Entry) /\ b \in Seq(Entry)
  BY DEF WellMade
<1>2. SUFFICES ASSUME NEW x \in Items, NEW n \in 2..Len(a) + 1, SettledAt(a, n, x, certain)
               PROVE  n \in 2..Len(p) + 1 /\ SettledAt(p, n, x, certain)
  BY DEF Gives
<1>3. n \in 2..Len(p) + 1
  BY <1>1, Concatenation
<1>4. \A k \in 1..n - 1 : k \in 1..Len(a) /\ p[k] = a[k]
  BY <1>1, Concatenation
<1> QED  BY <1>2, <1>3, <1>4 DEF SettledAt

LEMMA GivesLast ==
  ASSUME NEW a, NEW b, WellMade(a), WellMade(b), NEW certain \in BOOLEAN
  PROVE  Gives(b, certain) \subseteq Gives(a \o b, certain)
<1> DEFINE p == a \o b
<1>1. a \in Seq(Entry) /\ b \in Seq(Entry)
  BY DEF WellMade
<1>2. SUFFICES ASSUME NEW x \in Items, NEW m \in 2..Len(b) + 1, SettledAt(b, m, x, certain)
               PROVE  \E n \in 2..Len(p) + 1 : SettledAt(p, n, x, certain)
  BY DEF Gives
<1> DEFINE n == Len(a) + m
<1>3. n \in 2..Len(p) + 1 /\ Len(a) \in Nat
  BY <1>1, Concatenation
<1>4. SUFFICES ASSUME NEW k \in 1..n - 1  PROVE Secures(p[k], k, n, x, certain)
  BY <1>3 DEF SettledAt
<1>5. CASE k \in 1..Len(a)
  <2>1. p[k] = a[k] /\ k + a[k].skip <= Len(a) /\ a[k].skip \in Nat
    BY <1>1, <1>5, Concatenation, EntrySkips DEF WellMade
  <2>2. k + 1 < n /\ ~(k + 1 + p[k].skip >= n)
    BY <1>3, <1>5, <2>1
  <2> QED  BY <2>2 DEF Secures
<1>6. CASE ~(k \in 1..Len(a))
  <2> DEFINE l == k - Len(a)
  <2>1. l \in 1..m - 1 /\ l \in 1..Len(b) /\ k = Len(a) + l
    BY <1>1, <1>3, <1>6, Concatenation
  <2>2. p[k] = b[l] /\ b[l].skip \in Nat
    BY <1>1, <2>1, Concatenation, EntrySkips
  <2>3. Secures(b[l], l, m, x, certain)
    BY <1>2, <2>1 DEF SettledAt
  <2> DEFINE skip == b[l].skip
  <2>4. skip \in Nat /\ l \in Nat /\ m \in Nat /\ Len(a) \in Nat /\ k = Len(a) + l
    BY <1>1, <2>1, <2>2, Concatenation
  <2>5. k + 1 < n <=> l + 1 < m
    BY <2>4
  <2> HIDE DEF skip, l
  <2>6. k + 1 + skip >= n <=> l + 1 + skip >= m
    BY <2>4
  <2> USE DEF skip
  <2> QED  BY <2>2, <2>3, <2>5, <2>6 DEF Secures
<1> QED  BY <1>5, <1>6

-----------------------------------------------------------------------------
(* The blocks of migrate_schema. *)

\* A statement that adds column c to its table, and goes on to the next entry.
AddsColumn(s, t, c) == IsRun(s) /\ s.adds = {<<t, c>>} /\ s.skip = 0 /\ ~s.twice

LEMMA AddsColumns ==
  ASSUME NEW t \in Tables, NEW c \in Names, c # "presets",
         NEW needs \in SUBSET (Items \cup {NoItem}), Table(t) \in needs
  PROVE  LET s == Statement(needs, {<<t, c>>}) IN AddsColumn(s, t, c) /\ ~s.lax
<1> DEFINE s == Statement(needs, {<<t, c>>})
<1>1. {<<t, c>>} \in SUBSET Items
  BY DEF Items
<1>2. IsPlain(s, needs, {<<t, c>>})
  BY <1>1, Statements
<1> HIDE DEF s
<1>3. Presets[2] = "presets" /\ <<t, c>>[2] = c /\ <<t, c>>[1] = t
  BY DEF Presets
<1>4. Sound(s)
  BY <1>2, <1>3 DEF Sound, IsPlain
<1>5. AddsColumn(s, t, c) /\ ~s.lax
  BY <1>2, <1>4 DEF AddsColumn, IsRun, IsPlain
<1> QED  BY <1>5 DEF s

\* So do its variations.
LEMMA AddsVary ==
  ASSUME NEW s, NEW t \in Tables, NEW c \in Names, AddsColumn(s, t, c)
  PROVE  /\ AddsColumn(Lax(s), t, c)
         /\ \A v \in SUBSET Items :
              AddsColumn([s EXCEPT !.valued = v], t, c) /\ [s EXCEPT !.valued = v].lax = s.lax
         /\ \A v \in SUBSET (Items \cup {NoItem}) :
              /\ AddsColumn([s EXCEPT !.needs = @ \cup v], t, c)
              /\ [s EXCEPT !.needs = @ \cup v].lax = s.lax
         /\ AddsColumn([s EXCEPT !.defaults = {<<t, c>>}], t, c)
         /\ [s EXCEPT !.defaults = {<<t, c>>}].lax = s.lax
<1> USE DEF AddsColumn, IsRun, RunEntry, Sound
<1>1. AddsColumn(Lax(s), t, c)
  BY DEF Lax
<1>2. ASSUME NEW v \in SUBSET Items
      PROVE  AddsColumn([s EXCEPT !.valued = v], t, c) /\ [s EXCEPT !.valued = v].lax = s.lax
  OBVIOUS
<1>3. ASSUME NEW v \in SUBSET (Items \cup {NoItem})
      PROVE  /\ AddsColumn([s EXCEPT !.needs = @ \cup v], t, c)
             /\ [s EXCEPT !.needs = @ \cup v].lax = s.lax
  OBVIOUS
<1>4. AddsColumn([s EXCEPT !.defaults = {<<t, c>>}], t, c)
  OBVIOUS
<1>5. [s EXCEPT !.defaults = {<<t, c>>}].lax = s.lax
  OBVIOUS
<1> HIDE DEF AddsColumn, IsRun, RunEntry, Sound
<1> QED  BY <1>1, <1>2, <1>3, <1>4, <1>5

LEMMA Columns ==
  ASSUME NEW t \in Tables, NEW c \in Names, c # "presets"
  PROVE  AddsColumn(AddColumn(t, c), t, c) /\ ~AddColumn(t, c).lax
BY TableItems, AddsColumns DEF AddColumn

LEMMA Keys ==
  ASSUME NEW t \in Tables, NEW k \in Names, k # "presets", NEW columns \in SUBSET Names
  PROVE  AddsColumn(AddKey(t, columns, k), t, k)
<1>1. "table" \in Names
  BY DEF Names
<1>2. Of(t, columns \cup {"table"}) \in SUBSET (Items \cup {NoItem})
  BY <1>1 DEF Of, Items
<1>3. Table(t) \in Of(t, columns \cup {"table"})
  BY DEF Of, Table
<1> QED  BY <1>2, <1>3, AddsColumns DEF AddKey

LEMMA Fills ==
  ASSUME NEW t \in Tables, NEW c \in Names
  PROVE  IsRun(Fill(t, c)) /\ Fill(t, c).skip = 0 /\ Fill(t, c).needs = {<<t, c>>}
<1> DEFINE s == Statement({<<t, c>>}, {})
<1>1. <<t, c>> \in Items
  BY DEF Items
<1>2. IsPlain(s, {<<t, c>>}, {})
  BY <1>1, Statements
<1> HIDE DEF s
<1>3. IsRun(s)
  BY <1>2 DEF IsRun, Sound, IsPlain
<1>4. Fill(t, c) = [s EXCEPT !.fills = {<<t, c>>}]
  BY DEF Fill, s
<1>5. IsRun(Fill(t, c)) /\ Fill(t, c).skip = 0 /\ Fill(t, c).needs = s.needs
  BY <1>1, <1>2, <1>3, <1>4 DEF RunEntry, IsRun, Sound, IsPlain
<1> QED  BY <1>2, <1>5 DEF IsPlain

LEMMA Creates ==
  ASSUME NEW t \in Tables, NEW needs \in SUBSET Tables, NEW names \in SUBSET Names,
         "presets" \notin names
  PROVE  LET s == CreateTable(t, needs, names) IN
         /\ IsRun(s) /\ ~s.lax /\ ~s.twice /\ s.skip = 0
         /\ s.adds = Of(t, names \cup {"table"})
<1> DEFINE s == CreateTable(t, needs, names)
<1>1. "table" \in Names
  BY DEF Names
<1>2. Of(t, names \cup {"table"}) \in SUBSET Items
  BY <1>1 DEF Of, Items
<1>3. {Table(u) : u \in needs} \in SUBSET (Items \cup {NoItem})
  BY TableItems
<1>4. IsPlain(s, {Table(u) : u \in needs}, Of(t, names \cup {"table"}))
  BY <1>2, <1>3, Statements DEF CreateTable
<1> HIDE DEF s
<1> USE DEF IsPlain
<1>5. \A x \in s.adds : x[1] = t /\ x[2] \in names \cup {"table"}
  BY <1>4, ItemParts DEF Of
<1>6. Presets \notin s.adds
  BY <1>5 DEF Presets
<1>7. Table(t) \in s.adds
  BY <1>4 DEF Of, Table
<1>8. Sound(s)
  BY <1>4, <1>5, <1>6, <1>7 DEF Sound
<1> QED  BY <1>4, <1>8 DEF IsRun, s

LEMMA Straight ==
  ASSUME NEW p \in Seq(Entry), \A k \in 1..Len(p) : p[k].skip = 0
  PROVE  WellMade(p)
BY DEF WellMade

Block(t, c, e, ss) == <<Ask(<<t, c>>, FALSE, Len(ss), e)>> \o ss

\* If the question about a column is answered no, the first statement adds it.
LEMMA ColumnBlock ==
  ASSUME NEW t \in Tables, NEW c \in Names, c # "presets",
         NEW e \in {"fail", "skip", "run"}, NEW ss, WellMade(ss), ss # <<>>
  PROVE  /\ WellMade(Block(t, c, e, ss))
         /\ \A certain \in BOOLEAN :
              /\ ss[1].op = "run" /\ <<t, c>> \in ss[1].adds
              /\ ss[1].twice => ss[1].adds = {<<t, c>>}
              /\ certain => ~ss[1].lax /\ e # "skip"
              => <<t, c>> \in Gives(Block(t, c, e, ss), certain)
<1> DEFINE x == <<t, c>>
           p == Block(t, c, e, ss)
           ask == Ask(x, FALSE, Len(ss), e)
           a == <<ask>>
<1>1. ss \in Seq(Entry) /\ Len(ss) \in Nat /\ Len(ss) >= 1 /\ 1 \in 1..Len(ss)
  BY DEF WellMade
<1>2. ask \in Entry
  BY <1>1, AskIsEntry
<1>3. a \in Seq(Entry) /\ Len(a) = 1 /\ a[1] = ask
  <2> HIDE DEF ask
  <2> QED  BY <1>2
<1>4. x \in Items /\ x # Presets
  BY DEF Items, Presets
<1>5. ask.op = "ask" /\ ask.skip = Len(ss) /\ ask.item = x /\ ask.wanted = FALSE
      /\ ask.onError = e
  BY DEF Ask
<1> HIDE DEF ask, a, x, p
<1>6. /\ p \in Seq(Entry)
      /\ Len(p) = 1 + Len(ss)
      /\ p[1] = ask
      /\ \A k \in 1..Len(ss) : p[1 + k] = ss[k]
  <2>1. p = a \o ss
    BY DEF p, a, ask, x, Block
  <2>2. /\ a \o ss \in Seq(Entry)
        /\ Len(a \o ss) = Len(a) + Len(ss)
        /\ \A k \in 1..Len(a) : (a \o ss)[k] = a[k]
        /\ \A k \in 1..Len(ss) : (a \o ss)[Len(a) + k] = ss[k]
    BY <1>1, <1>3, Concatenation
  <2>3. 1 \in 1..Len(a)
    BY <1>3
  <2> QED  BY <1>1, <1>3, <2>1, <2>2, <2>3
<1>7. WellMade(p)
  <2> SUFFICES ASSUME NEW k \in 1..Len(p)  PROVE k + p[k].skip <= Len(p)
    BY <1>6 DEF WellMade
  <2>1. CASE k = 1
    <3>1. p[k].skip = Len(ss)
      BY <2>1, <1>5, <1>6
    <3> QED  BY <2>1, <3>1, <1>1, <1>6
  <2>2. CASE k # 1
    <3> DEFINE l == k - 1
    <3>1. l \in 1..Len(ss) /\ k = 1 + l
      BY <2>2, <1>1, <1>6
    <3>2. p[k] = ss[l] /\ l + ss[l].skip <= Len(ss) /\ ss[l].skip \in Nat
      BY <3>1, <1>1, <1>6, EntrySkips DEF WellMade
    <3> QED  BY <3>1, <3>2, <1>1, <1>6
  <2> QED  BY <2>1, <2>2
<1>8. ASSUME NEW certain \in BOOLEAN, ss[1].op = "run", x \in ss[1].adds,
             ss[1].twice => ss[1].adds = {x}, certain => ~ss[1].lax /\ e # "skip"
      PROVE  x \in Gives(p, certain)
  <2>1. 3 \in 2..Len(p) + 1
    BY <1>1, <1>6
  <2>2. Secures(p[1], 1, 3, x, certain)
    BY <1>1, <1>4, <1>5, <1>6, <1>8 DEF Secures
  <2>3. p[2] = ss[1]
    BY <1>1, <1>6
  <2>4. Secures(p[2], 2, 3, x, certain)
    BY <1>4, <1>8, <2>3 DEF Secures
  <2>5. SettledAt(p, 3, x, certain)
    <3>1. \A k \in 1..3 - 1 : k = 1 \/ k = 2
      OBVIOUS
    <3> QED  BY <2>2, <2>4, <3>1 DEF SettledAt
  <2> QED  BY <1>4, <2>1, <2>5 DEF Gives
<1> QED  BY <1>7, <1>8 DEF x, p

\* What is certain is so when the database answers.
LEMMA GivesCertain ==
  ASSUME NEW p  PROVE Gives(p, TRUE) \subseteq Gives(p, FALSE)
<1>1. \A s, k, n, x : Secures(s, k, n, x, TRUE) => Secures(s, k, n, x, FALSE)
  BY DEF Secures
<1> QED  BY <1>1 DEF Gives, SettledAt

\* Both migrations in one.
LEMMA Join ==
  ASSUME NEW a, NEW b, WellMade(a), WellMade(b)
  PROVE  /\ WellMade(a \o b)
         /\ \A certain \in BOOLEAN :
              Gives(a, certain) \cup Gives(b, certain) \subseteq Gives(a \o b, certain)
<1>1. WellMade(a \o b)
  BY JoinWellMade
<1>2. ASSUME NEW certain \in BOOLEAN
      PROVE  Gives(a, certain) \cup Gives(b, certain) \subseteq Gives(a \o b, certain)
  BY GivesFirst, GivesLast
<1> QED  BY <1>1, <1>2

LEMMA OneStatement ==
  ASSUME NEW s, IsRun(s), s.skip = 0
  PROVE  WellMade(<<s>>) /\ <<s>> # <<>> /\ <<s>>[1] = s
<1> DEFINE p == <<s>>
<1>1. s \in Entry
  BY RunIsEntry
<1>2. p \in Seq(Entry) /\ Len(p) = 1 /\ p[1] = s
  BY <1>1
<1> HIDE DEF p
<1>3. WellMade(p)
  BY <1>2, Straight
<1>4. p # <<>>
  <2>1. Len(<<>>) = 0 /\ 0 # 1
    OBVIOUS
  <2>2. p = <<>> => Len(p) = Len(<<>>)
    OBVIOUS
  <2> HIDE <1>1
  <2> QED  BY <1>2, <2>1, <2>2, Zenon
<1> QED  BY <1>2, <1>3, <1>4 DEF p

LEMMA TwoStatements ==
  ASSUME NEW s1, NEW s2, IsRun(s1), IsRun(s2), s1.skip = 0, s2.skip = 0
  PROVE  WellMade(<<s1, s2>>) /\ <<s1, s2>> # <<>> /\ <<s1, s2>>[1] = s1
<1> DEFINE p == <<s1, s2>>
<1>1. s1 \in Entry /\ s2 \in Entry
  BY RunIsEntry
<1>2. p \in Seq(Entry) /\ Len(p) = 2 /\ p[1] = s1 /\ p[2] = s2
  BY <1>1
<1> HIDE DEF p
<1>3. \A k \in 1..Len(p) : p[k].skip = 0
  BY <1>2
<1>4. WellMade(p)
  BY <1>2, <1>3, Straight
<1>5. p # <<>>
  BY <1>2
<1> QED  BY <1>2, <1>4, <1>5 DEF p

LEMMA ThreeStatements ==
  ASSUME NEW s1, NEW s2, NEW s3, IsRun(s1), IsRun(s2), IsRun(s3),
         s1.skip = 0, s2.skip = 0, s3.skip = 0
  PROVE  WellMade(<<s1, s2, s3>>) /\ <<s1, s2, s3>> # <<>> /\ <<s1, s2, s3>>[1] = s1
<1> DEFINE p == <<s1, s2, s3>>
<1>1. s1 \in Entry /\ s2 \in Entry /\ s3 \in Entry
  BY RunIsEntry
<1>2. p \in Seq(Entry) /\ Len(p) = 3 /\ p[1] = s1 /\ p[2] = s2 /\ p[3] = s3
  BY <1>1
<1> HIDE DEF p
<1>3. \A k \in 1..Len(p) : p[k].skip = 0
  BY <1>2
<1>4. WellMade(p)
  BY <1>2, <1>3, Straight
<1>5. p # <<>>
  BY <1>2
<1> QED  BY <1>2, <1>4, <1>5 DEF p

LEMMA FiveStatements ==
  ASSUME NEW s1, NEW s2, NEW s3, NEW s4, NEW s5,
         IsRun(s1), IsRun(s2), IsRun(s3), IsRun(s4), IsRun(s5),
         s1.skip = 0, s2.skip = 0, s3.skip = 0, s4.skip = 0, s5.skip = 0
  PROVE  LET p == <<s1, s2, s3, s4, s5>> IN
         WellMade(p) /\ p # <<>> /\ p[1] = s1 /\ Len(p) = 5
<1> DEFINE p == <<s1, s2, s3, s4, s5>>
<1>1. s1 \in Entry /\ s2 \in Entry /\ s3 \in Entry /\ s4 \in Entry /\ s5 \in Entry
  BY RunIsEntry
<1>2. p \in Seq(Entry) /\ Len(p) = 5
      /\ p[1] = s1 /\ p[2] = s2 /\ p[3] = s3 /\ p[4] = s4 /\ p[5] = s5
  BY <1>1
<1> HIDE DEF p
<1>3. \A k \in 1..Len(p) : p[k].skip = 0
  BY <1>2
<1>4. WellMade(p)
  BY <1>2, <1>3, Straight
<1>5. p # <<>>
  BY <1>2
<1> QED  BY <1>2, <1>4, <1>5 DEF p

LEMMA ColumnGiven ==
  ASSUME NEW t \in Tables, NEW c \in Names, c # "presets",
         NEW e \in {"fail", "skip", "run"}, NEW ss, WellMade(ss), ss # <<>>,
         AddsColumn(ss[1], t, c)
  PROVE  /\ WellMade(Block(t, c, e, ss))
         /\ <<t, c>> \in Gives(Block(t, c, e, ss), FALSE)
         /\ ~ss[1].lax /\ e # "skip" => <<t, c>> \in Gives(Block(t, c, e, ss), TRUE)
<1>1. IsRun(ss[1]) /\ ss[1].op = "run" /\ <<t, c>> \in ss[1].adds /\ ~ss[1].twice
  BY RunIsEntry DEF AddsColumn
<1> QED  BY <1>1, ColumnBlock

LEMMA OneColumn ==
  ASSUME NEW t \in Tables, NEW c \in Names, c # "presets"
  PROVE  /\ WellMade(IfMissing(t, c, <<AddColumn(t, c)>>))
         /\ <<t, c>> \in Gives(IfMissing(t, c, <<AddColumn(t, c)>>), TRUE)
         /\ WellMade(IfNeeded(t, c, <<AddColumn(t, c)>>))
         /\ <<t, c>> \in Gives(IfNeeded(t, c, <<AddColumn(t, c)>>), FALSE)
         /\ WellMade(IfNeeded(t, c, <<Lax(AddColumn(t, c))>>))
         /\ <<t, c>> \in Gives(IfNeeded(t, c, <<Lax(AddColumn(t, c))>>), FALSE)
<1> DEFINE s == AddColumn(t, c)
           l == Lax(s)
<1>1. AddsColumn(s, t, c) /\ ~s.lax /\ AddsColumn(l, t, c)
  BY Columns, AddsVary
<1>2. \A ss, e : /\ IfMissing(t, c, ss) = Block(t, c, "fail", ss)
                 /\ IfNeeded(t, c, ss) = Block(t, c, "skip", ss)
  BY DEF IfMissing, IfNeeded, Block
<1> HIDE DEF s, l
<1>3. WellMade(<<s>>) /\ <<s>> # <<>> /\ <<s>>[1] = s
  BY <1>1, OneStatement DEF AddsColumn
<1>4. WellMade(<<l>>) /\ <<l>> # <<>> /\ <<l>>[1] = l
  BY <1>1, OneStatement DEF AddsColumn
<1>5. WellMade(Block(t, c, "fail", <<s>>)) /\ <<t, c>> \in Gives(Block(t, c, "fail", <<s>>), TRUE)
  BY <1>1, <1>3, ColumnGiven
<1>6. WellMade(Block(t, c, "skip", <<s>>)) /\ <<t, c>> \in Gives(Block(t, c, "skip", <<s>>), FALSE)
  BY <1>1, <1>3, ColumnGiven
<1>7. WellMade(Block(t, c, "skip", <<l>>)) /\ <<t, c>> \in Gives(Block(t, c, "skip", <<l>>), FALSE)
  BY <1>1, <1>4, ColumnGiven
<1> QED  BY <1>2, <1>5, <1>6, <1>7 DEF s, l

LEMMA RenamesPresets ==
  WellMade(RenamePresets) /\ Presets \in Gives(RenamePresets, TRUE)
<1> DEFINE x == <<"watcher_presets", "preset_json">>
           base == Statement({}, {x})
           ask == Ask(Presets, TRUE, 1, "fail")
           s == [base EXCEPT !.drops = {Presets}]
           p == <<ask, s>>
<1>1. "watcher_presets" \in Tables /\ "presets" \in Names /\ "preset_json" \in Names
  BY DEF Tables, Names
<1>2. x \in Items /\ Presets \in Items /\ x # Presets /\ x[1] = Presets[1]
  BY <1>1 DEF Items, Presets
<1>3. IsPlain(base, {}, {x})
  BY <1>2, Statements
<1>4. ask \in Entry
  BY <1>1, AskIsEntry DEF Presets
<1>5. ask.op = "ask" /\ ask.skip = 1 /\ ask.item = Presets /\ ask.wanted /\ ask.onError = "fail"
  BY DEF Ask
<1>6. RenamePresets = p
  BY DEF RenamePresets, Presets
<1> HIDE DEF base, ask, x
<1>7. /\ s \in RunEntry /\ s.adds = {x} /\ s.drops = {Presets} /\ s.defaults = {}
      /\ ~s.twice /\ ~s.lax /\ s.skip = 0
  BY <1>3 DEF RunEntry, IsPlain
<1> HIDE DEF s
<1>8. IsRun(s)
  BY <1>2, <1>7 DEF Sound, IsRun
<1>9. s \in Entry /\ s.op # "ask"
  BY <1>8, RunIsEntry
<1>10. p \in Seq(Entry) /\ Len(p) = 2 /\ p[1] = ask /\ p[2] = s
  BY <1>4, <1>9
<1> HIDE DEF p
<1>11. WellMade(p)
  BY <1>5, <1>7, <1>10 DEF WellMade
<1>12. Secures(p[1], 1, 3, Presets, TRUE)
  BY <1>5, <1>10 DEF Secures
<1>13. Secures(p[2], 2, 3, Presets, TRUE)
  BY <1>7, <1>9, <1>10 DEF Secures
<1>14. SettledAt(p, 3, Presets, TRUE)
  <2>1. \A k \in 1..3 - 1 : k = 1 \/ k = 2
    OBVIOUS
  <2> QED  BY <1>12, <1>13, <2>1 DEF SettledAt
<1>15. 3 \in 2..Len(p) + 1
  BY <1>10
<1> QED  BY <1>2, <1>6, <1>11, <1>14, <1>15 DEF Gives

LEMMA MigratesFileFlags ==
  /\ WellMade(MigrateFileFlags)
  /\ Of("files", {"is_encrypted", "operation_type"}) \subseteq Gives(MigrateFileFlags, TRUE)
<1> DEFINE s == AddColumn("files", "operation_type")
           f == Fill("files", "operation_type")
           a == IfMissing("files", "is_encrypted", <<AddColumn("files", "is_encrypted")>>)
           b == IfMissing("files", "operation_type", <<s, f>>)
<1>1. "files" \in Tables /\ "is_encrypted" \in Names /\ "operation_type" \in Names
  BY DEF Tables, Names, FilesColumns
<1>2. WellMade(a) /\ <<"files", "is_encrypted">> \in Gives(a, TRUE)
  BY <1>1, OneColumn
<1>3. AddsColumn(s, "files", "operation_type") /\ ~s.lax
  BY <1>1, Columns
<1>4. IsRun(f) /\ f.skip = 0
  BY <1>1, Fills
<1>5. b = Block("files", "operation_type", "fail", <<s, f>>)
  BY DEF IfMissing, Block
<1>6. MigrateFileFlags = a \o b
  BY DEF MigrateFileFlags
<1> HIDE DEF s, f, a, b
<1>7. WellMade(<<s, f>>) /\ <<s, f>> # <<>> /\ <<s, f>>[1] = s
  BY <1>3, <1>4, TwoStatements DEF AddsColumn
<1>8. WellMade(b) /\ <<"files", "operation_type">> \in Gives(b, TRUE)
  BY <1>1, <1>3, <1>5, <1>7, ColumnGiven
<1> QED  BY <1>2, <1>6, <1>8, Join DEF Of

LEMMA MigratesEqIndex ==
  WellMade(MigrateEqIndex) /\ <<"files", "eq_index">> \in Gives(MigrateEqIndex, TRUE)
<1> DEFINE s == AddColumn("files", "eq_index")
           k == AddKey("files", {"eq_index"}, "eq_index key")
           b == IfMissing("files", "eq_index key", <<k>>)
           ss == <<s>> \o b
<1>1. "files" \in Tables /\ "eq_index" \in Names /\ "eq_index key" \in Names
  BY DEF Tables, Names, FilesColumns
<1>2. AddsColumn(s, "files", "eq_index") /\ ~s.lax
  BY <1>1, Columns
<1>3. AddsColumn(k, "files", "eq_index key")
  BY <1>1, Keys
<1>4. b = Block("files", "eq_index key", "fail", <<k>>)
  BY DEF IfMissing, Block
<1>5. MigrateEqIndex = Block("files", "eq_index", "fail", ss)
  BY DEF IfMissing, Block, MigrateEqIndex
<1> HIDE DEF s, k, b
<1>6. WellMade(<<s>>) /\ <<s>>[1] = s
  BY <1>2, OneStatement DEF AddsColumn
<1>7. WellMade(<<k>>) /\ <<k>> # <<>> /\ <<k>>[1] = k
  BY <1>3, OneStatement DEF AddsColumn
<1>8. WellMade(b)
  BY <1>1, <1>3, <1>4, <1>7, ColumnGiven
<1>9. WellMade(ss)
  BY <1>6, <1>8, Join
<1>10. ss # <<>> /\ ss[1] = s
  <2>1. b \in Seq(Entry) /\ <<s>> \in Seq(Entry) /\ Len(<<s>>) = 1
    BY <1>6, <1>8 DEF WellMade
  <2>2. Len(ss) >= 1 /\ ss[1] = <<s>>[1]
    BY <2>1, Concatenation
  <2>3. Len(<<>>) = 0
    OBVIOUS
  <2> QED  BY <1>6, <2>2, <2>3
<1> HIDE DEF ss
<1> QED  BY <1>1, <1>2, <1>5, <1>9, <1>10, ColumnGiven

LEMMA MigratesTokenPath ==
  WellMade(MigrateTokenPath) /\ <<"files", "token_path">> \in Gives(MigrateTokenPath, FALSE)
<1> DEFINE s1 == Lax(AddColumn("files", "token_path"))
           s2 == Lax(AddKey("files", {"key_id"}, "key_id key"))
           s3 == Lax(AddColumn("files", "server_group_id"))
           ss == <<s1, s2, s3>>
<1>1. /\ "files" \in Tables
      /\ "token_path" \in Names /\ "key_id" \in Names /\ "key_id key" \in Names
      /\ "server_group_id" \in Names
  BY DEF Tables, Names, FilesColumns
<1>2. AddsColumn(s1, "files", "token_path")
  BY <1>1, Columns, AddsVary
<1>3. AddsColumn(AddKey("files", {"key_id"}, "key_id key"), "files", "key_id key")
  BY <1>1, Keys
<1>4. AddsColumn(s2, "files", "key_id key") /\ AddsColumn(s3, "files", "server_group_id")
  BY <1>1, <1>3, Columns, AddsVary
<1>5. MigrateTokenPath = Block("files", "token_path", "fail", ss)
  BY DEF IfMissing, Block, MigrateTokenPath
<1> HIDE DEF s1, s2, s3
<1>6. WellMade(ss) /\ ss # <<>> /\ ss[1] = s1
  BY <1>2, <1>4, ThreeStatements DEF AddsColumn
<1> HIDE DEF ss
<1> QED  BY <1>1, <1>2, <1>5, <1>6, ColumnGiven

LEMMA MigratesServerIds ==
  /\ WellMade(MigrateServerIds)
  /\ Of("files", {"key_id", "server_group_id", "server_watcher_id"})
       \subseteq Gives(MigrateServerIds, TRUE)
<1> DEFINE s == AddColumn("files", "key_id")
           k == Lax(AddKey("files", {"key_id"}, "key_id key"))
           a == IfMissing("files", "key_id", <<s, k>>)
           b == IfMissing("files", "server_group_id", <<AddColumn("files", "server_group_id")>>)
           c == IfMissing("files", "server_watcher_id",
                          <<AddColumn("files", "server_watcher_id")>>)
<1>1. /\ "files" \in Tables /\ "key_id" \in Names /\ "key_id key" \in Names
      /\ "server_group_id" \in Names /\ "server_watcher_id" \in Names
  BY DEF Tables, Names, FilesColumns
<1>2. AddsColumn(s, "files", "key_id") /\ ~s.lax
  BY <1>1, Columns
<1>3. AddsColumn(AddKey("files", {"key_id"}, "key_id key"), "files", "key_id key")
  BY <1>1, Keys
<1>4. AddsColumn(k, "files", "key_id key")
  BY <1>1, <1>3, AddsVary
<1>5. a = Block("files", "key_id", "fail", <<s, k>>)
  BY DEF IfMissing, Block
<1>6. WellMade(b) /\ <<"files", "server_group_id">> \in Gives(b, TRUE)
  BY <1>1, OneColumn
<1>7. WellMade(c) /\ <<"files", "server_watcher_id">> \in Gives(c, TRUE)
  BY <1>1, OneColumn
<1>8. MigrateServerIds = (a \o b) \o c
  BY DEF MigrateServerIds
<1> HIDE DEF s, k, a, b, c
<1>9. WellMade(<<s, k>>) /\ <<s, k>> # <<>> /\ <<s, k>>[1] = s
  BY <1>2, <1>4, TwoStatements DEF AddsColumn
<1>10. WellMade(a) /\ <<"files", "key_id">> \in Gives(a, TRUE)
  BY <1>1, <1>2, <1>5, <1>9, ColumnGiven
<1>11. WellMade(a \o b) /\ Gives(a, TRUE) \cup Gives(b, TRUE) \subseteq Gives(a \o b, TRUE)
  BY <1>6, <1>10, Join
<1>12. WellMade((a \o b) \o c)
       /\ Gives(a \o b, TRUE) \cup Gives(c, TRUE) \subseteq Gives((a \o b) \o c, TRUE)
  BY <1>7, <1>11, Join
<1> QED  BY <1>6, <1>7, <1>8, <1>10, <1>11, <1>12 DEF Of

\* MODIFY COLUMN may run twice.
LEMMA ModifiedColumn ==
  ASSUME NEW t \in Tables, NEW c \in Names, c # "presets"
  PROVE  /\ WellMade(UnlessThere(t, c, <<Modify(t, c)>>))
         /\ <<t, c>> \in Gives(UnlessThere(t, c, <<Modify(t, c)>>), TRUE)
<1> DEFINE s == Modify(t, c)
           base == Statement({Table(t)}, {<<t, c>>})
<1>1. AddsColumn(base, t, c) /\ ~base.lax
  BY Columns DEF AddColumn
<1>2. s = [base EXCEPT !.twice = TRUE]
  BY DEF Modify
<1> HIDE DEF base, s
<1>3. IsRun(s) /\ s.adds = {<<t, c>>} /\ s.skip = 0 /\ ~s.lax
  BY <1>1, <1>2 DEF AddsColumn, IsRun, Sound, RunEntry
<1>4. s.op = "run"
  BY <1>3, RunIsEntry
<1>5. WellMade(<<s>>) /\ <<s>> # <<>> /\ <<s>>[1] = s
  BY <1>3, OneStatement
<1>6. UnlessThere(t, c, <<s>>) = Block(t, c, "run", <<s>>)
  BY DEF Block, UnlessThere
<1>7. WellMade(Block(t, c, "run", <<s>>)) /\ <<t, c>> \in Gives(Block(t, c, "run", <<s>>), TRUE)
  BY <1>3, <1>4, <1>5, ColumnBlock
<1> QED  BY <1>6, <1>7 DEF s

LEMMA MigratesPathTypes ==
  /\ WellMade(MigratePathTypes)
  /\ Of("files", {"binary path", "binary name"}) \subseteq Gives(MigratePathTypes, TRUE)
<1> DEFINE a == UnlessThere("files", "binary path", <<Modify("files", "binary path")>>)
           b == UnlessThere("files", "binary name", <<Modify("files", "binary name")>>)
<1>1. "files" \in Tables /\ "binary path" \in Names /\ "binary name" \in Names
  BY DEF Tables, Names, FilesColumns
<1>2. WellMade(a) /\ <<"files", "binary path">> \in Gives(a, TRUE)
  BY <1>1, ModifiedColumn
<1>3. WellMade(b) /\ <<"files", "binary name">> \in Gives(b, TRUE)
  BY <1>1, ModifiedColumn
<1>4. MigratePathTypes = a \o b
  BY DEF MigratePathTypes
<1> HIDE DEF a, b
<1> QED  BY <1>2, <1>3, <1>4, Join DEF Of

(***************************************************************************)
(* A table is created with its columns, past the entries that bring an old *)
(* table up to date.                                                       *)
(***************************************************************************)
LEMMA TableBlock ==
  ASSUME NEW t \in Tables, NEW new, IsRun(new), ~new.lax, ~new.twice,
         NEW old, WellMade(old), new.skip = Len(old), Table(t) \in new.adds
  PROVE  LET p == IfMissing(t, "table", <<new>>) \o old IN
         /\ WellMade(p)
         /\ Table(t) \in Gives(p, TRUE)
         /\ \A certain \in BOOLEAN : new.adds \cap Gives(old, certain) \subseteq Gives(p, certain)
<1> DEFINE ask == Ask(Table(t), FALSE, 1, "fail")
           a == <<ask>> \o <<new>>
           p == a \o old
<1>1. "table" \in Names
  BY DEF Names
<1>2. Table(t) \in Items /\ Table(t) # Presets
  BY TableItems
<1>3. ask \in Entry
  BY <1>1, AskIsEntry DEF Table
<1>4. ask.op = "ask" /\ ask.skip = 1 /\ ask.item = Table(t) /\ ask.wanted = FALSE
      /\ ask.onError = "fail"
  BY DEF Ask
<1>5. IfMissing(t, "table", <<new>>) = a
  <2>1. Len(<<new>>) = 1
    OBVIOUS
  <2> QED  BY <2>1 DEF IfMissing, Table
<1> HIDE DEF ask
<1>6. new \in Entry /\ new.op # "ask" /\ Presets \notin new.adds
  BY RunIsEntry DEF IsRun, Sound
<1>7. a \in Seq(Entry) /\ Len(a) = 2 /\ a[1] = ask /\ a[2] = new
  BY <1>3, <1>6
<1> HIDE DEF a
<1>8. old \in Seq(Entry) /\ Len(old) \in Nat
  BY DEF WellMade
<1>9. /\ p \in Seq(Entry) /\ Len(p) = 2 + Len(old)
      /\ p[1] = ask /\ p[2] = new
      /\ \A k \in 1..Len(old) : p[2 + k] = old[k]
  <2>1. /\ a \o old \in Seq(Entry)
        /\ Len(a \o old) = Len(a) + Len(old)
        /\ \A k \in 1..Len(a) : (a \o old)[k] = a[k]
        /\ \A k \in 1..Len(old) : (a \o old)[Len(a) + k] = old[k]
    BY <1>7, <1>8, Concatenation
  <2>2. 1 \in 1..Len(a) /\ 2 \in 1..Len(a)
    BY <1>7
  <2> QED  BY <1>7, <2>1, <2>2
<1> HIDE DEF p
<1>10. WellMade(p)
  <2> SUFFICES ASSUME NEW k \in 1..Len(p)  PROVE k + p[k].skip <= Len(p)
    BY <1>9 DEF WellMade
  <2>1. CASE k \in {1, 2}
    BY <2>1, <1>4, <1>8, <1>9
  <2>2. CASE k \notin {1, 2}
    <3> DEFINE l == k - 2
    <3>1. l \in 1..Len(old) /\ k = 2 + l
      BY <2>2, <1>8, <1>9
    <3>2. p[k] = old[l] /\ l + old[l].skip <= Len(old) /\ old[l].skip \in Nat
      BY <3>1, <1>8, <1>9, EntrySkips DEF WellMade
    <3> QED  BY <3>1, <3>2, <1>8, <1>9
  <2> QED  BY <2>1, <2>2
<1>11. Table(t) \in Gives(p, TRUE)
  <2>1. Secures(p[1], 1, 3, Table(t), TRUE)
    BY <1>2, <1>4, <1>9 DEF Secures
  <2>2. Secures(p[2], 2, 3, Table(t), TRUE)
    BY <1>2, <1>6, <1>9 DEF Secures
  <2>3. SettledAt(p, 3, Table(t), TRUE)
    <3>1. \A k \in 1..3 - 1 : k = 1 \/ k = 2
      OBVIOUS
    <3> QED  BY <2>1, <2>2, <3>1 DEF SettledAt
  <2>4. 3 \in 2..Len(p) + 1
    BY <1>8, <1>9
  <2> QED  BY <1>2, <2>3, <2>4 DEF Gives
<1>12. ASSUME NEW certain \in BOOLEAN, NEW x \in new.adds \cap Gives(old, certain)
       PROVE  x \in Gives(p, certain)
  <2>1. PICK m \in 2..Len(old) + 1 : SettledAt(old, m, x, certain)
    BY DEF Gives
  <2> DEFINE n == 2 + m
  <2>2. n \in 2..Len(p) + 1 /\ n >= 4 /\ m \in Nat
    BY <1>8, <1>9
  <2>3. ASSUME NEW k \in 1..n - 1  PROVE Secures(p[k], k, n, x, certain)
    <3>1. CASE k = 1
      BY <3>1, <2>2, <1>4, <1>9 DEF Secures
    <3>2. CASE k = 2
      BY <3>2, <2>2, <1>6, <1>9 DEF Secures
    <3>3. CASE k \notin {1, 2}
      <4> DEFINE l == k - 2
                 skip == old[l].skip
      <4>1. l \in 1..m - 1 /\ l \in 1..Len(old) /\ k = 2 + l
        BY <3>3, <2>2, <1>8, <1>9
      <4>a. l \in Nat /\ p[k] = old[l]
        BY <4>1, <1>8, <1>9
      <4>b. skip \in Nat
        BY <4>1, <1>8, EntrySkips
      <4>2. p[k] = old[l] /\ skip \in Nat /\ l \in Nat
        BY <4>a, <4>b
      <4>3. Secures(old[l], l, m, x, certain)
        BY <2>1, <4>1 DEF SettledAt
      <4>4. k + 1 < n <=> l + 1 < m
        BY <4>1, <4>2, <2>2
      <4> HIDE DEF skip, l
      <4>5. k + 1 + skip >= n <=> l + 1 + skip >= m
        BY <4>1, <4>2, <2>2
      <4> USE DEF skip
      <4> QED  BY <4>2, <4>3, <4>4, <4>5 DEF Secures
    <3> QED  BY <3>1, <3>2, <3>3
  <2>4. SettledAt(p, n, x, certain)
    BY <2>3 DEF SettledAt
  <2>5. x \in Items
    BY DEF Gives
  <2> HIDE DEF n
  <2> QED  BY <2>2, <2>4, <2>5 DEF Gives
<1>13. WellMade(p) /\ Table(t) \in Gives(p, TRUE)
       /\ \A certain \in BOOLEAN : new.adds \cap Gives(old, certain) \subseteq Gives(p, certain)
  BY <1>10, <1>11, <1>12
<1> QED  BY <1>5, <1>13 DEF p

\* A new table with the entries it skips.
LEMMA NewTable ==
  ASSUME NEW t \in Tables, NEW needs \in SUBSET Tables, NEW names \in SUBSET Names,
         "presets" \notin names, NEW n \in Nat
  PROVE  LET s == [CreateTable(t, needs, names) EXCEPT !.skip = n] IN
         /\ IsRun(s) /\ ~s.lax /\ ~s.twice /\ s.skip = n
         /\ s.adds = Of(t, names \cup {"table"}) /\ Table(t) \in s.adds
<1> DEFINE base == CreateTable(t, needs, names)
           s == [base EXCEPT !.skip = n]
<1>1. IsRun(base) /\ ~base.lax /\ ~base.twice /\ base.adds = Of(t, names \cup {"table"})
  BY Creates
<1> HIDE DEF base
<1>2. IsRun(s) /\ ~s.lax /\ ~s.twice /\ s.skip = n /\ s.adds = base.adds
  BY <1>1 DEF IsRun, Sound, RunEntry
<1>3. Table(t) \in Of(t, names \cup {"table"})
  BY DEF Of, Table
<1> QED  BY <1>1, <1>2, <1>3 DEF base

LEMMA MigratesConditions ==
  /\ WellMade(MigrateConditions)
  /\ Of("watcher_conditions", {"table", "account_hash"}) \subseteq Gives(MigrateConditions, TRUE)
<1> DEFINE t == "watcher_conditions"
           account == <<t, "account_hash">>
           s1 == [AddColumn(t, "account_hash") EXCEPT !.defaults = {account}]
           s2 == [Fill(t, "account_hash") EXCEPT !.needs = @ \cup {Table("watchers")}]
           s3 == [AddKey(t, {"account_hash"}, "account foreign key") EXCEPT !.valued = {account}]
           s4 == AddKey(t, {"account_hash"}, "account index")
           s5 == AddKey(t, {"account_hash"}, "account watcher index")
           ss == <<s1, s2, s3, s4, s5>>
           old == IfMissing(t, "account_hash", ss)
           names == {"account_hash", "account foreign key", "account index",
                     "account watcher index"}
           new == [CreateTable(t, {"accounts"}, names) EXCEPT !.skip = Len(old)]
<1>1. /\ t \in Tables /\ "accounts" \in Tables /\ "watchers" \in Tables
      /\ "account_hash" \in Names /\ "account foreign key" \in Names
      /\ "account index" \in Names /\ "account watcher index" \in Names
  BY DEF Tables, Names
<1>2. names \in SUBSET Names /\ "presets" \notin names /\ {"accounts"} \in SUBSET Tables
  BY <1>1
<1>3. account \in Items /\ Table("watchers") \in Items
  BY <1>1, TableItems DEF Items
<1>4. AddsColumn(s1, t, "account_hash") /\ ~s1.lax
  <2>1. AddsColumn(AddColumn(t, "account_hash"), t, "account_hash")
        /\ ~AddColumn(t, "account_hash").lax
    BY <1>1, Columns
  <2> QED  BY <1>1, <2>1, AddsVary
<1>5. IsRun(s2) /\ s2.skip = 0
  <2> DEFINE f == Fill(t, "account_hash")
  <2>1. IsRun(f) /\ f.skip = 0
    BY <1>1, Fills
  <2> HIDE DEF f
  <2>2. LET r == [f EXCEPT !.needs = @ \cup {Table("watchers")}] IN IsRun(r) /\ r.skip = 0
    BY <1>3, <2>1 DEF IsRun, RunEntry, Sound
  <2> QED  BY <2>2 DEF f
<1>6. IsRun(s3) /\ s3.skip = 0
  <2>1. AddsColumn(AddKey(t, {"account_hash"}, "account foreign key"), t, "account foreign key")
    BY <1>1, Keys
  <2>2. AddsColumn(s3, t, "account foreign key")
    BY <1>1, <1>3, <2>1, AddsVary
  <2> QED  BY <2>2 DEF AddsColumn
<1>7. IsRun(s4) /\ s4.skip = 0 /\ IsRun(s5) /\ s5.skip = 0
  <2>1. AddsColumn(s4, t, "account index") /\ AddsColumn(s5, t, "account watcher index")
    BY <1>1, Keys
  <2> QED  BY <2>1 DEF AddsColumn
<1>8. MigrateConditions = IfMissing(t, "table", <<new>>) \o old
  BY DEF MigrateConditions
<1> HIDE DEF s1, s2, s3, s4, s5
<1>9. WellMade(ss) /\ ss # <<>> /\ ss[1] = s1
  BY <1>4, <1>5, <1>6, <1>7, FiveStatements DEF AddsColumn
<1> HIDE DEF ss
<1>10. WellMade(old) /\ account \in Gives(old, TRUE)
  <2>1. old = Block(t, "account_hash", "fail", ss)
    BY DEF IfMissing, Block
  <2> HIDE DEF old
  <2> QED  BY <1>1, <1>4, <1>9, <2>1, ColumnGiven
<1> HIDE DEF old
<1>11. Len(old) \in Nat
  BY <1>10 DEF WellMade
<1>12. /\ IsRun(new) /\ ~new.lax /\ ~new.twice /\ new.skip = Len(old)
       /\ new.adds = Of(t, names \cup {"table"}) /\ Table(t) \in new.adds
  <2> HIDE DEF names, t
  <2> QED  BY <1>1, <1>2, <1>11, NewTable
<1>13. account \in new.adds
  BY <1>12 DEF Of
<1> HIDE DEF new
<1>14. /\ WellMade(MigrateConditions)
       /\ Table(t) \in Gives(MigrateConditions, TRUE)
       /\ new.adds \cap Gives(old, TRUE) \subseteq Gives(MigrateConditions, TRUE)
  BY <1>1, <1>8, <1>10, <1>12, TableBlock
<1> QED  BY <1>10, <1>13, <1>14 DEF Of, Table

\* A table that is only created where it is missing.
LEMMA TableGiven ==
  ASSUME NEW t \in Tables, NEW needs \in SUBSET Tables, NEW names \in SUBSET Names,
         "presets" \notin names, NEW ss, WellMade(ss), ss # <<>>,
         ss[1] = CreateTable(t, needs, names)
  PROVE  /\ WellMade(IfMissing(t, "table", ss))
         /\ Table(t) \in Gives(IfMissing(t, "table", ss), TRUE)
<1> DEFINE s == CreateTable(t, needs, names)
<1>1. "table" \in Names
  BY DEF Names
<1>2. IsRun(s) /\ ~s.lax /\ ~s.twice /\ s.adds = Of(t, names \cup {"table"})
  BY Creates
<1> HIDE DEF s
<1>3. s.op = "run" /\ <<t, "table">> \in s.adds
  BY <1>2, RunIsEntry DEF Of
<1>4. ss[1] = s
  BY DEF s
<1>5. IfMissing(t, "table", ss) = Block(t, "table", "fail", ss)
  BY DEF IfMissing, Block
<1>6. /\ WellMade(Block(t, "table", "fail", ss))
      /\ <<t, "table">> \in Gives(Block(t, "table", "fail", ss), TRUE)
  BY <1>1, <1>2, <1>3, <1>4, ColumnBlock
<1> QED  BY <1>5, <1>6 DEF Table

LEMMA MigratesGroups ==
  WellMade(MigrateGroups) /\ Table("watcher_groups") \in Gives(MigrateGroups, TRUE)
<1> DEFINE s == CreateTable("watcher_groups", {"accounts"}, {})
<1>1. "watcher_groups" \in Tables /\ {"accounts"} \in SUBSET Tables /\ {} \in SUBSET Names
      /\ "presets" \notin {}
  BY DEF Tables
<1>2. IsRun(s) /\ s.skip = 0
  BY <1>1, Creates
<1>3. MigrateGroups = IfMissing("watcher_groups", "table", <<s>>)
  BY DEF MigrateGroups
<1>4. WellMade(<<s>>) /\ <<s>> # <<>> /\ <<s>>[1] = s
  <2> HIDE DEF s
  <2> QED  BY <1>2, OneStatement
<1> QED  BY <1>1, <1>3, <1>4, TableGiven

LEMMA MigratesWatchers ==
  WellMade(MigrateWatchers) /\ Table("watchers") \in Gives(MigrateWatchers, TRUE)
<1> DEFINE s == CreateTable("watchers", {"accounts", "watcher_groups"}, WatchersColumns)
           l == Lax(AddKey("watcher_conditions", {}, "watcher foreign key"))
           k == [l EXCEPT !.needs = @ \cup {Table("watchers")}]
           ss == <<s, k>>
<1>1. /\ "watchers" \in Tables /\ "watcher_conditions" \in Tables
      /\ {"accounts", "watcher_groups"} \in SUBSET Tables
      /\ "watcher foreign key" \in Names
  BY DEF Tables, Names
<1>2. WatchersColumns \in SUBSET Names /\ "presets" \notin WatchersColumns
  BY DEF Names, WatchersColumns
<1>3. IsRun(s) /\ s.skip = 0
  BY <1>1, <1>2, Creates
<1>4. IsRun(k) /\ k.skip = 0
  <2>1. AddsColumn(AddKey("watcher_conditions", {}, "watcher foreign key"),
                   "watcher_conditions", "watcher foreign key")
    BY <1>1, Keys
  <2>2. AddsColumn(l, "watcher_conditions", "watcher foreign key")
    BY <1>1, <2>1, AddsVary
  <2> HIDE DEF l
  <2>3. {Table("watchers")} \in SUBSET (Items \cup {NoItem})
    BY <1>1, TableItems
  <2>4. AddsColumn(k, "watcher_conditions", "watcher foreign key")
    BY <1>1, <2>2, <2>3, AddsVary
  <2> QED  BY <2>4 DEF AddsColumn
<1>5. MigrateWatchers = IfMissing("watchers", "table", ss)
  BY DEF MigrateWatchers
<1>6. WellMade(ss) /\ ss # <<>> /\ ss[1] = s
  <2> HIDE DEF s, k
  <2> QED  BY <1>3, <1>4, TwoStatements
<1> HIDE DEF ss, k
<1> QED  BY <1>1, <1>2, <1>5, <1>6, TableGiven

LEMMA MigratesUniqueWatchers == WellMade(MigrateUniqueWatchers)
<1> DEFINE k == AddKey("watchers", {"watcher_id", "local_group_id"}, "unique key")
           l == Lax(k)
           s == [l EXCEPT !.valued = {<<"watchers", "watcher_id">>}]
<1>1. /\ "watchers" \in Tables /\ "unique key" \in Names
      /\ {"watcher_id", "local_group_id"} \in SUBSET Names
  BY DEF Tables, Names, WatchersColumns
<1>0. {<<"watchers", "watcher_id">>} \in SUBSET Items
  <2>1. "watcher_id" \in Names
    BY <1>1
  <2>2. <<"watchers", "watcher_id">> \in Items
    BY <1>1, <2>1 DEF Items
  <2> QED  BY <2>2
<1>2. AddsColumn(k, "watchers", "unique key")
  BY <1>1, Keys
<1> HIDE DEF k
<1>3. AddsColumn(l, "watchers", "unique key")
  BY <1>1, <1>2, AddsVary
<1> HIDE DEF l
<1>4. AddsColumn(s, "watchers", "unique key")
  BY <1>0, <1>1, <1>3, AddsVary
<1> HIDE DEF s
<1>5. WellMade(<<s>>) /\ <<s>> # <<>> /\ <<s>>[1] = s
  BY <1>4, OneStatement DEF AddsColumn
<1>6. MigrateUniqueWatchers = Block("watchers", "unique key", "run", <<s>>)
  BY DEF MigrateUniqueWatchers, UnlessThere, Block, s, l, k
<1> QED  BY <1>1, <1>4, <1>5, <1>6, ColumnGiven

LEMMA MigratesWatcherId ==
  WellMade(MigrateWatcherId) /\ <<"watchers", "watcher_id">> \in Gives(MigrateWatcherId, TRUE)
<1> DEFINE c == AddColumn("watchers", "watcher_id")
           s == [c EXCEPT !.defaults = {<<"watchers", "watcher_id">>}]
           f == Fill("watchers", "watcher_id")
<1>1. "watchers" \in Tables /\ "watcher_id" \in Names
  BY DEF Tables, Names, WatchersColumns
<1>2. AddsColumn(c, "watchers", "watcher_id") /\ ~c.lax
  BY <1>1, Columns
<1> HIDE DEF c
<1>3. AddsColumn(s, "watchers", "watcher_id") /\ ~s.lax
  BY <1>1, <1>2, AddsVary
<1>4. IsRun(f) /\ f.skip = 0
  BY <1>1, Fills
<1> HIDE DEF s, f
<1>5. WellMade(<<s, f>>) /\ <<s, f>> # <<>> /\ <<s, f>>[1] = s
  BY <1>3, <1>4, TwoStatements DEF AddsColumn
<1>6. MigrateWatcherId = Block("watchers", "watcher_id", "fail", <<s, f>>)
  BY DEF MigrateWatcherId, IfMissing, Block, c, s, f
<1> QED  BY <1>1, <1>3, <1>5, <1>6, ColumnGiven

LEMMA MigratesWatcherColumns ==
  /\ WellMade(MigrateWatcherColumns)
  /\ Of("watchers", WatchersColumns \ {"watcher_id"}) \subseteq Gives(MigrateWatcherColumns, FALSE)
<1> DEFINE t == "watchers"
           Add(c) == IfNeeded(t, c, <<AddColumn(t, c)>>)
           TryAdd(c) == IfNeeded(t, c, <<Lax(AddColumn(t, c))>>)
           json == AddColumn(t, "extra_json")
           text == [json EXCEPT !.needs = IF TextDefaults THEN @ ELSE @ \cup {NoItem}]
           s == AddColumn(t, "local_group_id")
           k == Lax(AddKey(t, {"watcher_id", "local_group_id"}, "local index"))
           b1 == IfNeeded(t, "local_group_id", <<s, k>>)
           b2 == Add("is_recursive")
           b3 == IfNeeded(t, "extra_json", <<text>>)
           b4 == Add("title")
           b5 == Add("folder")
           b6 == TryAdd("created_at")
           b7 == TryAdd("updated_at")
           b8 == TryAdd("is_active")
<1>1. /\ t \in Tables /\ "local index" \in Names
      /\ {"watcher_id", "local_group_id"} \in SUBSET Names
  BY DEF Tables, Names, WatchersColumns
<1>2. \A c \in WatchersColumns : c \in Names /\ c # "presets"
  BY DEF Names, WatchersColumns
<1>3. ASSUME NEW c \in WatchersColumns
      PROVE  /\ WellMade(Add(c)) /\ <<t, c>> \in Gives(Add(c), FALSE)
             /\ WellMade(TryAdd(c)) /\ <<t, c>> \in Gives(TryAdd(c), FALSE)
  BY <1>1, <1>2, OneColumn
<1>4. WellMade(b1) /\ <<t, "local_group_id">> \in Gives(b1, FALSE)
  <2>1. AddsColumn(s, t, "local_group_id")
    BY <1>1, <1>2, Columns DEF WatchersColumns
  <2>2. AddsColumn(AddKey(t, {"watcher_id", "local_group_id"}, "local index"), t, "local index")
    BY <1>1, Keys
  <2>3. AddsColumn(k, t, "local index")
    BY <1>1, <2>2, AddsVary
  <2>4. b1 = Block(t, "local_group_id", "skip", <<s, k>>)
    BY DEF IfNeeded, Block
  <2> HIDE DEF s, k, b1
  <2>5. WellMade(<<s, k>>) /\ <<s, k>> # <<>> /\ <<s, k>>[1] = s
    BY <2>1, <2>3, TwoStatements DEF AddsColumn
  <2> QED  BY <1>1, <2>1, <2>4, <2>5, ColumnGiven
<1>5. WellMade(b3) /\ <<t, "extra_json">> \in Gives(b3, FALSE)
  <2>1. "extra_json" \in Names
    BY DEF Names, WatchersColumns
  <2>2. AddsColumn(json, t, "extra_json")
    BY <1>1, <2>1, Columns
  <2> HIDE DEF json
  <2>3. AddsColumn(text, t, "extra_json")
    BY <2>2 DEF AddsColumn, IsRun, RunEntry, Sound
  <2>4. b3 = Block(t, "extra_json", "skip", <<text>>)
    BY DEF IfNeeded, Block
  <2> HIDE DEF text, b3
  <2>5. WellMade(<<text>>) /\ <<text>> # <<>> /\ <<text>>[1] = text
    BY <2>3, OneStatement DEF AddsColumn
  <2> QED  BY <1>1, <2>1, <2>3, <2>4, <2>5, ColumnGiven
<1>6. /\ WellMade(b2) /\ <<t, "is_recursive">> \in Gives(b2, FALSE)
      /\ WellMade(b4) /\ <<t, "title">> \in Gives(b4, FALSE)
      /\ WellMade(b5) /\ <<t, "folder">> \in Gives(b5, FALSE)
  <2> HIDE DEF Add
  <2> QED  BY <1>3 DEF WatchersColumns
<1>7. /\ WellMade(b6) /\ <<t, "created_at">> \in Gives(b6, FALSE)
      /\ WellMade(b7) /\ <<t, "updated_at">> \in Gives(b7, FALSE)
      /\ WellMade(b8) /\ <<t, "is_active">> \in Gives(b8, FALSE)
  <2> HIDE DEF TryAdd
  <2> QED  BY <1>3 DEF WatchersColumns
<1>8. MigrateWatcherColumns = b1 \o b2 \o b3 \o b4 \o b5 \o b6 \o b7 \o b8
  BY DEF MigrateWatcherColumns
<1> HIDE DEF b1, b2, b3, b4, b5, b6, b7, b8
<1> DEFINE p2 == b1 \o b2
           p3 == p2 \o b3
           p4 == p3 \o b4
           p5 == p4 \o b5
           p6 == p5 \o b6
           p7 == p6 \o b7
           p8 == p7 \o b8
<1>9. MigrateWatcherColumns = p8
  BY <1>8
<1>10. WellMade(p2) /\ Gives(b1, FALSE) \cup Gives(b2, FALSE) \subseteq Gives(p2, FALSE)
  BY <1>4, <1>6, Join
<1> HIDE DEF p2
<1>11. WellMade(p3) /\ Gives(p2, FALSE) \cup Gives(b3, FALSE) \subseteq Gives(p3, FALSE)
  BY <1>5, <1>10, Join
<1> HIDE DEF p3
<1>12. WellMade(p4) /\ Gives(p3, FALSE) \cup Gives(b4, FALSE) \subseteq Gives(p4, FALSE)
  BY <1>6, <1>11, Join
<1> HIDE DEF p4
<1>13. WellMade(p5) /\ Gives(p4, FALSE) \cup Gives(b5, FALSE) \subseteq Gives(p5, FALSE)
  BY <1>6, <1>12, Join
<1> HIDE DEF p5
<1>14. WellMade(p6) /\ Gives(p5, FALSE) \cup Gives(b6, FALSE) \subseteq Gives(p6, FALSE)
  BY <1>7, <1>13, Join
<1> HIDE DEF p6
<1>15. WellMade(p7) /\ Gives(p6, FALSE) \cup Gives(b7, FALSE) \subseteq Gives(p7, FALSE)
  BY <1>7, <1>14, Join
<1> HIDE DEF p7
<1>16. WellMade(p8) /\ Gives(p7, FALSE) \cup Gives(b8, FALSE) \subseteq Gives(p8, FALSE)
  BY <1>7, <1>15, Join
<1> HIDE DEF p8
<1>17. {<<t, "local_group_id">>, <<t, "is_recursive">>, <<t, "extra_json">>, <<t, "title">>,
        <<t, "folder">>, <<t, "created_at">>, <<t, "updated_at">>, <<t, "is_active">>}
       \subseteq Gives(p8, FALSE)
  BY <1>4, <1>5, <1>6, <1>7, <1>10, <1>11, <1>12, <1>13, <1>14, <1>15, <1>16
<1> QED  BY <1>9, <1>16, <1>17 DEF Of, WatchersColumns

LEMMA MigratesPresets ==
  /\ WellMade(MigratePresets)
  /\ Table("watcher_presets") \in Gives(MigratePresets, TRUE)
  /\ <<"watcher_presets", "preset_json">> \in Gives(MigratePresets, FALSE)
<1> DEFINE t == "watcher_presets"
           s == Lax(AddColumn(t, "preset_json"))
           k == Lax(AddKey(t, {}, "unique account"))
           a == UnlessThere(t, "preset_json", <<s>>)
           b == IfMissing(t, "unique account", <<k>>)
           old == a \o b
           names == {"preset_json", "unique account"}
           new == [CreateTable(t, {"accounts"}, names) EXCEPT !.skip = Len(old)]
<1>1. /\ t \in Tables /\ {"accounts"} \in SUBSET Tables
      /\ "preset_json" \in Names /\ "unique account" \in Names
      /\ names \in SUBSET Names /\ "presets" \notin names
  BY DEF Tables, Names
<1>2. AddsColumn(s, t, "preset_json")
  BY <1>1, Columns, AddsVary
<1>3. AddsColumn(k, t, "unique account")
  <2>1. AddsColumn(AddKey(t, {}, "unique account"), t, "unique account")
    BY <1>1, Keys
  <2> QED  BY <1>1, <2>1, AddsVary
<1>4. MigratePresets = IfMissing(t, "table", <<new>>) \o old
  BY DEF MigratePresets
<1>5. a = Block(t, "preset_json", "run", <<s>>) /\ b = Block(t, "unique account", "fail", <<k>>)
  BY DEF UnlessThere, IfMissing, Block
<1> HIDE DEF s, k, a, b
<1>6. WellMade(<<s>>) /\ <<s>> # <<>> /\ <<s>>[1] = s
  BY <1>2, OneStatement DEF AddsColumn
<1>7. WellMade(<<k>>) /\ <<k>> # <<>> /\ <<k>>[1] = k
  BY <1>3, OneStatement DEF AddsColumn
<1>8. WellMade(a) /\ <<t, "preset_json">> \in Gives(a, FALSE)
  BY <1>1, <1>2, <1>5, <1>6, ColumnGiven
<1>9. WellMade(b)
  BY <1>1, <1>3, <1>5, <1>7, ColumnGiven
<1>10. WellMade(old) /\ <<t, "preset_json">> \in Gives(old, FALSE)
  BY <1>8, <1>9, Join
<1> HIDE DEF old
<1>11. Len(old) \in Nat
  BY <1>10 DEF WellMade
<1>12. /\ IsRun(new) /\ ~new.lax /\ ~new.twice /\ new.skip = Len(old)
       /\ new.adds = Of(t, names \cup {"table"}) /\ Table(t) \in new.adds
  <2> HIDE DEF names, t
  <2> QED  BY <1>1, <1>11, NewTable
<1>13. <<t, "preset_json">> \in new.adds
  BY <1>12 DEF Of
<1> HIDE DEF new
<1>14. /\ WellMade(MigratePresets)
       /\ Table(t) \in Gives(MigratePresets, TRUE)
       /\ new.adds \cap Gives(old, FALSE) \subseteq Gives(MigratePresets, FALSE)
  BY <1>1, <1>4, <1>10, <1>12, TableBlock
<1> QED  BY <1>10, <1>13, <1>14

\* What migrate_schema as a whole settles.
LEMMA MigratesSchema ==
  /\ WellMade(MigrateSchema)
  /\ (Required \cup {Presets}) \ {Table("files")} \subseteq Gives(MigrateSchema, TRUE)
  /\ Expected \ {Table("files")} \subseteq Gives(MigrateSchema, FALSE)
<1> DEFINE p1 == RenamePresets
           p2 == p1 \o MigrateFileFlags
           p3 == p2 \o MigrateEqIndex
           p4 == p3 \o MigrateTokenPath
           p5 == p4 \o MigrateServerIds
           p6 == p5 \o MigratePathTypes
           p7 == p6 \o MigrateConditions
           p8 == p7 \o MigrateGroups
           p9 == p8 \o MigrateWatchers
           p10 == p9 \o MigrateUniqueWatchers
           p11 == p10 \o MigrateWatcherId
           p12 == p11 \o MigrateWatcherColumns
           p13 == p12 \o MigratePresets
           Grows(a, b, p) == \A certain \in BOOLEAN :
                               Gives(a, certain) \cup Gives(b, certain) \subseteq Gives(p, certain)
<1>1. MigrateSchema = p13
  BY DEF MigrateSchema
<1>2. WellMade(p1)
  BY RenamesPresets
<1> HIDE DEF p1
<1>3. WellMade(p2) /\ Grows(p1, MigrateFileFlags, p2)
  BY <1>2, MigratesFileFlags, Join
<1> HIDE DEF p2
<1>4. WellMade(p3) /\ Grows(p2, MigrateEqIndex, p3)
  BY <1>3, MigratesEqIndex, Join
<1> HIDE DEF p3
<1>5. WellMade(p4) /\ Grows(p3, MigrateTokenPath, p4)
  BY <1>4, MigratesTokenPath, Join
<1> HIDE DEF p4
<1>6. WellMade(p5) /\ Grows(p4, MigrateServerIds, p5)
  BY <1>5, MigratesServerIds, Join
<1> HIDE DEF p5
<1>7. WellMade(p6) /\ Grows(p5, MigratePathTypes, p6)
  BY <1>6, MigratesPathTypes, Join
<1> HIDE DEF p6
<1>8. WellMade(p7) /\ Grows(p6, MigrateConditions, p7)
  BY <1>7, MigratesConditions, Join
<1> HIDE DEF p7
<1>9. WellMade(p8) /\ Grows(p7, MigrateGroups, p8)
  BY <1>8, MigratesGroups, Join
<1> HIDE DEF p8
<1>10. WellMade(p9) /\ Grows(p8, MigrateWatchers, p9)
  BY <1>9, MigratesWatchers, Join
<1> HIDE DEF p9
<1>11. WellMade(p10) /\ Grows(p9, MigrateUniqueWatchers, p10)
  BY <1>10, MigratesUniqueWatchers, Join
<1> HIDE DEF p10
<1>12. WellMade(p11) /\ Grows(p10, MigrateWatcherId, p11)
  BY <1>11, MigratesWatcherId, Join
<1> HIDE DEF p11
<1>13. WellMade(p12) /\ Grows(p11, MigrateWatcherColumns, p12)
  BY <1>12, MigratesWatcherColumns, Join
<1> HIDE DEF p12
<1>14. WellMade(p13) /\ Grows(p12, MigratePresets, p13)
  BY <1>13, MigratesPresets, Join
<1> HIDE DEF p13
<1>15. /\ Gives(MigratePresets, TRUE) \cup Gives(MigrateWatcherId, TRUE)
          \cup Gives(MigrateWatchers, TRUE) \subseteq Gives(p13, TRUE)
       /\ Gives(MigratePresets, FALSE) \cup Gives(MigrateWatcherColumns, FALSE)
          \cup Gives(p11, FALSE) \subseteq Gives(p13, FALSE)
       /\ Gives(p8, TRUE) \subseteq Gives(p13, TRUE)
  BY <1>10, <1>11, <1>12, <1>13, <1>14
<1>16. /\ Gives(MigrateGroups, TRUE) \cup Gives(MigrateConditions, TRUE)
          \cup Gives(MigratePathTypes, TRUE) \subseteq Gives(p8, TRUE)
       /\ Gives(p5, TRUE) \subseteq Gives(p8, TRUE)
       /\ Gives(p5, FALSE) \subseteq Gives(p11, FALSE)
  BY <1>7, <1>8, <1>9, <1>10, <1>11, <1>12
<1>17. /\ Gives(MigrateServerIds, TRUE) \cup Gives(MigrateEqIndex, TRUE)
          \cup Gives(MigrateFileFlags, TRUE) \cup Gives(p1, TRUE) \subseteq Gives(p5, TRUE)
       /\ Gives(MigrateTokenPath, FALSE) \subseteq Gives(p5, FALSE)
  BY <1>3, <1>4, <1>5, <1>6
<1> DEFINE G == Gives(p13, TRUE)
           H == Gives(p13, FALSE)
<1>18. G \subseteq H
  BY GivesCertain
<1>19. /\ Of("files", {"is_encrypted", "operation_type"}) \subseteq G
       /\ <<"files", "eq_index">> \in G
       /\ Of("files", {"key_id", "server_group_id", "server_watcher_id"}) \subseteq G
       /\ Of("files", {"binary path", "binary name"}) \subseteq G
       /\ Presets \in G
  BY <1>15, <1>16, <1>17, RenamesPresets, MigratesFileFlags, MigratesEqIndex,
     MigratesServerIds, MigratesPathTypes DEF p1
<1>20. /\ Of("watcher_conditions", {"table", "account_hash"}) \subseteq G
       /\ Table("watcher_groups") \in G
       /\ Table("watchers") \in G
       /\ <<"watchers", "watcher_id">> \in G
       /\ Table("watcher_presets") \in G
  BY <1>15, <1>16, MigratesConditions, MigratesGroups, MigratesWatchers, MigratesWatcherId,
     MigratesPresets
<1>21. /\ <<"files", "token_path">> \in H
       /\ Of("watchers", WatchersColumns \ {"watcher_id"}) \subseteq H
       /\ <<"watcher_presets", "preset_json">> \in H
  BY <1>15, <1>16, <1>17, MigratesTokenPath, MigratesWatcherColumns, MigratesPresets
<1> HIDE DEF G, H
<1>22. Of("files", (FilesColumns \ {"eq_index key", "token_path"}) \cup {"operation_type"})
       \subseteq G
  BY <1>19 DEF Of, FilesColumns
<1>23. {Table(t) : t \in {"files", "watcher_conditions", "watcher_groups", "watchers",
                          "watcher_presets"}} \ {Table("files")} \subseteq G
  <2>1. Table("watcher_conditions") \in G
    BY <1>20 DEF Of, Table
  <2> QED  BY <2>1, <1>20
<1>24. <<"watcher_conditions", "account_hash">> \in G
  BY <1>20 DEF Of
<1>25. (Required \cup {Presets}) \ {Table("files")} \subseteq G
  BY <1>19, <1>20, <1>22, <1>23, <1>24 DEF Required
<1>26. Of("watchers", WatchersColumns) \subseteq H
  BY <1>18, <1>20, <1>21 DEF Of
<1>27. Of("files", {"token_path"}) \cup Of("watcher_presets", {"preset_json"}) \subseteq H
  BY <1>21 DEF Of
<1>28. Expected \ {Table("files")} \subseteq H
  BY <1>18, <1>25, <1>26, <1>27 DEF Expected
<1> QED  BY <1>1, <1>14, <1>25, <1>28 DEF G, H

LEMMA CreatesSchema == WellMade(InitSchema) /\ Len(InitSchema) = 5
<1> DEFINE Create(t, needs, names) == [CreateTable(t, needs, names) EXCEPT !.twice = TRUE]
           s1 == Create("accounts", {}, {})
           s2 == Create("auth_tokens", {"accounts"}, {})
           s3 == Create("devices", {"accounts"}, {})
           s4 == Create("files", {"accounts"}, FilesColumns)
           s5 == Create("encryption_keys", {"accounts"}, {})
<1>1. ASSUME NEW t \in Tables, NEW needs \in SUBSET Tables, NEW names \in SUBSET Names,
             "presets" \notin names
      PROVE  IsRun(Create(t, needs, names)) /\ Create(t, needs, names).skip = 0
  <2> DEFINE s == CreateTable(t, needs, names)
  <2>1. IsRun(s) /\ s.skip = 0
    BY <1>1, Creates
  <2> HIDE DEF s
  <2>2. IsRun([s EXCEPT !.twice = TRUE]) /\ [s EXCEPT !.twice = TRUE].skip = 0
    BY <2>1 DEF IsRun, RunEntry, Sound
  <2> QED  BY <2>2 DEF s
<1>2. /\ "accounts" \in Tables /\ "auth_tokens" \in Tables /\ "devices" \in Tables
      /\ "files" \in Tables /\ "encryption_keys" \in Tables
      /\ {} \in SUBSET Tables /\ {"accounts"} \in SUBSET Tables
  BY DEF Tables
<1>3. /\ {} \in SUBSET Names /\ "presets" \notin {}
      /\ FilesColumns \in SUBSET Names /\ "presets" \notin FilesColumns
  BY DEF Names, FilesColumns
<1>4. InitSchema = <<s1, s2, s3, s4, s5>>
  BY DEF InitSchema
<1> HIDE DEF Create
<1>5. IsRun(s1) /\ s1.skip = 0 /\ IsRun(s2) /\ s2.skip = 0 /\ IsRun(s3) /\ s3.skip = 0
  BY <1>1, <1>2, <1>3
<1>6. IsRun(s4) /\ s4.skip = 0 /\ IsRun(s5) /\ s5.skip = 0
  BY <1>1, <1>2, <1>3
<1> HIDE DEF s1, s2, s3, s4, s5
<1> QED  BY <1>4, <1>5, <1>6, FiveStatements

-----------------------------------------------------------------------------
(* What an entry does to a database. *)

Fine(x, items) == IF x = Presets THEN x \notin items ELSE x \in items

\* Columns are in tables; those without values are there, and presets is none.
Sane(items, unset) ==
  /\ items \subseteq Items
  /\ \A x \in items : Table(x[1]) \in items
  /\ unset \subseteq items
  /\ Presets \notin unset

\* From d to e by entry s.
Advances(d, e, s) ==
  /\ e \in Progress
  /\ Sane(e.schema, e.stale)
  /\ \A x \in Items : Fine(x, d.schema) => Fine(x, e.schema)
  /\ e.clean => d.clean
  /\ ~e.failed =>
       /\ e.pc \in {d.pc + 1, d.pc + 1 + s.skip}
       /\ \A x \in Items, n \in Nat, certain \in BOOLEAN :
            /\ Secures(s, d.pc, n, x, certain)
            /\ certain \/ e.clean
            /\ n <= e.pc
            => Fine(x, e.schema)

LEMMA Altering ==
  ASSUME NEW items, NEW unset, Sane(items, unset), NEW s, IsRun(s),
         s.needs \subseteq items, s.drops \subseteq items
  PROVE  LET new == (items \ s.drops) \cup s.adds IN
         /\ Sane(new, (unset \cup s.defaults) \ s.fills)
         /\ \A x \in Items : Fine(x, items) => Fine(x, new)
         /\ \A x \in s.adds : Fine(x, new)
         /\ Presets \in s.drops => Fine(Presets, new)
<1> DEFINE new == (items \ s.drops) \cup s.adds
<1>1. s.drops \subseteq {Presets} /\ s.adds \subseteq Items /\ Presets \notin s.adds
      /\ s.defaults \subseteq s.adds
  BY DEF IsRun, Sound, RunEntry
<1>2. \A x \in Items : Table(x[1]) # Presets
  BY TableItems DEF Items
<1>3. \A x \in items : Table(x[1]) \in new
  BY <1>1, <1>2 DEF Sane
<1>4. ASSUME NEW x \in s.adds  PROVE Table(x[1]) \in new
  <2>1. CASE Table(x[1]) \in s.needs \cup s.adds
    BY <1>1, <1>2, <2>1
  <2>2. CASE \E y \in s.drops : y[1] = x[1]
    BY <1>3, <2>2
  <2> QED  BY <2>1, <2>2 DEF IsRun, Sound
<1>5. Sane(new, (unset \cup s.defaults) \ s.fills)
  BY <1>1, <1>3, <1>4 DEF Sane
<1>6. \A x \in Items : Fine(x, items) => Fine(x, new)
  BY <1>1 DEF Fine
<1>7. (\A x \in s.adds : Fine(x, new)) /\ (Presets \in s.drops => Fine(Presets, new))
  BY <1>1 DEF Fine
<1> QED  BY <1>5, <1>6, <1>7

LEMMA Asking ==
  ASSUME NEW d \in Progress, Sane(d.schema, d.stale), ~d.failed, NEW s \in AskEntry
  PROVE  Advances(d, Run(d, s), s) /\ Advances(d, RunFails(d, s), s)
<1>1. s.op = "ask" /\ s.skip \in Nat /\ s.item \in Items /\ s.wanted \in BOOLEAN
      /\ s.onError \in {"fail", "skip", "run"}
  BY DEF AskEntry
<1>2. \A yes \in BOOLEAN :
        LET e == Answer(d, s, yes) IN
        /\ e \in Progress /\ e.schema = d.schema /\ e.stale = d.stale /\ e.clean = d.clean
        /\ ~e.failed /\ e.pc = IF yes THEN d.pc + 1 ELSE d.pc + 1 + s.skip
  BY <1>1 DEF Answer, Progress
<1>3. Advances(d, Run(d, s), s)
  <2> DEFINE yes == (s.item \in d.schema) = s.wanted
             e == Run(d, s)
  <2>1. e = Answer(d, s, yes)
    BY <1>1 DEF Run
  <2>2. /\ e \in Progress /\ e.schema = d.schema /\ e.stale = d.stale /\ e.clean = d.clean
        /\ ~e.failed /\ e.pc = IF yes THEN d.pc + 1 ELSE d.pc + 1 + s.skip
    BY <1>1, <1>2, <2>1
  <2> HIDE DEF e
  <2>3. ASSUME NEW x \in Items, NEW n \in Nat, NEW certain \in BOOLEAN,
               Secures(s, d.pc, n, x, certain), n <= e.pc
        PROVE  Fine(x, e.schema)
    <3>1. d.pc \in Nat
      BY DEF Progress
    <3>2. d.pc + 1 < n
      BY <1>1, <2>3 DEF Secures
    <3>3. ~yes /\ d.pc + 1 + s.skip >= n
      BY <1>1, <2>2, <2>3, <3>1, <3>2
    <3>4. s.item = x /\ (s.wanted <=> x = Presets)
      BY <1>1, <2>3, <3>3 DEF Secures
    <3> QED  BY <1>1, <2>2, <3>3, <3>4 DEF Fine
  <2>4. e.pc \in {d.pc + 1, d.pc + 1 + s.skip}
    BY <2>2
  <2> HIDE DEF yes
  <2>5. Advances(d, e, s)
    BY <2>2, <2>3, <2>4 DEF Advances
  <2> QED  BY <2>5 DEF e
<1>4. Advances(d, RunFails(d, s), s)
  <2> DEFINE c == [d EXCEPT !.clean = FALSE]
             e == RunFails(d, s)
  <2>1. /\ c \in Progress /\ c.schema = d.schema /\ c.stale = d.stale /\ ~c.clean
        /\ ~c.failed /\ c.pc = d.pc
    BY DEF Progress
  <2>2. CASE s.onError = "fail"
    <3>1. e = [c EXCEPT !.failed = TRUE]
      BY <1>1, <2>2 DEF RunFails
    <3> HIDE DEF c, e
    <3>2. e \in Progress /\ e.schema = d.schema /\ e.stale = d.stale /\ e.failed /\ ~e.clean
      BY <2>1, <3>1 DEF Progress
    <3>3. Advances(d, e, s)
      BY <3>2 DEF Advances
    <3> QED  BY <3>3 DEF e
  <2>3. CASE s.onError # "fail"
    <3> DEFINE yes == s.onError = "run"
    <3>1. e = Answer(c, s, yes)
      BY <1>1, <2>3 DEF RunFails
    <3> HIDE DEF c, e
    <3>2. /\ e \in Progress /\ e.schema = d.schema /\ e.stale = d.stale /\ ~e.clean
          /\ ~e.failed /\ e.pc = IF yes THEN d.pc + 1 ELSE d.pc + 1 + s.skip
      BY <1>1, <2>1, <3>1 DEF Progress, Answer
    <3>3. ASSUME NEW x \in Items, NEW n \in Nat, Secures(s, d.pc, n, x, TRUE), n <= e.pc
          PROVE  FALSE
      <4>1. d.pc \in Nat
        BY DEF Progress
      <4>2. d.pc + 1 < n
        BY <1>1, <3>3 DEF Secures
      <4>3. ~yes /\ d.pc + 1 + s.skip >= n
        BY <1>1, <3>2, <3>3, <4>1, <4>2
      <4>4. s.onError # "skip"
        BY <1>1, <3>3, <4>3 DEF Secures
      <4> QED  BY <1>1, <2>3, <4>3, <4>4
    <3>4. e.pc \in {d.pc + 1, d.pc + 1 + s.skip}
      BY <3>2
    <3>5. Advances(d, e, s)
      BY <3>2, <3>3, <3>4 DEF Advances
    <3> QED  BY <3>5 DEF e
  <2> QED  BY <2>2, <2>3
<1> QED  BY <1>3, <1>4

LEMMA Running ==
  ASSUME NEW d \in Progress, Sane(d.schema, d.stale), ~d.failed, NEW s, IsRun(s)
  PROVE  Advances(d, Run(d, s), s) /\ Advances(d, RunFails(d, s), s)
<1>1. s.op # "ask" /\ s.skip \in Nat /\ s.adds \subseteq Items /\ Presets \notin s.adds
      /\ s.lax \in BOOLEAN /\ s.twice \in BOOLEAN /\ d.pc \in Nat
  BY RunIsEntry DEF IsRun, RunEntry, Sound, Progress
<1>2. ASSUME NEW e \in Progress, e.schema = d.schema, e.stale = d.stale, e.failed,
             e.clean => d.clean
      PROVE  Advances(d, e, s)
  BY <1>2 DEF Advances
<1>3. ASSUME NEW e \in Progress, e.schema = d.schema, e.stale = d.stale, ~e.failed,
             e.pc = d.pc + 1, s.lax, ~e.clean
      PROVE  Advances(d, e, s)
  <2>1. ASSUME NEW x \in Items, NEW n \in Nat, Secures(s, d.pc, n, x, TRUE), n <= e.pc
        PROVE  FALSE
    <3>1. d.pc + 1 + s.skip >= n
      BY <1>1, <1>3, <2>1
    <3> QED  BY <1>1, <1>3, <2>1, <3>1 DEF Secures
  <2> QED  BY <1>3, <2>1 DEF Advances
<1>4. Advances(d, Run(d, s), s)
  <2> DEFINE e == Run(d, s)
  <2>1. CASE s.twice /\ s.adds \cap d.schema # {}
    <3>1. e = [d EXCEPT !.pc = d.pc + 1]
      BY <1>1, <2>1 DEF Run
    <3> HIDE DEF e
    <3>2. /\ e \in Progress /\ e.schema = d.schema /\ e.stale = d.stale /\ e.clean = d.clean
          /\ ~e.failed /\ e.pc = d.pc + 1
      BY <1>1, <3>1 DEF Progress
    <3>3. ASSUME NEW x \in Items, NEW n \in Nat, NEW certain \in BOOLEAN,
                 Secures(s, d.pc, n, x, certain), n <= e.pc
          PROVE  Fine(x, e.schema)
      <4>1. d.pc + 1 + s.skip >= n
        BY <1>1, <3>2, <3>3
      <4>2. s.adds = {x}
        BY <1>1, <2>1, <3>3, <4>1 DEF Secures
      <4> QED  BY <1>1, <2>1, <3>2, <4>2 DEF Fine
    <3>4. Advances(d, e, s)
      BY <3>2, <3>3 DEF Advances
    <3> QED  BY <3>4 DEF e
  <2>2. CASE ~(s.twice /\ s.adds \cap d.schema # {}) /\ Succeeds(d, s)
    <3> DEFINE new == (d.schema \ s.drops) \cup s.adds
               unset == (d.stale \cup s.defaults) \ s.fills
    <3>1. e = [d EXCEPT !.schema = (d.schema \ s.drops) \cup s.adds,
                        !.stale = (d.stale \cup s.defaults) \ s.fills,
                        !.pc = d.pc + 1 + s.skip]
      BY <1>1, <2>2 DEF Run
    <3> HIDE DEF e
    <3>2. /\ Sane(new, unset)
          /\ \A x \in Items : Fine(x, d.schema) => Fine(x, new)
          /\ \A x \in s.adds : Fine(x, new)
          /\ Presets \in s.drops => Fine(Presets, new)
      BY <2>2, Altering DEF Succeeds
    <3>3. new \in SUBSET Items /\ unset \in SUBSET Items
      BY <3>2 DEF Sane
    <3> DEFINE pc == d.pc + 1 + s.skip
    <3>a. e = [d EXCEPT !.schema = new, !.stale = unset, !.pc = pc] /\ pc \in Nat
      BY <1>1, <3>1
    <3> HIDE DEF new, unset, pc
    <3>b. e.schema = new /\ e.stale = unset /\ e.clean = d.clean /\ ~e.failed /\ e.pc = pc
      BY <3>a DEF Progress
    <3>5. e \in Progress
      BY <3>3, <3>a DEF Progress
    <3>4. e.schema = new /\ e.stale = unset /\ e.clean = d.clean /\ ~e.failed
          /\ e.pc = d.pc + 1 + s.skip
      BY <3>b DEF pc
    <3>6. ASSUME NEW x \in Items, NEW n \in Nat, NEW certain \in BOOLEAN,
                 Secures(s, d.pc, n, x, certain), n <= e.pc
          PROVE  Fine(x, e.schema)
      <4>1. IF x = Presets THEN x \in s.drops ELSE x \in s.adds
        BY <1>1, <3>4, <3>6 DEF Secures
      <4> QED  BY <3>2, <3>4, <4>1
    <3>7. Advances(d, e, s)
      BY <3>2, <3>4, <3>5, <3>6 DEF Advances
    <3> QED  BY <3>7 DEF e
  <2>3. CASE ~(s.twice /\ s.adds \cap d.schema # {}) /\ ~Succeeds(d, s) /\ s.lax
    <3> DEFINE pc == d.pc + 1
    <3>1. e = [d EXCEPT !.pc = pc, !.clean = FALSE] /\ pc \in Nat
      BY <1>1, <2>3 DEF Run
    <3> HIDE DEF e, pc
    <3>a. e \in Progress
      BY <3>1 DEF Progress
    <3>b. e.schema = d.schema /\ e.stale = d.stale /\ ~e.clean /\ ~e.failed /\ e.pc = pc
      BY <3>1 DEF Progress
    <3>2. /\ e \in Progress /\ e.schema = d.schema /\ e.stale = d.stale /\ ~e.clean
          /\ ~e.failed /\ e.pc = d.pc + 1
      BY <3>a, <3>b DEF pc
    <3>3. Advances(d, e, s)
      BY <1>3, <2>3, <3>2
    <3> QED  BY <3>3 DEF e
  <2>4. CASE ~(s.twice /\ s.adds \cap d.schema # {}) /\ ~Succeeds(d, s) /\ ~s.lax
    <3>1. e = [d EXCEPT !.failed = TRUE]
      BY <1>1, <2>4 DEF Run
    <3> HIDE DEF e
    <3>2. /\ e \in Progress /\ e.schema = d.schema /\ e.stale = d.stale /\ e.clean = d.clean
          /\ e.failed
      BY <1>1, <3>1 DEF Progress
    <3>3. Advances(d, e, s)
      BY <1>2, <3>2
    <3> QED  BY <3>3 DEF e
  <2> QED  BY <2>1, <2>2, <2>3, <2>4
<1>5. Advances(d, RunFails(d, s), s)
  <2> DEFINE c == [d EXCEPT !.clean = FALSE]
             e == RunFails(d, s)
  <2>1. /\ c \in Progress /\ c.schema = d.schema /\ c.stale = d.stale /\ ~c.clean
        /\ ~c.failed /\ c.pc = d.pc
    BY DEF Progress
  <2>2. CASE s.lax
    <3>1. e = [c EXCEPT !.pc = c.pc + 1]
      BY <1>1, <2>2 DEF RunFails
    <3> HIDE DEF c, e
    <3>2. /\ e \in Progress /\ e.schema = d.schema /\ e.stale = d.stale /\ ~e.clean
          /\ ~e.failed /\ e.pc = d.pc + 1
      BY <1>1, <2>1, <3>1 DEF Progress
    <3>3. Advances(d, e, s)
      BY <1>3, <2>2, <3>2
    <3> QED  BY <3>3 DEF e
  <2>3. CASE ~s.lax
    <3>1. e = [c EXCEPT !.failed = TRUE]
      BY <1>1, <2>3 DEF RunFails
    <3> HIDE DEF c, e
    <3>2. e \in Progress /\ e.schema = d.schema /\ e.stale = d.stale /\ ~e.clean /\ e.failed
      BY <2>1, <3>1 DEF Progress
    <3>3. Advances(d, e, s)
      BY <1>2, <3>2
    <3> QED  BY <3>3 DEF e
  <2> QED  BY <2>2, <2>3
<1> QED  BY <1>4, <1>5

LEMMA EntryAdvances ==
  ASSUME NEW d \in Progress, Sane(d.schema, d.stale), ~d.failed, NEW s \in Entry
  PROVE  Advances(d, Run(d, s), s) /\ Advances(d, RunFails(d, s), s)
BY Asking, Running DEF Entry, IsRun

-----------------------------------------------------------------------------
(***************************************************************************)
(* The inductive invariant.  What a server has settled by the entry it is  *)
(* at stays settled whatever the others do, since they all run the same    *)
(* two migrations; what a transaction has read of a path is readable, as   *)
(* it is what was stored; what it writes is encrypted once and indexed.    *)
(***************************************************************************)
ReadCell == [layers : 0..1, index : {NoIndex, "plain"}]
WrittenCell == [layers : {1}, index : {"plain"}]
StoredRow == [file : Files, layers : 0..1, index : {NoIndex, "plain"}]

Tx == [todo : Seq(Rows), read : [Rows -> ReadCell \cup {NoCell}],
       wrote : [Files -> WrittenCell \cup {NoCell}]]

Instance == [phase : Phases, pc : Nat, clean : BOOLEAN, migrated : BOOLEAN, tx : Tx]

\* The rows a transaction has still to update are there, and have been read.
TodoRead(tx, stored) ==
  /\ \A k, l \in 1..Len(tx.todo) : tx.todo[k] = tx.todo[l] => k = l
  /\ \A k \in 1..Len(tx.todo) : /\ stored[tx.todo[k]] # NoRow
                                /\ tx.read[tx.todo[k]] # NoCell

Types ==
  /\ rows \in [Rows -> StoredRow \cup {NoRow}]
  /\ mode \in [Instances -> {"main", "component", "state"}]
  /\ inst \in [Instances -> Instance]

\* All that is settled at entry m or before.
SettledBefore(items, m, clean) ==
  \A x \in Items, n \in 2..Len(MigrateSchema) + 1, certain \in BOOLEAN :
    SettledAt(MigrateSchema, n, x, certain) /\ (certain \/ clean) /\ n <= m => Fine(x, items)

Served == {"files", "select", "encrypt", "serving"}

ServerInv(i) ==
  /\ inst[i].pc \in 1..Len(Program(i))
  /\ inst[i].phase \notin {"init", "migrate"} => inst[i].pc = 1
  /\ inst[i].phase = "migrate" => SettledBefore(schema, inst[i].pc, inst[i].clean)
  /\ inst[i].migrated => /\ inst[i].phase \in Served
                         /\ SettledBefore(schema, Len(MigrateSchema) + 1, inst[i].clean)
  /\ Strict(i) /\ inst[i].phase \in Served => inst[i].migrated

SchemaInv ==
  /\ Types
  /\ Sane(schema, stale)
  /\ \A i \in Instances : ServerInv(i)
  /\ \A i \in Instances : TodoRead(inst[i].tx, rows)

LEMMA Lengths ==
  /\ Len(MigrateSchema) \in Nat /\ Len(MigrateSchema) >= 1
  /\ Len(InitSchema) \in Nat /\ Len(InitSchema) >= 1
<1>1. MigrateSchema \in Seq(Entry) /\ InitSchema \in Seq(Entry)
  BY MigratesSchema, CreatesSchema DEF WellMade
<1>2. Presets # Table("files")
  BY TableItems DEF Tables
<1>3. Presets \in Gives(MigrateSchema, TRUE)
  BY <1>2, MigratesSchema
<1>4. PICK n : n \in 2..Len(MigrateSchema) + 1
  BY <1>3 DEF Gives
<1>5. Len(MigrateSchema) \in Nat /\ Len(InitSchema) = 5
  BY <1>1, CreatesSchema
<1> QED  BY <1>4, <1>5

LEMMA StillSettled ==
  ASSUME NEW items, NEW new, NEW m, NEW clean \in BOOLEAN, NEW clean2 \in BOOLEAN,
         \A x \in Items : Fine(x, items) => Fine(x, new), clean2 => clean,
         SettledBefore(items, m, clean)
  PROVE  SettledBefore(new, m, clean2)
BY DEF SettledBefore

\* Going over entries that have nothing to do settles what they ask for.
LEMMA Passing ==
  ASSUME NEW pc \in Nat, pc >= 1, NEW clean \in BOOLEAN,
         NEW k \in Reached(MigrateSchema, pc), SettledBefore(schema, pc, clean)
  PROVE  SettledBefore(schema, k, clean)
<1> DEFINE p == MigrateSchema
<1>1. p \in Seq(Entry) /\ Len(p) \in Nat
  BY MigratesSchema DEF WellMade
<1>2. k \in pc..Len(p) + 1 /\ pc..k - 1 \subseteq Idle(p, pc) \cup Skipped(p, pc)
  BY DEF Reached
<1> SUFFICES ASSUME NEW x \in Items, NEW n \in 2..Len(p) + 1, NEW certain \in BOOLEAN,
                    SettledAt(p, n, x, certain), certain \/ clean, n <= k
             PROVE  Fine(x, schema)
  BY DEF SettledBefore
<1>3. CASE n <= pc
  BY <1>3 DEF SettledBefore
<1>4. CASE ~(n <= pc)
  <2>1. n - 1 \in pc..k - 1
    BY <1>1, <1>2, <1>4
  <2>2. PICK j \in Idle(p, pc) : j <= n - 1 /\ n - 1 <= j + p[j].skip
    <3>1. CASE n - 1 \in Idle(p, pc)
      <4>1. n - 1 \in 1..Len(p)
        BY <1>1, <3>1 DEF Idle
      <4>2. p[n - 1].skip \in Nat
        BY <1>1, <4>1, EntrySkips
      <4> QED  BY <3>1, <4>1, <4>2
    <3>2. CASE n - 1 \in Skipped(p, pc)
      <4>1. PICK j \in Idle(p, pc) : n - 1 \in j + 1 .. j + p[j].skip
        BY <3>2 DEF Skipped
      <4>2. j \in 1..Len(p)
        BY <1>1 DEF Idle
      <4>3. p[j].skip \in Nat
        BY <1>1, <4>2, EntrySkips
      <4> QED  BY <4>1, <4>2, <4>3
    <3> QED  BY <1>2, <2>1, <3>1, <3>2
  <2>3. j \in 1..Len(p) /\ Settled(p[j])
    BY <1>1 DEF Idle
  <2> DEFINE s == p[j]
  <2>4. s \in Entry /\ s.skip \in Nat
    BY <1>1, <2>3, EntrySkips
  <2>5. Secures(s, j, n, x, certain)
    <3>1. j \in 1..n - 1
      BY <2>2, <2>3
    <3> QED  BY <3>1 DEF SettledAt
  <2>6. j + 1 + s.skip >= n
    BY <2>2, <2>3, <2>4
  <2> HIDE DEF s, p
  <2>7. Settled(s)
    BY <2>3 DEF s
  <2>8. CASE s \in AskEntry
    <3>1. s.op = "ask" /\ s.wanted \in BOOLEAN
      BY <2>8 DEF AskEntry
    <3>2. s.item = x /\ (s.wanted <=> x = Presets)
      BY <2>5, <2>6, <3>1 DEF Secures
    <3>3. (s.item \in schema) # s.wanted
      BY <2>7, <3>1 DEF Settled
    <3> QED  BY <3>1, <3>2, <3>3 DEF Fine
  <2>9. CASE IsRun(s)
    <3>1. s.op # "ask" /\ Presets \notin s.adds
      BY <2>9, RunIsEntry DEF IsRun, Sound
    <3>2. s.twice /\ s.adds \cap schema # {}
      BY <2>7, <3>1 DEF Settled
    <3>3. s.adds = {x}
      BY <2>5, <2>6, <3>1, <3>2 DEF Secures
    <3> QED  BY <3>1, <3>2, <3>3 DEF Fine
  <2> QED  BY <2>4, <2>8, <2>9 DEF Entry, IsRun
<1> QED  BY <1>3, <1>4

\* A step of a migration, as far as Goto tells.
Moves(i, d) ==
  /\ d \in Progress
  /\ Sane(d.schema, d.stale)
  /\ \A x \in Items : Fine(x, schema) => Fine(x, d.schema)
  /\ ~d.failed =>
       /\ d.pc \in 1..Len(Program(i)) + 1
       /\ inst[i].phase = "migrate" => SettledBefore(d.schema, d.pc, d.clean)

\* Entry k of the migration, done or failed, moves it.
LEMMA EntryMoves ==
  ASSUME SchemaInv, NEW i \in Instances, Migrating(i), NEW k \in Reached(Program(i), inst[i].pc)
  PROVE  LET d == [State(i) EXCEPT !.pc = k] IN
         /\ k > Len(Program(i)) => Moves(i, d)
         /\ k <= Len(Program(i)) =>
              Moves(i, Run(d, Program(i)[k])) /\ Moves(i, RunFails(d, Program(i)[k]))
<1> DEFINE p == Program(i)
           d == [State(i) EXCEPT !.pc = k]
<1>1. WellMade(p) /\ p \in Seq(Entry) /\ Len(p) \in Nat
  <2>1. WellMade(p)
    BY MigratesSchema, CreatesSchema DEF Program
  <2> HIDE DEF p
  <2> QED  BY <2>1 DEF WellMade
<1>2. inst[i] \in Instance /\ inst[i].pc \in 1..Len(p)
  BY DEF SchemaInv, Types, ServerInv
<1>3. k \in inst[i].pc..Len(p) + 1 /\ k \in 1..Len(p) + 1 /\ k \in Nat
  BY <1>1, <1>2 DEF Reached
<1>4. Sane(schema, stale) /\ schema \in SUBSET Items /\ stale \in SUBSET Items
  BY DEF SchemaInv, Sane
<1>5. /\ d \in Progress /\ d.schema = schema /\ d.stale = stale /\ d.pc = k
      /\ d.clean = inst[i].clean /\ ~d.failed
  BY <1>2, <1>3, <1>4 DEF State, Progress, Instance
<1>6. d.clean \in BOOLEAN
  BY <1>5 DEF Progress
<1>7. inst[i].phase = "migrate" => SettledBefore(d.schema, k, d.clean)
  <2> HAVE inst[i].phase = "migrate"
  <2>1. SettledBefore(schema, inst[i].pc, inst[i].clean) /\ p = MigrateSchema
    BY DEF SchemaInv, ServerInv, Program
  <2>2. inst[i].pc \in Nat /\ inst[i].pc >= 1
    <3> HIDE DEF p, d
    <3> QED  BY <1>1, <1>2
  <2>3. inst[i].clean \in BOOLEAN
    BY <1>5, <1>6
  <2> QED  BY <1>5, <2>1, <2>2, <2>3, Passing
<1> HIDE DEF d
<1>8. k > Len(p) => Moves(i, d)
  BY <1>3, <1>4, <1>5, <1>7 DEF Moves
<1>9. ASSUME k <= Len(p), NEW e, Advances(d, e, p[k])
      PROVE  Moves(i, e)
  <2>1. k \in 1..Len(p)
    BY <1>1, <1>3, <1>9
  <2>2. p[k] \in Entry /\ p[k].skip \in Nat /\ k + p[k].skip <= Len(p)
    BY <1>1, <2>1, EntrySkips DEF WellMade
  <2>3. ~e.failed => e.pc \in 1..Len(p) + 1
    <3>1. ~e.failed => e.pc \in {k + 1, k + 1 + p[k].skip}
      BY <1>5, <1>9 DEF Advances
    <3>2. k + 1 \in 1..Len(p) + 1 /\ k + 1 + p[k].skip \in 1..Len(p) + 1
      BY <1>1, <2>1, <2>2
    <3> QED  BY <3>1, <3>2
  <2>4. ASSUME ~e.failed, inst[i].phase = "migrate"
        PROVE  SettledBefore(e.schema, e.pc, e.clean)
    <3>1. p = MigrateSchema
      BY <2>4 DEF Program
    <3>2. SUFFICES ASSUME NEW x \in Items, NEW n \in 2..Len(p) + 1, NEW certain \in BOOLEAN,
                          SettledAt(p, n, x, certain), certain \/ e.clean, n <= e.pc
                   PROVE  Fine(x, e.schema)
      BY <3>1 DEF SettledBefore
    <3>3. CASE n <= k
      <4>1. certain \/ d.clean
        BY <1>9, <3>2 DEF Advances
      <4>2. Fine(x, d.schema)
        BY <1>7, <2>4, <3>1, <3>2, <3>3, <4>1 DEF SettledBefore
      <4> QED  BY <1>9, <4>2 DEF Advances
    <3>4. CASE ~(n <= k)
      <4>1. n \in Nat /\ k \in 1..n - 1
        BY <1>1, <1>3, <2>1, <3>4
      <4>2. Secures(p[k], d.pc, n, x, certain)
        BY <1>5, <3>2, <4>1 DEF SettledAt
      <4> QED  BY <1>9, <2>4, <3>2, <4>1, <4>2 DEF Advances
    <3> QED  BY <3>3, <3>4
  <2>5. \A x \in Items : Fine(x, schema) => Fine(x, e.schema)
    BY <1>5, <1>9 DEF Advances
  <2>6. e \in Progress /\ Sane(e.schema, e.stale)
    BY <1>9 DEF Advances
  <2> QED  BY <2>3, <2>4, <2>5, <2>6 DEF Moves
<1>10. k <= Len(p) => Moves(i, Run(d, p[k])) /\ Moves(i, RunFails(d, p[k]))
  <2> HAVE k <= Len(p)
  <2>1. p[k] \in Entry
    BY <1>1, <1>3
  <2>2. Advances(d, Run(d, p[k]), p[k]) /\ Advances(d, RunFails(d, p[k]), p[k])
    BY <1>4, <1>5, <2>1, EntryAdvances
  <2> QED  BY <1>9, <2>2
<1> QED  BY <1>8, <1>10 DEF d

\* Down and its empty transaction are an instance.
LEMMA DownIsInstance ==
  /\ NoTx \in Tx /\ NoTx.todo = <<>>
  /\ Down \in Instance /\ Down.tx = NoTx /\ Down.phase = "down" /\ Down.pc = 1
  /\ ~Down.migrated
<1>1. NoTx \in Tx /\ NoTx.todo = <<>>
  BY DEF NoTx, Tx
<1>2. Down.tx = NoTx /\ Down.phase = "down" /\ Down.pc = 1 /\ ~Down.migrated
  BY DEF Down
<1>3. Down \in Instance
  BY <1>1 DEF Down, Instance, Phases
<1> QED  BY <1>1, <1>2, <1>3

\* The others, while instance i does a step.
LEMMA OthersStay ==
  ASSUME SchemaInv, NEW i \in Instances, NEW r \in Instance, inst' = [inst EXCEPT ![i] = r],
         mode' = mode, \A x \in Items : Fine(x, schema) => Fine(x, schema')
  PROVE  /\ mode' \in [Instances -> {"main", "component", "state"}]
         /\ inst' \in [Instances -> Instance]
         /\ inst'[i] = r
         /\ \A j \in Instances \ {i} : ServerInv(j)' /\ inst'[j] = inst[j]
<1>1. /\ mode' \in [Instances -> {"main", "component", "state"}]
      /\ inst' \in [Instances -> Instance] /\ inst'[i] = r
      /\ \A j \in Instances \ {i} : inst'[j] = inst[j]
  BY DEF SchemaInv, Types
<1>2. ASSUME NEW j \in Instances \ {i}  PROVE ServerInv(j)'
  <2>1. inst'[j] = inst[j] /\ inst[j].clean \in BOOLEAN /\ ServerInv(j)
    BY <1>1 DEF SchemaInv, Types, Instance
  <2>2. \A m : SettledBefore(schema, m, inst[j].clean) => SettledBefore(schema', m, inst[j].clean)
    BY <2>1, StillSettled
  <2>3. Strict(j)' = Strict(j) /\ Program(j)' = Program(j)
    BY <2>1 DEF Strict, Program
  <2> QED  BY <2>1, <2>2, <2>3 DEF ServerInv
<1> QED  BY <1>1, <1>2

LEMMA GotoKeeps ==
  ASSUME SchemaInv, NEW i \in Instances, Migrating(i), NEW d, Moves(i, d), Goto(i, d)
  PROVE  SchemaInv'
<1> DEFINE p == Program(i)
           q == [inst[i] EXCEPT !.pc = d.pc, !.clean = d.clean]
           s == After(i, d)
<1>1. inst[i] \in Instance /\ ServerInv(i) /\ TodoRead(inst[i].tx, rows)
  BY DEF SchemaInv, Types
<1>2. d.pc \in Nat /\ d.clean \in BOOLEAN /\ d.failed \in BOOLEAN
  BY DEF Moves, Progress
<1>3. /\ q \in Instance /\ q.phase = inst[i].phase /\ q.pc = d.pc /\ q.clean = d.clean
      /\ q.tx = inst[i].tx /\ q.migrated = inst[i].migrated
  BY <1>1, <1>2 DEF Instance
<1>4. schema' = d.schema /\ stale' = d.stale /\ rows' = rows /\ mode' = mode
      /\ inst' = [inst EXCEPT ![i] = s]
  BY DEF Goto
<1>5. inst[i].phase \in {"init", "migrate"} /\ ~inst[i].migrated
  BY <1>1 DEF Migrating, ServerInv, Served
<1>6. Strict(i)' = Strict(i)
  BY <1>4 DEF Strict
<1> DEFINE IsServer(r) ==
             /\ r \in Instance
             /\ r.tx = inst[i].tx \/ r.tx = NoTx
             /\ r.pc \in 1..Len(IF r.phase = "init" THEN InitSchema ELSE MigrateSchema)
             /\ r.phase \notin {"init", "migrate"} => r.pc = 1
             /\ r.phase = "migrate" => SettledBefore(d.schema, r.pc, r.clean)
             /\ r.migrated => /\ r.phase \in Served
                             /\ SettledBefore(d.schema, Len(MigrateSchema) + 1, r.clean)
             /\ Strict(i) /\ r.phase \in Served => r.migrated
<1>7. IsServer(s)
  <2>1. CASE d.failed /\ Strict(i)
    <3>1. s = Down
      BY <2>1 DEF After
    <3>2. IsServer(Down)
      <4>1. 1 \in 1..Len(MigrateSchema)
        BY Lengths
      <4> QED  BY <4>1, DownIsInstance DEF Served
    <3> QED  BY <3>1, <3>2
  <2>2. CASE ~(d.failed /\ Strict(i)) /\ (d.failed \/ d.pc > Len(p))
    <3> DEFINE init == q.phase = "init"
               phase == IF init THEN "migrate" ELSE "files"
               migrated == ~init /\ ~d.failed
    <3>1. s = [q EXCEPT !.pc = 1, !.phase = phase, !.migrated = migrated]
      BY <2>2 DEF After
    <3>2. phase \in Phases /\ migrated \in BOOLEAN
      BY DEF Phases
    <3> HIDE DEF q, s, phase, migrated
    <3>3. /\ s \in Instance /\ s.pc = 1 /\ s.phase = phase /\ s.migrated = migrated
          /\ s.clean = d.clean /\ s.tx = inst[i].tx
      BY <1>3, <3>1, <3>2 DEF Instance
    <3>4. SettledBefore(d.schema, 1, s.clean)
      <4>1. \A n \in 2..Len(MigrateSchema) + 1 : ~(n <= 1)
        BY Lengths
      <4> QED  BY <4>1 DEF SettledBefore
    <3>5. s.phase \in {"migrate", "files"} /\ (s.migrated => s.phase = "files")
      BY <3>3 DEF phase, migrated
    <3>6. ASSUME s.migrated
          PROVE  SettledBefore(d.schema, Len(MigrateSchema) + 1, s.clean)
      <4>1. inst[i].phase = "migrate" /\ ~d.failed
        BY <1>3, <1>5, <3>3, <3>6 DEF migrated
      <4>2. p = MigrateSchema
        BY <4>1 DEF Program
      <4>3. d.pc = Len(MigrateSchema) + 1
        <5>1. d.pc \in 1..Len(p) + 1
          BY <4>1 DEF Moves
        <5>2. d.pc > Len(p)
          BY <2>2, <4>1
        <5> QED  BY <1>2, <4>2, <5>1, <5>2, Lengths
      <4>4. SettledBefore(d.schema, d.pc, d.clean)
        BY <4>1 DEF Moves
      <4> QED  BY <3>3, <4>3, <4>4
    <3>7. Strict(i) /\ s.phase \in Served => s.migrated
      BY <2>2, <3>3 DEF phase, migrated, Served
    <3>8. s.pc \in 1..Len(IF s.phase = "init" THEN InitSchema ELSE MigrateSchema)
      BY <3>3, <3>5, Lengths
    <3> QED  BY <3>3, <3>4, <3>5, <3>6, <3>7, <3>8 DEF Served
  <2>3. CASE ~d.failed /\ ~(d.pc > Len(p))
    <3>1. s = q
      BY <2>3 DEF After
    <3>2. d.pc \in 1..Len(p)
      <4>1. Len(p) \in Nat
        BY Lengths DEF Program
      <4>2. d.pc \in 1..Len(p) + 1
        BY <2>3 DEF Moves
      <4> HIDE DEF p
      <4> QED  BY <2>3, <4>1, <4>2
    <3>3. p = IF q.phase = "init" THEN InitSchema ELSE MigrateSchema
      BY <1>3 DEF Program
    <3>4. q.phase = "migrate" => SettledBefore(d.schema, q.pc, q.clean)
      BY <1>3, <2>3 DEF Moves
    <3> HIDE DEF q, s, p
    <3> QED  BY <1>3, <1>5, <3>1, <3>2, <3>3, <3>4 DEF Served
  <2> QED  BY <2>1, <2>2, <2>3
<1> HIDE DEF s, q
<1>8. /\ s \in Instance
      /\ \A x \in Items : Fine(x, schema) => Fine(x, schema')
  BY <1>4, <1>7 DEF Moves
<1>9. /\ mode' \in [Instances -> {"main", "component", "state"}]
      /\ inst' \in [Instances -> Instance]
      /\ inst'[i] = s
      /\ \A j \in Instances \ {i} : ServerInv(j)' /\ inst'[j] = inst[j]
  BY <1>4, <1>8, OthersStay
<1>10. ServerInv(i)'
  <2>1. Program(i)' = IF s.phase = "init" THEN InitSchema ELSE MigrateSchema
    BY <1>9 DEF Program
  <2> QED  BY <1>4, <1>6, <1>7, <1>9, <2>1 DEF ServerInv
<1>11. TodoRead(inst'[i].tx, rows')
  <2>1. TodoRead(NoTx, rows)
    BY DownIsInstance DEF TodoRead
  <2> QED  BY <1>1, <1>4, <1>7, <1>9, <2>1
<1>12. \A j \in Instances : TodoRead(inst'[j].tx, rows')
  BY <1>4, <1>9, <1>11 DEF SchemaInv
<1>13. Sane(schema', stale') /\ rows' \in [Rows -> StoredRow \cup {NoRow}]
  BY <1>4 DEF Moves, SchemaInv, Types
<1> QED  BY <1>9, <1>10, <1>12, <1>13 DEF SchemaInv, Types

LEMMA MigrateKeeps ==
  ASSUME SchemaInv, NEW i \in Instances, Migrate(i) \/ MigrateFails(i)
  PROVE  SchemaInv'
<1>1. Migrating(i)
  BY DEF Migrate, MigrateFails
<1>2. CASE Migrate(i)
  <2>1. PICK k \in Reached(Program(i), inst[i].pc) :
          \/ k > Len(Program(i)) /\ Goto(i, [State(i) EXCEPT !.pc = k])
          \/ /\ k <= Len(Program(i))
             /\ Goto(i, Run([State(i) EXCEPT !.pc = k], Program(i)[k]))
    BY <1>2 DEF Migrate
  <2> QED  BY <1>1, <2>1, EntryMoves, GotoKeeps
<1>3. CASE MigrateFails(i)
  <2>1. PICK k \in Reached(Program(i), inst[i].pc) :
          /\ k <= Len(Program(i))
          /\ Goto(i, RunFails([State(i) EXCEPT !.pc = k], Program(i)[k]))
    BY <1>3 DEF MigrateFails
  <2> QED  BY <1>1, <2>1, EntryMoves, GotoKeeps
<1> QED  BY <1>2, <1>3

\* The other steps of instance i, which leave the schema alone.
LEMMA TodoRows ==
  ASSUME NEW tx \in Tx
  PROVE  tx.todo \in Seq(Rows) /\ \A k \in 1..Len(tx.todo) : tx.todo[k] \in Rows
<1>1. tx.todo \in Seq(Rows)
  BY DEF Tx
<1> QED  BY <1>1

LEMMA TodoStays ==
  ASSUME NEW tx \in Tx, NEW stored, NEW new, TodoRead(tx, stored),
         \A f \in Rows : stored[f] # NoRow => new[f] # NoRow
  PROVE  TodoRead(tx, new)
<1>1. \A k \in 1..Len(tx.todo) : tx.todo[k] \in Rows
  BY TodoRows
<1> QED  BY <1>1 DEF TodoRead

LEMMA PhaseKeeps ==
  ASSUME SchemaInv, NEW i \in Instances, NEW r \in Instance, inst' = [inst EXCEPT ![i] = r],
         schema' = schema, stale' = stale, mode' = mode,
         r.pc = 1, r.phase # "migrate",
         r.migrated => r.phase \in Served /\ inst[i].migrated /\ r.clean = inst[i].clean,
         Strict(i) /\ r.phase \in Served => r.migrated,
         rows' \in [Rows -> StoredRow \cup {NoRow}], TodoRead(r.tx, rows'),
         \A f \in Rows : rows[f] # NoRow => rows'[f] # NoRow
  PROVE  SchemaInv'
<1>1. /\ mode' \in [Instances -> {"main", "component", "state"}]
      /\ inst' \in [Instances -> Instance]
      /\ inst'[i] = r
      /\ \A j \in Instances \ {i} : ServerInv(j)' /\ inst'[j] = inst[j]
  BY OthersStay
<1>2. Strict(i)' = Strict(i) /\ ServerInv(i)
  BY DEF Strict, SchemaInv
<1>3. ServerInv(i)'
  <2>1. inst'[i].pc \in 1..Len(Program(i)')
    <3>1. 1 \in 1..Len(InitSchema) /\ 1 \in 1..Len(MigrateSchema)
      BY Lengths
    <3> QED  BY <1>1, <3>1 DEF Program
  <2>2. r.migrated => SettledBefore(schema', Len(MigrateSchema) + 1, r.clean)
    BY <1>2 DEF ServerInv
  <2> QED  BY <1>1, <1>2, <2>1, <2>2 DEF ServerInv
<1>4. ASSUME NEW j \in Instances \ {i}  PROVE TodoRead(inst'[j].tx, rows')
  <2>1. inst'[j] = inst[j] /\ inst[j].tx \in Tx /\ TodoRead(inst[j].tx, rows)
    BY <1>1 DEF SchemaInv, Types, Instance
  <2>2. \A f \in Rows : rows[f] # NoRow => rows'[f] # NoRow
    OBVIOUS
  <2>3. TodoRead(inst[j].tx, rows')
    <3> DEFINE tx == inst[j].tx
               new == rows'
    <3>1. tx \in Tx /\ TodoRead(tx, rows) /\ \A f \in Rows : rows[f] # NoRow => new[f] # NoRow
      BY <2>1, <2>2
    <3> HIDE DEF tx, new
    <3>2. TodoRead(tx, new)
      BY ONLY <3>1, TodoStays
    <3> QED  BY <3>2 DEF tx, new
  <2> QED  BY <2>1, <2>3
<1>5. \A j \in Instances : TodoRead(inst'[j].tx, rows')
  BY <1>1, <1>4
<1> QED  BY <1>1, <1>3, <1>5 DEF SchemaInv, Types, Sane

LEMMA ExitKeeps ==
  ASSUME SchemaInv, NEW i \in Instances, Exit(i), UNCHANGED <<schema, stale, rows, mode>>
  PROVE  SchemaInv'
<1>1. Down \in Instance /\ Down.pc = 1 /\ Down.phase = "down" /\ ~Down.migrated
      /\ Down.tx = NoTx /\ NoTx.todo = <<>>
  BY DownIsInstance
<1>2. TodoRead(Down.tx, rows')
  BY <1>1 DEF TodoRead
<1>3. rows' \in [Rows -> StoredRow \cup {NoRow}]
  BY DEF SchemaInv, Types
<1> QED  BY <1>1, <1>2, <1>3, PhaseKeeps DEF Exit, Served

LEMMA EnterKeeps ==
  ASSUME SchemaInv, NEW i \in Instances, NEW phase \in Phases, Enter(i, phase),
         UNCHANGED <<schema, stale, rows, mode>>,
         inst[i].phase \notin {"init", "migrate"}, phase # "migrate",
         phase \in Served <=> inst[i].phase \in Served
  PROVE  SchemaInv'
<1> DEFINE r == [inst[i] EXCEPT !.phase = phase]
<1>1. inst[i] \in Instance /\ ServerInv(i) /\ TodoRead(inst[i].tx, rows)
      /\ inst \in [Instances -> Instance] /\ rows' \in [Rows -> StoredRow \cup {NoRow}]
  BY DEF SchemaInv, Types
<1>2. /\ r \in Instance /\ r.phase = phase /\ r.pc = inst[i].pc /\ r.clean = inst[i].clean
      /\ r.migrated = inst[i].migrated /\ r.tx = inst[i].tx
  BY <1>1 DEF Instance
<1>3. inst' = [inst EXCEPT ![i] = r]
  BY <1>1 DEF Enter
<1> HIDE DEF r
<1>4. r.pc = 1 /\ (r.migrated => r.phase \in Served) /\ (Strict(i) /\ r.phase \in Served => r.migrated)
  BY <1>1, <1>2 DEF ServerInv
<1> QED  BY <1>1, <1>2, <1>3, <1>4, PhaseKeeps

LEMMA RollbackKeeps ==
  ASSUME SchemaInv, NEW i \in Instances, inst[i].phase \in {"select", "encrypt"},
         inst' = [inst EXCEPT ![i].phase = "serving", ![i].tx = NoTx],
         UNCHANGED <<schema, stale, mode>>,
         rows' \in [Rows -> StoredRow \cup {NoRow}],
         \A f \in Rows : rows[f] # NoRow => rows'[f] # NoRow
  PROVE  SchemaInv'
<1> DEFINE r == [inst[i] EXCEPT !.phase = "serving", !.tx = NoTx]
<1>1. inst[i] \in Instance /\ ServerInv(i) /\ inst \in [Instances -> Instance]
  BY DEF SchemaInv, Types
<1>2. NoTx \in Tx /\ NoTx.todo = <<>>
  BY DownIsInstance
<1>3. /\ r \in Instance /\ r.phase = "serving" /\ r.pc = inst[i].pc /\ r.clean = inst[i].clean
      /\ r.migrated = inst[i].migrated /\ r.tx = NoTx
  BY <1>1, <1>2 DEF Instance, Phases
<1>4. inst' = [inst EXCEPT ![i] = r]
  BY <1>1
<1> HIDE DEF r
<1>5. r.pc = 1 /\ r.phase \in Served /\ (Strict(i) => r.migrated)
  BY <1>1, <1>3 DEF ServerInv, Served
<1>6. TodoRead(r.tx, rows')
  BY <1>2, <1>3 DEF TodoRead
<1> QED  BY <1>3, <1>4, <1>5, <1>6, PhaseKeeps

LEMMA SelectKeeps ==
  ASSUME SchemaInv, NEW i \in Instances, EncryptSelect(i)
  PROVE  SchemaInv'
<1>1. PICK n \in 0..Batch : \E todo \in [1..n -> Candidates] :
        /\ IsInjective(todo)
        /\ inst' = [inst EXCEPT
             ![i].phase = "encrypt",
             ![i].tx = [inst[i].tx EXCEPT
                !.todo = todo,
                !.read = [r \in Rows |->
                   IF r \in Range(todo) THEN [layers |-> rows[r].layers, index |-> rows[r].index]
                   ELSE NoCell]]]
  BY DEF EncryptSelect
<1>2. PICK todo \in [1..n -> Candidates] :
        /\ IsInjective(todo)
        /\ inst' = [inst EXCEPT
             ![i].phase = "encrypt",
             ![i].tx = [inst[i].tx EXCEPT
                !.todo = todo,
                !.read = [r \in Rows |->
                   IF r \in Range(todo) THEN [layers |-> rows[r].layers, index |-> rows[r].index]
                   ELSE NoCell]]]
  BY <1>1
<1> DEFINE read == [r \in Rows |->
                     IF r \in Range(todo) THEN [layers |-> rows[r].layers, index |-> rows[r].index]
                     ELSE NoCell]
           tx == [inst[i].tx EXCEPT !.todo = todo, !.read = read]
           s == [inst[i] EXCEPT !.phase = "encrypt", !.tx = tx]
<1>3. /\ inst[i] \in Instance /\ inst[i].tx \in Tx /\ ServerInv(i)
      /\ inst \in [Instances -> Instance] /\ rows \in [Rows -> StoredRow \cup {NoRow}]
      /\ UNCHANGED <<schema, stale, rows, mode>> /\ inst[i].phase = "select"
  BY DEF SchemaInv, Types, Instance, EncryptSelect
<1>4. Candidates \subseteq Rows /\ \A r \in Candidates : rows[r] \in StoredRow /\ rows[r] # NoRow
  BY <1>3 DEF Candidates, Present
<1>5. n \in Nat /\ todo \in Seq(Rows) /\ Len(todo) = n
  <2>1. n \in Nat
    BY DatabaseAssumption
  <2>2. todo \in [1..n -> Rows]
    BY <1>4
  <2> QED  BY <2>1, <2>2
<1>6. \A k \in 1..n : todo[k] \in Range(todo) /\ todo[k] \in Candidates
  BY DEF Range
<1>7. Range(todo) \subseteq Candidates
  BY DEF Range
<1>8. \A r \in Range(todo) : [layers |-> rows[r].layers, index |-> rows[r].index] \in ReadCell
  BY <1>4, <1>7 DEF ReadCell, StoredRow
<1>9. read \in [Rows -> ReadCell \cup {NoCell}]
  BY <1>8
<1>10. NoCell \notin ReadCell
  BY DEF NoCell, ReadCell, NoIndex
<1>11. \A k \in 1..n : read[todo[k]] # NoCell /\ rows[todo[k]] # NoRow
  BY <1>4, <1>6, <1>8, <1>10
<1>12. \A k, l \in 1..n : todo[k] = todo[l] => k = l
  BY <1>2 DEF IsInjective
<1>13. inst' = [inst EXCEPT ![i] = s]
  <2>1. inst' = [inst EXCEPT ![i].phase = "encrypt", ![i].tx = tx]
    BY <1>2
  <2> HIDE DEF tx
  <2> QED  BY <1>3, <2>1 DEF Instance
<1> HIDE DEF read
<1>14. tx \in Tx /\ tx.todo = todo /\ tx.read = read
  BY <1>3, <1>5, <1>9 DEF Tx
<1> HIDE DEF tx
<1>15. /\ s \in Instance /\ s.phase = "encrypt" /\ s.pc = inst[i].pc /\ s.clean = inst[i].clean
       /\ s.migrated = inst[i].migrated /\ s.tx = tx
  BY <1>3, <1>14 DEF Instance, Phases
<1> HIDE DEF s
<1>16. TodoRead(s.tx, rows')
  BY <1>3, <1>5, <1>11, <1>12, <1>14, <1>15 DEF TodoRead
<1>17. s.pc = 1 /\ s.phase \in Served /\ (Strict(i) => s.migrated)
  BY <1>3, <1>15 DEF ServerInv, Served
<1> QED  BY <1>3, <1>13, <1>15, <1>16, <1>17, PhaseKeeps

LEMMA EncryptedIsWritten == \A c \in ReadCell : Encrypted(c) \in WrittenCell
BY DEF ReadCell, WrittenCell, Encrypted, DecryptText

LEMMA UpdateKeeps ==
  ASSUME SchemaInv, NEW i \in Instances, EncryptUpdate(i)
  PROVE  SchemaInv'
<1> DEFINE todo == inst[i].tx.todo
           r == Head(todo)
           f == rows[r].file
           c == Encrypted(inst[i].tx.read[r])
           read == [inst[i].tx.read EXCEPT ![r] = NoCell]
           wrote == [inst[i].tx.wrote EXCEPT ![f] = c]
           tx == [inst[i].tx EXCEPT !.todo = Tail(todo), !.read = read, !.wrote = wrote]
           s == [inst[i] EXCEPT !.tx = tx]
<1>1. /\ inst[i] \in Instance /\ inst[i].tx \in Tx /\ ServerInv(i)
      /\ inst \in [Instances -> Instance] /\ rows \in [Rows -> StoredRow \cup {NoRow}]
      /\ UNCHANGED <<schema, stale, rows, mode>> /\ inst[i].phase = "encrypt"
      /\ todo # <<>> /\ TodoRead(inst[i].tx, rows)
  BY DEF SchemaInv, Types, Instance, EncryptUpdate
<1>2. /\ todo \in Seq(Rows) /\ inst[i].tx.read \in [Rows -> ReadCell \cup {NoCell}]
      /\ inst[i].tx.wrote \in [Files -> WrittenCell \cup {NoCell}]
  BY <1>1 DEF Tx
<1>3. inst' = [inst EXCEPT ![i] = s]
  <2>1. inst' = [inst EXCEPT ![i].tx = tx]
    BY DEF EncryptUpdate
  <2> HIDE DEF tx
  <2>2. inst \in [Instances -> Instance]
    BY <1>1
  <2> QED  BY <2>1, <2>2
<1>t. todo \in Seq(Rows) /\ todo # <<>>
  BY <1>1, <1>2
<1>d. /\ \A k, l \in 1..Len(todo) : todo[k] = todo[l] => k = l
      /\ \A k \in 1..Len(todo) : rows[todo[k]] # NoRow /\ inst[i].tx.read[todo[k]] # NoCell
  BY <1>1 DEF TodoRead
<1> HIDE DEF todo
<1>4. /\ Tail(todo) \in Seq(Rows) /\ Len(Tail(todo)) = Len(todo) - 1 /\ Len(todo) \in Nat
      /\ Len(todo) >= 1 /\ r = todo[1] /\ r \in Rows
      /\ \A k \in 1..Len(Tail(todo)) : Tail(todo)[k] = todo[k + 1]
  BY <1>t
<1>5. rows[r] # NoRow /\ inst[i].tx.read[r] # NoCell
  BY <1>4, <1>d
<1>6. f \in Files /\ c \in WrittenCell
  BY <1>1, <1>2, <1>4, <1>5, EncryptedIsWritten DEF StoredRow
<1> HIDE DEF c, f
<1>7. read \in [Rows -> ReadCell \cup {NoCell}] /\ wrote \in [Files -> WrittenCell \cup {NoCell}]
  BY <1>2, <1>4, <1>6
<1>8. \A x \in Rows \ {r} : read[x] = inst[i].tx.read[x]
  BY <1>2
<1> HIDE DEF read, wrote, r
<1>9. tx \in Tx /\ tx.todo = Tail(todo) /\ tx.read = read
  BY <1>1, <1>4, <1>7 DEF Tx
<1> HIDE DEF tx
<1>10. /\ s \in Instance /\ s.phase = inst[i].phase /\ s.pc = inst[i].pc
       /\ s.clean = inst[i].clean /\ s.migrated = inst[i].migrated /\ s.tx = tx
  BY <1>1, <1>9 DEF Instance
<1> HIDE DEF s
<1>11. TodoRead(tx, rows)
  <2>1. \A k, l \in 1..Len(todo) : todo[k] = todo[l] => k = l
    BY <1>d
  <2>2. \A k \in 1..Len(todo) : /\ rows[todo[k]] # NoRow /\ todo[k] \in Rows
                                /\ inst[i].tx.read[todo[k]] # NoCell
    BY <1>d, <1>t
  <2>3. \A k \in 1..Len(Tail(todo)) : k + 1 \in 1..Len(todo) /\ 1 \in 1..Len(todo) /\ k + 1 # 1
    BY <1>4
  <2>4. \A k, l \in 1..Len(Tail(todo)) : Tail(todo)[k] = Tail(todo)[l] => k = l
    BY <1>4, <2>1, <2>3
  <2>5. \A k \in 1..Len(Tail(todo)) : Tail(todo)[k] \in Rows \ {r}
    BY <1>4, <2>1, <2>2, <2>3
  <2>6. \A k \in 1..Len(Tail(todo)) : rows[Tail(todo)[k]] # NoRow /\ read[Tail(todo)[k]] # NoCell
    BY <1>4, <1>8, <2>2, <2>3, <2>5
  <2> QED  BY <1>9, <2>4, <2>6 DEF TodoRead
<1>12. s.pc = 1 /\ s.phase \in Served /\ (Strict(i) => s.migrated) /\ s.phase # "migrate"
  BY <1>1, <1>10 DEF ServerInv, Served
<1> QED  BY <1>1, <1>3, <1>10, <1>11, <1>12, PhaseKeeps

LEMMA CommitKeeps ==
  ASSUME SchemaInv, NEW i \in Instances, EncryptCommit(i)
  PROVE  SchemaInv'
<1> DEFINE wrote == inst[i].tx.wrote
<1>1. /\ inst[i].tx \in Tx /\ rows \in [Rows -> StoredRow \cup {NoRow}]
      /\ wrote \in [Files -> WrittenCell \cup {NoCell}]
  BY DEF SchemaInv, Types, Instance, Tx
<1>2. NoRow \notin StoredRow
  BY DEF NoRow, StoredRow, NoIndex
<1>3. rows' = [r \in Rows |->
         IF r \in Present /\ wrote[rows[r].file] # NoCell
         THEN [rows[r] EXCEPT !.layers = wrote[rows[r].file].layers,
                              !.index = wrote[rows[r].file].index]
         ELSE rows[r]]
  BY DEF EncryptCommit
<1>4. ASSUME NEW r \in Rows
      PROVE  rows'[r] \in StoredRow \cup {NoRow} /\ (rows[r] # NoRow => rows'[r] # NoRow)
  <2>1. CASE r \in Present /\ wrote[rows[r].file] # NoCell
    <3> DEFINE c == wrote[rows[r].file]
    <3>1. rows[r] \in StoredRow
      BY <1>1, <2>1 DEF Present
    <3>2. c \in WrittenCell
      BY <1>1, <2>1, <3>1 DEF StoredRow
    <3>3. rows'[r] = [rows[r] EXCEPT !.layers = c.layers, !.index = c.index]
      BY <1>3, <2>1
    <3> HIDE DEF c
    <3>4. c.layers \in 0..1 /\ c.index \in {NoIndex, "plain"}
      BY <3>2 DEF WrittenCell
    <3>5. \A s \in StoredRow : [s EXCEPT !.layers = c.layers, !.index = c.index] \in StoredRow
      BY <3>4 DEF StoredRow
    <3> QED  BY <1>2, <3>1, <3>3, <3>5
  <2>2. CASE ~(r \in Present /\ wrote[rows[r].file] # NoCell)
    BY <1>1, <1>3, <2>2
  <2> QED  BY <2>1, <2>2
<1>5. rows' \in [Rows -> StoredRow \cup {NoRow}]
  BY <1>3, <1>4
<1> QED  BY <1>4, <1>5, RollbackKeeps DEF EncryptCommit

LEMMA RestoreKeeps ==
  ASSUME SchemaInv, NEW i \in Instances, NEW r \in Rows, NEW from \in Rows, Restore(i, r, from)
  PROVE  SchemaInv'
<1> DEFINE new == [file |-> rows[from].file, layers |-> DecryptText(rows[from].layers),
                   index |-> NoIndex]
<1>1. rows \in [Rows -> StoredRow \cup {NoRow}] /\ inst[i] \in Instance /\ ServerInv(i)
      /\ inst \in [Instances -> Instance] /\ TodoRead(inst[i].tx, rows)
  BY DEF SchemaInv, Types
<1>2. rows[from] \in StoredRow
  BY <1>1 DEF Restore, Present
<1>3. new \in StoredRow
  <2>1. rows[from].file \in Files /\ rows[from].layers \in 0..1
    BY <1>2 DEF StoredRow
  <2>2. \A n \in 0..1 : DecryptText(n) \in 0..1
    BY DEF DecryptText
  <2> QED  BY <2>1, <2>2 DEF StoredRow
<1>4. NoRow \notin StoredRow
  BY DEF NoRow, StoredRow, NoIndex
<1>5. rows' = [rows EXCEPT ![r] = new] /\ UNCHANGED <<schema, stale, mode, inst>>
      /\ inst[i].phase = "serving"
  BY DEF Restore
<1> HIDE DEF new
<1>6. rows' \in [Rows -> StoredRow \cup {NoRow}]
  BY <1>1, <1>3, <1>5
<1>7. \A f \in Rows : rows[f] # NoRow => rows'[f] # NoRow
  BY <1>1, <1>3, <1>4, <1>5
<1>8. TodoRead(inst[i].tx, rows')
  <2>1. inst[i].tx \in Tx
    BY <1>1 DEF Instance
  <2> QED  BY <1>1, <1>7, <2>1, TodoStays
<1>9. inst' = [inst EXCEPT ![i] = inst[i]]
  BY <1>1, <1>5
<1>10. inst[i].pc = 1 /\ (Strict(i) => inst[i].migrated) /\ "serving" \in Served
  BY <1>1, <1>5 DEF ServerInv, Served
<1> QED  BY <1>1, <1>5, <1>6, <1>7, <1>8, <1>9, <1>10, PhaseKeeps

-----------------------------------------------------------------------------
LEMMA InitKeeps == Init => SchemaInv
<1> SUFFICES ASSUME Init PROVE SchemaInv
  OBVIOUS
<1>1. PICK db \in Deployments : schema = db.schema /\ rows = db.rows /\ mode = db.mode
  BY DEF Init
<1>2. inst = [i \in Instances |-> Down] /\ stale = {}
  BY DEF Init
<1>3. Sane(schema, stale)
  BY <1>1, <1>2, DatabaseAssumption DEF Sane
<1>4. rows \in [Rows -> StoredRow \cup {NoRow}]
  <2>1. \A c \in Row : Readable(c) => c \in StoredRow
    BY DEF Row, Readable, StoredRow, DecryptText
  <2> QED  BY <1>1, <2>1, DatabaseAssumption
<1>5. Types
  BY <1>1, <1>2, <1>4, DownIsInstance, DatabaseAssumption DEF Types
<1>6. ASSUME NEW i \in Instances PROVE ServerInv(i) /\ TodoRead(inst[i].tx, rows)
  <2>1. inst[i] = Down
    BY <1>2
  <2>2. /\ inst[i].phase = "down" /\ inst[i].pc = 1 /\ ~inst[i].migrated
        /\ inst[i].tx.todo = <<>>
    BY <2>1, DownIsInstance
  <2>3. inst[i].pc \in 1..Len(Program(i))
    BY <2>2, Lengths DEF Program
  <2>4. ServerInv(i)
    BY <2>2, <2>3 DEF ServerInv, Served
  <2>5. TodoRead(inst[i].tx, rows)
    <3>1. 1..Len(inst[i].tx.todo) = {}
      BY <2>2
    <3> QED  BY <3>1 DEF TodoRead
  <2> QED  BY <2>4, <2>5
<1> QED  BY <1>3, <1>5, <1>6 DEF SchemaInv

LEMMA UnchangedKeeps == SchemaInv /\ UNCHANGED vars => SchemaInv'
<1> SUFFICES ASSUME SchemaInv, UNCHANGED vars PROVE SchemaInv'
  OBVIOUS
<1>1. schema' = schema /\ stale' = stale /\ rows' = rows /\ mode' = mode /\ inst' = inst
  BY DEF vars
<1>2. Types' /\ Sane(schema, stale)'
  BY <1>1 DEF SchemaInv, Types
<1>3. ASSUME NEW i \in Instances PROVE ServerInv(i)' /\ TodoRead(inst[i].tx, rows)'
  BY <1>1 DEF SchemaInv, ServerInv, Program, Strict
<1> QED  BY <1>2, <1>3 DEF SchemaInv

LEMMA RollbackActionKeeps ==
  ASSUME SchemaInv, NEW i \in Instances, Rollback(i)  PROVE SchemaInv'
<1>1. rows' \in [Rows -> StoredRow \cup {NoRow}]
  BY DEF SchemaInv, Types, Rollback
<1> QED  BY <1>1, RollbackKeeps DEF Rollback

LEMMA NextKeeps == SchemaInv /\ [Next]_vars => SchemaInv'
<1> SUFFICES ASSUME SchemaInv, [Next]_vars PROVE SchemaInv'
  OBVIOUS
<1>1. CASE UNCHANGED vars
  BY <1>1, UnchangedKeeps
<1>2. ASSUME NEW i \in Instances,
             Start(i) \/ Step(i) \/ Fault(i)
             \/ (\E r, from \in Rows : Restore(i, r, from)) \/ Shutdown(i) \/ Crash(i)
      PROVE  SchemaInv'
  <2>1. CASE Start(i)
    BY <2>1, EnterKeeps DEF Start, Phases, Served
  <2>2. CASE Connect(i)
    BY <2>2, EnterKeeps DEF Connect, Phases, Served
  <2>3. CASE Migrate(i) \/ MigrateFails(i)
    BY <2>3, MigrateKeeps
  <2>4. CASE CreateFileStorage(i)
    <3>1. inst[i].phase = "files" /\ UNCHANGED <<schema, stale, rows, mode>>
          /\ Enter(i, IF mode[i] = "component" THEN "select" ELSE "serving")
      BY <2>4 DEF CreateFileStorage
    <3>2. CASE mode[i] = "component"
      BY <3>1, <3>2, EnterKeeps DEF Phases, Served
    <3>3. CASE mode[i] # "component"
      BY <3>1, <3>3, EnterKeeps DEF Phases, Served
    <3> QED  BY <3>2, <3>3
  <2>5. CASE EncryptSelect(i)
    BY <2>5, SelectKeeps
  <2>6. CASE EncryptUpdate(i)
    BY <2>6, UpdateKeeps
  <2>7. CASE EncryptCommit(i)
    BY <2>7, CommitKeeps
  <2>8. CASE EncryptDeadlock(i) \/ EncryptFails(i)
    BY <2>8, RollbackActionKeeps DEF EncryptDeadlock, EncryptFails
  <2>9. CASE ConnectFails(i)
    <3>1. inst[i].phase = "connect" /\ UNCHANGED <<schema, stale, rows, mode>>
          /\ IF mode[i] = "component" THEN Enter(i, "memory") ELSE Exit(i)
      BY <2>9 DEF ConnectFails
    <3>2. CASE mode[i] = "component"
      BY <3>1, <3>2, EnterKeeps DEF Phases, Served
    <3>3. CASE mode[i] # "component"
      BY <3>1, <3>3, ExitKeeps
    <3> QED  BY <3>2, <3>3
  <2>10. CASE CreateFileStorageFails(i) \/ Shutdown(i) \/ Crash(i)
    BY <2>10, ExitKeeps DEF CreateFileStorageFails, Shutdown, Crash
  <2>11. CASE \E r, from \in Rows : Restore(i, r, from)
    BY <2>11, RestoreKeeps
  <2> QED  BY <1>2, <2>1, <2>2, <2>3, <2>4, <2>5, <2>6, <2>7, <2>8, <2>9, <2>10, <2>11
            DEF Step, Fault, EncryptPaths
<1> QED  BY <1>1, <1>2 DEF Next

\* Whatever servers start, stop, crash and fail in whatever order.
THEOREM Invariance == Spec => []SchemaInv
BY InitKeeps, NextKeeps, PTL DEF Spec

LEMMA TypesFollow == SchemaInv => TypeOK
<1> SUFFICES ASSUME SchemaInv PROVE TypeOK
  OBVIOUS
<1>1. schema \subseteq Items /\ stale \subseteq schema
  BY DEF SchemaInv, Sane
<1>2. StoredRow \subseteq Row
  BY DEF StoredRow, Row
<1>3. rows \in [Rows -> Row \cup {NoRow}]
  BY <1>2 DEF SchemaInv, Types
<1>4. ASSUME NEW i \in Instances
      PROVE  /\ inst[i].phase \in Phases /\ inst[i].pc \in 1..Len(Program(i))
             /\ inst[i].clean \in BOOLEAN /\ inst[i].migrated \in BOOLEAN
             /\ inst[i].tx.wrote \in [Files -> Cell \cup {NoCell}]
  <2>1. inst[i] \in Instance /\ ServerInv(i)
    BY DEF SchemaInv, Types
  <2>2. WrittenCell \subseteq Cell
    BY DEF WrittenCell, Cell
  <2>3. inst[i].tx.wrote \in [Files -> WrittenCell \cup {NoCell}]
    BY <2>1 DEF Instance, Tx
  <2>4. inst[i].tx.wrote \in [Files -> Cell \cup {NoCell}]
    BY <2>2, <2>3
  <2> QED  BY <2>1, <2>4 DEF Instance, ServerInv
<1>5. mode \in [Instances -> {"main", "component", "state"}]
  BY DEF SchemaInv, Types
<1> QED  BY <1>1, <1>3, <1>4, <1>5 DEF TypeOK

\* What the server holds of its database, of a migration (the entry it has come
\* to is one of the program it runs) and of a transaction has its type.
THEOREM TypeCorrect == Spec => []TypeOK
BY Invariance, TypesFollow, PTL

LEMMA MigratedHas ==
  ASSUME SchemaInv, NEW i \in Instances, inst[i].migrated
  PROVE  /\ Required \subseteq schema
         /\ inst[i].clean => Expected \subseteq schema
         /\ Presets \notin schema
<1> DEFINE m == Len(MigrateSchema) + 1
<1>1. /\ SettledBefore(schema, m, inst[i].clean) /\ Sane(schema, stale)
      /\ Len(MigrateSchema) \in Nat
  BY Lengths DEF SchemaInv, ServerInv
<1>2. ASSUME NEW x \in Items, NEW certain \in BOOLEAN, certain \/ inst[i].clean,
             x \in Gives(MigrateSchema, certain)
      PROVE  Fine(x, schema)
  <2>1. PICK n \in 2..m : SettledAt(MigrateSchema, n, x, certain)
    BY <1>2 DEF Gives
  <2>2. n <= m
    BY <1>1
  <2> QED  BY <1>1, <1>2, <2>1, <2>2 DEF SettledBefore
<1>3. /\ \A x \in Gives(MigrateSchema, TRUE) : Fine(x, schema)
      /\ inst[i].clean => \A x \in Gives(MigrateSchema, FALSE) : Fine(x, schema)
  BY <1>2 DEF Gives
<1>4. Presets # Table("files") /\ Presets \notin Required /\ Presets \notin Expected
  BY DEF Presets, Required, Expected, Table, Of, FilesColumns, WatchersColumns
<1>5. Presets \notin schema
  BY <1>3, <1>4, MigratesSchema DEF Fine
<1>6. <<"files", "is_encrypted">> \in Required /\ <<"files", "is_encrypted">> # Table("files")
      /\ <<"files", "is_encrypted">>[1] = "files" /\ <<"files", "is_encrypted">> # Presets
  BY DEF Required, Of, FilesColumns, Table, Presets
<1>7. Table("files") \in schema
  <2>1. <<"files", "is_encrypted">> \in schema
    BY <1>3, <1>6, MigratesSchema DEF Fine
  <2> QED  BY <1>1, <1>6, <2>1 DEF Sane
<1>8. Required \subseteq schema
  BY <1>3, <1>4, <1>7, MigratesSchema DEF Fine
<1>9. inst[i].clean => Expected \subseteq schema
  BY <1>3, <1>4, <1>7, MigratesSchema DEF Fine
<1> QED  BY <1>5, <1>8, <1>9

\* Where migrate_schema returned Ok, or AppState::new went on to serve, every
\* table and column the migration answers for is there, for any number of
\* servers that ask, alter, fail and crash between each other's statements;
\* and the rest too if the database answered all that this server asked.
THEOREM OkDoesMeanMigrated == Spec => []OkMeansMigrated
<1>1. SchemaInv => OkMeansMigrated
  <2> SUFFICES ASSUME SchemaInv, NEW i \in Instances,
                      inst[i].migrated \/ (Strict(i) /\ inst[i].phase = "serving")
               PROVE  /\ Required \subseteq schema
                      /\ inst[i].clean => Expected \subseteq schema
                      /\ <<"watcher_presets", "presets">> \notin schema
    BY DEF OkMeansMigrated
  <2>1. inst[i].migrated
    BY DEF SchemaInv, ServerInv, Served
  <2> QED  BY <2>1, MigratedHas DEF Presets
<1> QED  BY <1>1, Invariance, PTL

\* Every stored path reads as the file's path, and its index is one of that
\* path, for any number of servers whose migrate_encrypt_paths, restores and
\* failures overlap: none encrypts what another has encrypted.
THEOREM PathsAreReadable == Spec => []PathsReadable
<1>1. SchemaInv => PathsReadable
  <2>1. \A c \in StoredRow : Readable(c)
    BY DEF StoredRow, Readable, DecryptText
  <2> QED  BY <2>1 DEF SchemaInv, Types, PathsReadable, Present
<1> QED  BY <1>1, Invariance, PTL

-----------------------------------------------------------------------------
(* What a step may never do. *)

LEMMA MigrateAdds ==
  ASSUME SchemaInv, NEW i \in Instances, Migrate(i) \/ MigrateFails(i)
  PROVE  (\A x \in Items : Fine(x, schema) => Fine(x, schema')) /\ UNCHANGED rows
<1>1. Migrating(i)
  BY DEF Migrate, MigrateFails
<1>2. CASE Migrate(i)
  <2>1. PICK k \in Reached(Program(i), inst[i].pc) :
          \/ k > Len(Program(i)) /\ Goto(i, [State(i) EXCEPT !.pc = k])
          \/ /\ k <= Len(Program(i))
             /\ Goto(i, Run([State(i) EXCEPT !.pc = k], Program(i)[k]))
    BY <1>2 DEF Migrate
  <2> QED  BY <1>1, <2>1, EntryMoves DEF Moves, Goto
<1>3. CASE MigrateFails(i)
  <2>1. PICK k \in Reached(Program(i), inst[i].pc) :
          /\ k <= Len(Program(i))
          /\ Goto(i, RunFails([State(i) EXCEPT !.pc = k], Program(i)[k]))
    BY <1>3 DEF MigrateFails
  <2> QED  BY <1>1, <2>1, EntryMoves DEF Moves, Goto
<1> QED  BY <1>2, <1>3

Migrates(i) == Migrate(i) \/ MigrateFails(i)
Stores(i) == EncryptCommit(i) \/ \E r, from \in Rows : Restore(i, r, from)

\* Only a migration alters the schema, only a commit or a restore a path.
LEMMA NextParts ==
  ASSUME [Next]_vars
  PROVE  \/ \E i \in Instances : Migrates(i)
         \/ UNCHANGED schema /\ \E i \in Instances : Stores(i)
         \/ UNCHANGED <<schema, rows>>
<1>1. CASE UNCHANGED vars
  BY <1>1 DEF vars
<1>2. ASSUME NEW i \in Instances,
             Start(i) \/ Step(i) \/ Fault(i)
             \/ (\E r, from \in Rows : Restore(i, r, from)) \/ Shutdown(i) \/ Crash(i)
      PROVE  Migrates(i) \/ (UNCHANGED schema /\ Stores(i)) \/ UNCHANGED <<schema, rows>>
  <2>1. CASE EncryptCommit(i) \/ \E r, from \in Rows : Restore(i, r, from)
    BY <2>1 DEF Stores, EncryptCommit, Restore
  <2>2. CASE Migrate(i) \/ MigrateFails(i)
    BY <2>2 DEF Migrates
  <2>3. CASE Start(i) \/ Connect(i) \/ ConnectFails(i) \/ CreateFileStorage(i)
             \/ CreateFileStorageFails(i) \/ Shutdown(i) \/ Crash(i)
    BY <2>3 DEF Start, Connect, ConnectFails, CreateFileStorage, CreateFileStorageFails,
                Shutdown, Crash
  <2>4. CASE EncryptSelect(i) \/ EncryptUpdate(i) \/ EncryptDeadlock(i) \/ EncryptFails(i)
    BY <2>4 DEF EncryptSelect, EncryptUpdate, EncryptDeadlock, EncryptFails, Rollback
  <2> QED  BY <1>2, <2>1, <2>2, <2>3, <2>4 DEF Step, Fault, EncryptPaths
<1> QED  BY <1>1, <1>2 DEF Next

\* What is there stays, but for the column presets, which does not come back.
OnlyForward ==
  /\ schema \ {Presets} \subseteq schema'
  /\ Presets \in schema' => Presets \in schema

\* No statement of any server takes away a table, column or key that another
\* has asked for or made, nor brings presets back after its rename: what
\* information_schema answered "there" stays so between a server's question
\* and the statement it leads to.
THEOREM NothingIsUndone == Spec => [][OnlyForward]_vars
<1>1. SchemaInv /\ [Next]_vars => OnlyForward
  <2> SUFFICES ASSUME SchemaInv, [Next]_vars PROVE OnlyForward
    OBVIOUS
  <2>1. CASE UNCHANGED schema
    BY <2>1 DEF OnlyForward
  <2>2. CASE \E i \in Instances : Migrates(i)
    <3>1. \A x \in Items : Fine(x, schema) => Fine(x, schema')
      BY <2>2, MigrateAdds DEF Migrates
    <3>2. schema \subseteq Items /\ Presets \in Items
      BY DEF SchemaInv, Sane, Presets, Items, Tables, Names
    <3> QED  BY <3>1, <3>2 DEF Fine, OnlyForward
  <2> QED  BY <2>1, <2>2, NextParts
<1> QED  BY <1>1, Invariance, PTL DEF Spec

\* A stored path is one of its file, as encrypted and as indexed as before.
PathsAdvance ==
  \A r \in Present :
    /\ r \in Present' /\ rows'[r].file = rows[r].file
    /\ rows'[r].layers >= rows[r].layers
    /\ rows[r].index = "plain" => rows'[r].index = "plain"

\* A path that one server's migrate_encrypt_paths has encrypted and indexed is
\* not written back as plain text by another that read it before, nor by a
\* restore, which adds a revision and overwrites none.
THEOREM EncryptedStayEncrypted == Spec => [][PathsAdvance]_vars
<1>1. SchemaInv /\ [Next]_vars => PathsAdvance
  <2> SUFFICES ASSUME SchemaInv, [Next]_vars, NEW r \in Present
               PROVE  /\ r \in Present' /\ rows'[r].file = rows[r].file
                      /\ rows'[r].layers >= rows[r].layers
                      /\ rows[r].index = "plain" => rows'[r].index = "plain"
    BY DEF PathsAdvance
  <2>1. r \in Rows /\ rows[r] # NoRow /\ rows[r] \in StoredRow
    BY DEF Present, SchemaInv, Types
  <2>2. CASE UNCHANGED rows
    BY <2>1, <2>2 DEF Present, StoredRow
  <2>3. ASSUME NEW i \in Instances, NEW s \in Rows, NEW from \in Rows, Restore(i, s, from)
        PROVE  rows'[r] = rows[r]
    BY <2>1, <2>3 DEF Restore, SchemaInv, Types
  <2>4. ASSUME NEW i \in Instances, EncryptCommit(i)
        PROVE  \/ rows'[r] = rows[r]
               \/ rows'[r] # NoRow /\ rows'[r].file = rows[r].file /\ rows'[r].layers = 1
                  /\ rows'[r].index = "plain"
    <3> DEFINE c == inst[i].tx.wrote[rows[r].file]
    <3>1. c \in WrittenCell \cup {NoCell}
      BY <2>1 DEF SchemaInv, Types, Instance, Tx, StoredRow
    <3>2. rows'[r] = IF c # NoCell THEN [rows[r] EXCEPT !.layers = c.layers, !.index = c.index]
                     ELSE rows[r]
      BY <2>1, <2>4 DEF EncryptCommit
    <3> HIDE DEF c
    <3>3. CASE c # NoCell
      <4>1. c.layers = 1 /\ c.index = "plain"
        BY <3>1, <3>3 DEF WrittenCell
      <4>2. \A w \in StoredRow : [w EXCEPT !.layers = c.layers, !.index = c.index] \in
              {v \in StoredRow : v.file = w.file /\ v.layers = 1 /\ v.index = "plain"}
        <5>1. c.layers \in 0..1 /\ c.index \in {NoIndex, "plain"}
          BY <4>1
        <5> QED  BY <4>1, <5>1 DEF StoredRow
      <4>3. NoRow \notin StoredRow
        BY DEF NoRow, StoredRow, NoIndex
      <4> QED  BY <2>1, <3>2, <3>3, <4>2, <4>3
    <3> QED  BY <3>2, <3>3
  <2>5. CASE \E i \in Instances : Stores(i)
    <3>1. \/ rows'[r] = rows[r]
          \/ rows'[r] # NoRow /\ rows'[r].file = rows[r].file /\ rows'[r].layers = 1
             /\ rows'[r].index = "plain"
      BY <2>3, <2>4, <2>5 DEF Stores
    <3>2. rows[r].layers \in 0..1
      BY <2>1 DEF StoredRow
    <3>3. rows'[r] # NoRow /\ rows'[r].file = rows[r].file
          /\ (rows[r].index = "plain" => rows'[r].index = "plain")
      BY <2>1, <3>1
    <3>4. rows'[r].layers >= rows[r].layers
      BY <3>1, <3>2
    <3> QED  BY <2>1, <3>3, <3>4 DEF Present
  <2>6. CASE \E i \in Instances : Migrates(i)
    BY <2>2, <2>6, MigrateAdds DEF Migrates
  <2> QED  BY <2>2, <2>5, <2>6, NextParts
<1> QED  BY <1>1, Invariance, PTL DEF Spec

=============================================================================
