---------------------------- MODULE Settings_proofs ----------------------------
(***************************************************************************)
(* ProxiesFollow, ReadersFollow, FormsHide, FormsSettle and FormsKeep, for *)
(* every set of forms and whole configs that may be posted, every list of  *)
(* words, addresses and proxy names, and every deployment. What every save *)
(* keeps (ConfigRead) is that each section is one the sanitizer reads of   *)
(* some section with lists where lists belong: a form is merged with what  *)
(* is stored before it is read again, so the forms have to keep lists      *)
(* lists. What the readers of a row rely on follows from that alone: names *)
(* of proxies are set apart, assignments name one of them, and every       *)
(* instance that was kept has its address where each reader looks for it.  *)
(* That an answer hides every secret follows from what each section can    *)
(* hold at each depth: the secrets the redaction of that section names,    *)
(* and no other. That a row settles follows from ConfigRead, from the row  *)
(* holding no empty section (ConfigSettled), and, field by field, from     *)
(* every reading being one of what it reads itself. That a form that is    *)
(* let pass loses no card follows from what each section's checks refuse:  *)
(* no repeated name, no row without a name or without what the sanitizer   *)
(* asks of a row it keeps.                                                 *)
(***************************************************************************)
EXTENDS SettingsShapes, FiniteSetTheorems, FunctionTheorems, SequenceTheorems, WellFoundedInduction,
        TLAPS

-----------------------------------------------------------------------------
(* Lists: what is picked from one, in its order, and the first of them.    *)

\* The smallest of a set of places is one of them, and below the others.
LEMMA SmallestIsIn ==
    ASSUME NEW S \in SUBSET Nat, S # {}
    PROVE  Smallest(S) \in S /\ \A y \in S : Smallest(S) <= y
<1>1. PICK x \in S : \A y \in S : ~(<<y, x>> \in OpToRel(<, Nat))
    BY WFMin, NatLessThanWellFounded
<1>2. ASSUME NEW y \in S PROVE x <= y
    <2>1. ~(y < x) BY <1>1 DEF OpToRel
    <2> QED BY <2>1
<1> QED BY <1>2 DEF Smallest

\* Every row that is picked has its place among the picked, in the order of the list.
LEMMA PlacesFill ==
    ASSUME NEW is \in SUBSET Nat, IsFiniteSet(is)
    PROVE  /\ Cardinality(is) \in Nat
           /\ \A n \in 1..Cardinality(is) :
                 Place(is, n) \in is /\ Cardinality({j \in is : j <= Place(is, n)}) = n
           /\ \A i \in is : \E n \in 1..Cardinality(is) : Place(is, n) = i
           /\ \A m, n \in 1..Cardinality(is) : m < n => Place(is, m) < Place(is, n)
<1> DEFINE upto(i) == {j \in is : j <= i}
           rank    == [i \in is |-> Cardinality(upto(i))]
           k       == Cardinality(is)
<1>1. k \in Nat BY FS_CardinalityType
<1>2. ASSUME NEW i \in is PROVE IsFiniteSet(upto(i)) /\ rank[i] \in 1..k
    <2>1. upto(i) \in SUBSET is /\ i \in upto(i)
        OBVIOUS
    <2>2. IsFiniteSet(upto(i)) /\ Cardinality(upto(i)) <= k BY <2>1, FS_Subset
    <2>3. Cardinality(upto(i)) \in Nat /\ Cardinality(upto(i)) # 0
        BY <2>1, <2>2, FS_CardinalityType, FS_EmptySet
    <2> HIDE DEF upto
    <2> QED BY <2>2, <2>3, <1>1
<1>3. ASSUME NEW i \in is, NEW j \in is, i < j PROVE rank[i] < rank[j]
    <2>1. i \in Nat /\ j \in Nat /\ is \subseteq Nat
        OBVIOUS
    <2>2. upto(i) \subseteq upto(j) /\ j \in upto(j) /\ j \notin upto(i)
        <3>1. ASSUME NEW h \in is, h <= i PROVE h <= j
            <4>1. h \in Nat BY <2>1
            <4> QED BY <4>1, <2>1, <3>1, <1>3
        <3>2. upto(i) \subseteq upto(j) BY <3>1
        <3>3. j <= j /\ ~(j <= i) BY <2>1, <1>3
        <3> QED BY <3>2, <3>3
    <2>3. Cardinality(upto(i)) <= Cardinality(upto(j)) /\ Cardinality(upto(i)) # Cardinality(upto(j))
        BY <2>2, <1>2, FS_Subset
    <2>4. rank[i] \in 1..k /\ rank[j] \in 1..k BY <1>2
    <2>5. rank[i] = Cardinality(upto(i)) /\ rank[j] = Cardinality(upto(j))
        OBVIOUS
    <2> HIDE DEF upto, rank
    <2> QED BY <1>1, <2>3, <2>4, <2>5
<1>4. rank \in Injection(is, 1..k)
    <2>1. rank \in [is -> 1..k] BY <1>2
    <2>2. ASSUME NEW i \in is, NEW j \in is, i # j PROVE rank[i] # rank[j]
        <3>1. i < j \/ j < i BY <2>2
        <3>2. rank[i] \in Nat /\ rank[j] \in Nat BY <1>2
        <3> HIDE DEF rank
        <3> QED BY <3>1, <3>2, <1>3
    <2> HIDE DEF rank
    <2> QED BY <2>1, <2>2, Zenon DEF Injection, IsInjective
<1>5. rank \in Surjection(is, 1..k)
    <2>1. IsFiniteSet(1..k) /\ Cardinality(1..k) = k BY <1>1, FS_Interval
    <2> QED BY <1>4, <2>1, FS_Injection
<1>6. ASSUME NEW n \in 1..k PROVE Place(is, n) \in is /\ rank[Place(is, n)] = n
    <2>1. \E i \in is : rank[i] = n BY <1>5 DEF Surjection
    <2>2. \E i \in is : Cardinality({j \in is : j <= i}) = n BY <2>1
    <2>3. Place(is, n) \in is /\ Cardinality({j \in is : j <= Place(is, n)}) = n
        BY <2>2 DEF Place
    <2> QED BY <2>3
<1>7. ASSUME NEW i \in is PROVE Place(is, rank[i]) = i /\ rank[i] \in 1..k
    <2>1. rank[i] \in 1..k BY <1>2
    <2>2. Place(is, rank[i]) \in is /\ rank[Place(is, rank[i])] = rank[i]
        BY <2>1, <1>6
    <2> HIDE DEF rank
    <2> QED BY <2>1, <2>2, <1>4, Zenon DEF Injection, IsInjective
<1>8. ASSUME NEW m \in 1..k, NEW n \in 1..k, m < n PROVE Place(is, m) < Place(is, n)
    <2>1. PICK p \in is : p = Place(is, m) /\ rank[p] = m BY <1>6
    <2>2. PICK q \in is : q = Place(is, n) /\ rank[q] = n BY <1>6
    <2>3. p \in Nat /\ q \in Nat /\ m \in Nat /\ n \in Nat BY <1>1
    <2> HIDE DEF rank
    <2>4. p # q BY <2>1, <2>2, <2>3, <1>8
    <2>5. ~(q < p)
        <3>1. q < p => rank[q] < rank[p] BY <1>3
        <3> QED BY <3>1, <2>1, <2>2, <2>3, <1>8
    <2> QED BY <2>1, <2>2, <2>3, <2>4, <2>5
<1> QED BY <1>1, <1>6, <1>7, <1>8

\* Places of a list are whole numbers, finitely many.
LEMMA ListPlaces ==
    ASSUME NEW rows, IsList(rows), NEW is \in SUBSET DOMAIN rows
    PROVE  /\ is \in SUBSET Nat /\ IsFiniteSet(is) /\ Cardinality(is) \in Nat
           /\ DOMAIN rows \in SUBSET Nat /\ Cardinality(DOMAIN rows) \in Nat
<1>1. IsFiniteSet(DOMAIN rows) /\ DOMAIN rows = 1..Cardinality(DOMAIN rows)
    BY DEF IsList
<1>2. Cardinality(DOMAIN rows) \in Nat BY <1>1, FS_CardinalityType
<1>3. DOMAIN rows \in SUBSET Nat BY <1>1, <1>2
<1>4. IsFiniteSet(is) /\ Cardinality(is) \in Nat
    BY <1>1, FS_Subset, FS_CardinalityType
<1> QED BY <1>2, <1>3, <1>4

\* What is picked from a list is a list of rows of it, each that is to be there, in their
\* order.
LEMMA AtIsList ==
    ASSUME NEW rows, IsList(rows), NEW is \in SUBSET DOMAIN rows
    PROVE  /\ IsList(At(rows, is))
           /\ Empty(At(rows, is)) <=> is = {}
           /\ \A n \in DOMAIN At(rows, is) : Place(is, n) \in is /\ At(rows, is)[n] = rows[Place(is, n)]
           /\ \A i \in is : \E n \in DOMAIN At(rows, is) : Place(is, n) = i /\ At(rows, is)[n] = rows[i]
           /\ \A m, n \in DOMAIN At(rows, is) : m < n => Place(is, m) < Place(is, n)
<1> DEFINE k == Cardinality(is)
<1>1. is \in SUBSET Nat /\ IsFiniteSet(is) /\ k \in Nat BY ListPlaces
<1>2. DOMAIN At(rows, is) = 1..k /\ \A n \in 1..k : At(rows, is)[n] = rows[Place(is, n)]
    BY DEF At
<1>3. IsFiniteSet(1..k) /\ Cardinality(1..k) = k BY <1>1, FS_Interval
<1>4. IsList(At(rows, is)) BY <1>2, <1>3 DEF IsList
<1>5. /\ \A n \in 1..k : Place(is, n) \in is
      /\ \A i \in is : \E n \in 1..k : Place(is, n) = i
      /\ \A m, n \in 1..k : m < n => Place(is, m) < Place(is, n)
    BY <1>1, PlacesFill
<1>6. Empty(At(rows, is)) <=> is = {}
    <2>1. Empty(At(rows, is)) <=> 1..k = {} BY <1>2 DEF Empty
    <2> QED BY <2>1, <1>5
<1> HIDE DEF k
<1> QED BY <1>2, <1>4, <1>5, <1>6

\* Picking every row gives the list.
LEMMA AtAll ==
    ASSUME NEW rows, IsList(rows), IsFcn(rows)
    PROVE  At(rows, DOMAIN rows) = rows
<1> DEFINE is == DOMAIN rows
           k  == Cardinality(is)
<1>1. is \in SUBSET Nat /\ IsFiniteSet(is) /\ k \in Nat /\ is = 1..k
    BY ListPlaces DEF IsList
<1>2. ASSUME NEW n \in is PROVE Place(is, n) = n
    <2>1. \A p \in is : {j \in is : j <= p} = 1..p BY <1>1
    <2>2. \A p \in is : Cardinality({j \in is : j <= p}) = p
        <3> TAKE p \in is
        <3>1. p \in Nat /\ 1 <= p BY <1>1
        <3>2. Cardinality(1..p) = p BY <3>1, FS_Interval
        <3> QED BY <2>1, <3>2
    <2>3. Place(is, n) \in is /\ Cardinality({j \in is : j <= Place(is, n)}) = n
        BY <1>1, PlacesFill
    <2> QED BY <2>2, <2>3
<1>3. At(rows, is) = [n \in 1..k |-> rows[Place(is, n)]] BY DEF At
<1>4. [n \in 1..k |-> rows[Place(is, n)]] = [n \in is |-> rows[n]] BY <1>1, <1>2
<1> QED BY <1>3, <1>4 DEF IsFcn

\* Rows that are turned one by one are a list.
LEMMA MapIsList ==
    ASSUME NEW rows, IsList(rows), NEW mapped, DOMAIN mapped = DOMAIN rows
    PROVE  IsList(mapped)
BY DEF IsList

\* One row is a list.
LEMMA SingleIsList == ASSUME NEW r PROVE IsList(<<r>>) /\ DOMAIN <<r>> = {1} /\ <<r>>[1] = r
<1>1. DOMAIN <<r>> = 1..1
    OBVIOUS
<1>2. 1..1 = {1}
    OBVIOUS
<1> QED BY <1>1, <1>2, FS_Singleton, ZenonT(40) DEF IsList

\* No row is a list, and neither is a section without one anything else.
LEMMA EmptyIsList == IsList(<<>>) /\ DOMAIN <<>> = {} /\ IsList(Nothing)
<1>1. DOMAIN <<>> = {} /\ DOMAIN Nothing = {} BY DEF Nothing
<1>2. 1..0 = {}
    OBVIOUS
<1> QED BY <1>1, <1>2, FS_EmptySet DEF IsList

\* The row looked for, else what stands for it.
LEMMA FirstFound ==
    ASSUME NEW rows, IsList(rows), NEW is \in SUBSET DOMAIN rows, NEW other
    PROVE  /\ is = {} => FirstOf(rows, is, other) = other
           /\ is # {} => /\ Smallest(is) \in is /\ \A i \in is : Smallest(is) <= i
                         /\ FirstOf(rows, is, other) = rows[Smallest(is)]
<1>1. is \in SUBSET Nat BY ListPlaces
<1> QED BY <1>1, SmallestIsIn DEF FirstOf

-----------------------------------------------------------------------------
(* Proxies: a plan in order leads every connection where the Proxy         *)
(* connector says.                                                         *)

\* The words of the program have no capitals.
LEMMA PlainWords == \A w \in Plain : Lower(w) = w
BY WordsAssumption DEF Lower

\* An entry is found by its name exactly when the plan has that name.
LEMMA EntryNamed ==
    ASSUME NEW plan, IsList(plan.entries), NEW name,
           \A i \in DOMAIN plan.entries : "name" \in DOMAIN plan.entries[i]
    PROVE  /\ name \in NamesOf(plan.entries) => /\ \E i \in DOMAIN plan.entries : Entry(plan, name) = plan.entries[i]
                                                /\ "name" \in DOMAIN Entry(plan, name)
                                                /\ Entry(plan, name).name = name
                                                /\ Entry(plan, name) # Nothing
           /\ name \notin NamesOf(plan.entries) => Entry(plan, name) = Nothing
<1> DEFINE rows == plan.entries
           is   == {i \in DOMAIN rows : rows[i].name = name}
<1>1. Entry(plan, name) = FirstOf(rows, is, Nothing) BY DEF Entry, FirstWith, Where
<1>2. is # {} <=> name \in NamesOf(rows) BY DEF NamesOf, Text, Has
<1>3. is = {} => FirstOf(rows, is, Nothing) = Nothing BY FirstFound
<1>4. is # {} => Smallest(is) \in is /\ FirstOf(rows, is, Nothing) = rows[Smallest(is)]
    BY FirstFound
<1>5. \A e : "name" \in DOMAIN e => e # Nothing BY DEF Nothing
<1> QED BY <1>1, <1>2, <1>3, <1>4, <1>5

\* Every plan of that shape sends a connection where the Proxy connector says
\* (proxy_plan.py's choose and the client that resolves its choice).
LEMMA PlannedFollows ==
    ASSUME NEW plan, Planned(plan)
    PROVE  PlanFollows(plan)
<1> SUFFICES ASSUME NEW c \in Reached, NEW host \in DOMAIN Labels
             PROVE  LET e        == Egress(plan, c, host, "")
                        assigned == Text(plan.assignments, c)
                    IN  /\ e.kind = "proxy" => plan.enabled /\ ~EntryExempts(e.entry, host)
                        /\ assigned = "none" => e = Direct
                        /\ plan.enabled /\ Lower(assigned) \notin EnvironmentWords \cup DirectWords =>
                             e = IF EntryExempts(Entry(plan, assigned), host) THEN Direct
                                 ELSE Through(Entry(plan, assigned))
    BY DEF PlanFollows
<1> DEFINE assigned == Text(plan.assignments, c)
           e        == Egress(plan, c, host, "")
           entry    == Entry(plan, assigned)
           choice   == Choice(plan, c, host, "")
<1>1. \A i \in DOMAIN plan.entries : "name" \in DOMAIN plan.entries[i] /\ plan.entries[i].name # ""
    BY DEF Planned
<1>2. IsList(plan.entries) BY DEF Planned
<1>3. Entry(plan, "") = Nothing
    <2>1. "" \notin NamesOf(plan.entries) BY <1>1 DEF NamesOf, Text, Has
    <2> QED BY <1>1, <1>2, <2>1, EntryNamed
<1>4. ~OwnApplies(plan, "")
    BY <1>3, PlainWords, WordsAssumption DEF OwnApplies, DirectWords, Plain
<1>5. choice = IF ~plan.enabled \/ Lower(assigned) \in EnvironmentWords THEN Environment
               ELSE IF Lower(assigned) \in DirectWords THEN Direct
               ELSE IF entry = Nothing THEN Environment
               ELSE IF EntryExempts(entry, host) THEN Direct
               ELSE IF entry.name = Text(plan.default, "name") THEN Environment
               ELSE Through(entry)
    BY <1>4 DEF Choice
<1>6. e = IF choice.kind # "environment" THEN choice
          ELSE IF ~Configured(plan) \/ EntryExempts(plan.default, host) THEN Direct
          ELSE Through(plan.default)
    BY DEF Egress
<1>7. /\ Environment.kind = "environment" /\ Direct.kind = "none"
      /\ \A x : Through(x).kind = "proxy" /\ Through(x).entry = x
    BY DEF Environment, Direct, Through
<1> HIDE DEF choice, e, entry
<1>8. e.kind = "proxy" => plan.enabled /\ ~EntryExempts(e.entry, host)
    BY <1>5, <1>6, <1>7 DEF Configured
<1>9. assigned = "none" => e = Direct
    <2>1. assigned = "none" => Lower(assigned) = "none" BY PlainWords DEF Plain
    <2>2. assigned = "none" => choice = IF ~plan.enabled THEN Environment ELSE Direct
        BY <2>1, <1>5 DEF EnvironmentWords, DirectWords
    <2> QED BY <2>2, <1>6, <1>7 DEF Configured
<1>10. ASSUME plan.enabled, Lower(assigned) \notin EnvironmentWords \cup DirectWords
       PROVE  e = IF EntryExempts(entry, host) THEN Direct ELSE Through(entry)
    <2>1. assigned \in NamesOf(plan.entries)
        BY <1>10, PlainWords DEF Planned, EnvironmentWords, DirectWords, Plain
    <2>2. "name" \in DOMAIN entry /\ entry.name = assigned /\ entry # Nothing
        BY <2>1, <1>1, <1>2, EntryNamed DEF entry
    <2>3. ~Empty(plan.entries) BY <2>1 DEF Empty, NamesOf
    <2>4. "name" \in DOMAIN plan.default /\ plan.default = Entry(plan, plan.default.name)
        BY <2>3 DEF Planned
    <2>5. CASE entry.name = Text(plan.default, "name")
        <3>1. plan.default = entry BY <2>2, <2>4, <2>5 DEF Text, Has, entry
        <3> QED BY <3>1, <2>2, <2>5, <1>10, <1>5, <1>6, <1>7 DEF Configured
    <2>6. CASE entry.name # Text(plan.default, "name")
        BY <2>2, <2>6, <1>10, <1>5, <1>6, <1>7
    <2> QED BY <2>5, <2>6
<1> QED BY <1>8, <1>9, <1>10 DEF e, entry

-----------------------------------------------------------------------------
(* What the sanitizer makes of a section of proxies, and what an image     *)
(* from before named proxies reads of it.                                  *)

\* A field that is kept unless it is blank.
LEMMA KeptField ==
    ASSUME NEW k, NEW w
    PROVE  /\ DOMAIN Kept(k, w) = IF w = "" THEN {} ELSE {k}
           /\ w # "" => Kept(k, w)[k] = w
           /\ IsFcn(Kept(k, w))
BY DEF Kept, Nothing, :>, IsFcn

\* A map that is kept unless it is empty.
LEMMA KeptMapField ==
    ASSUME NEW k, NEW m
    PROVE  /\ DOMAIN KeptMap(k, m) = IF DOMAIN m = {} THEN {} ELSE {k}
           /\ DOMAIN m # {} => KeptMap(k, m)[k] = m
BY DEF KeptMap, Nothing, :>

\* What a proxy cut from a row holds.
LEMMA EntryShape ==
    ASSUME NEW m, NEW name
    PROVE  LET e == ProxyEntry(m, name)
           IN  /\ DOMAIN e = EntryFields(m)
               /\ {"name", "url"} \subseteq DOMAIN e
               /\ e.name = name /\ e.url = ProxyUrl(Text(m, "url"))
               /\ Carries(e, m)
               /\ NoProxyText(m) # "" => e.no_proxy = NoProxyText(m)
               /\ IsFcn(e)
<1> DEFINE a == [name |-> name, url |-> ProxyUrl(Text(m, "url"))]
           b == Texts(m, {"username", "password"})
           c == NoProxyOf(m)
           e == ProxyEntry(m, name)
<1>1. DOMAIN a = {"name", "url"} /\ a["name"] = name /\ a["url"] = ProxyUrl(Text(m, "url"))
    OBVIOUS
<1>2. DOMAIN b = {k \in DOMAIN m \cap {"username", "password"} : m[k] # ""} /\ \A k \in DOMAIN b : b[k] = m[k]
    BY DEF Texts
<1>3. DOMAIN c = (IF NoProxyText(m) = "" THEN {} ELSE {"no_proxy"}) /\ (NoProxyText(m) # "" => c["no_proxy"] = NoProxyText(m))
    BY KeptField DEF NoProxyOf, NoProxyText
<1>4. e = (a @@ b) @@ c BY DEF ProxyEntry
<1> HIDE DEF a, b, c, e
<1>5. DOMAIN e = DOMAIN a \cup DOMAIN b \cup DOMAIN c BY <1>4 DEF @@
<1>6. \A k \in DOMAIN e : e[k] = IF k \in DOMAIN a THEN a[k] ELSE IF k \in DOMAIN b THEN b[k] ELSE c[k]
    BY <1>4, <1>5 DEF @@
<1>7. IsFcn(e) BY <1>4 DEF IsFcn, @@
<1>8. e["name"] = name /\ e["url"] = ProxyUrl(Text(m, "url")) BY <1>5, <1>6, <1>1
<1>9. \A k \in DOMAIN m \cap {"username", "password"} : m[k] # "" => e[k] = m[k]
    BY <1>5, <1>6, <1>1, <1>2
<1>10. NoProxyText(m) # "" => e["no_proxy"] = NoProxyText(m)
    BY <1>5, <1>6, <1>1, <1>2, <1>3
<1>11. {"name", "url"} \subseteq DOMAIN e BY <1>1, <1>5
<1>13. Carries(e, m) BY <1>9 DEF Carries
<1>12. DOMAIN e = EntryFields(m) BY <1>1, <1>2, <1>3, <1>5 DEF EntryFields
<1> QED BY <1>12, <1>11, <1>7, <1>8, <1>13, <1>10 DEF e

\* Of the rows with one key the first is picked.
LEMMA FirstOnes ==
    ASSUME NEW rows, IsList(rows), NEW key, NEW is,
           is = {i \in DOMAIN rows : \A j \in DOMAIN rows : j < i => key[j] # key[i]}
    PROVE  /\ \A m, n \in DOMAIN At(rows, is) : m # n => key[Place(is, m)] # key[Place(is, n)]
           /\ \A j \in DOMAIN rows : \E i \in is : key[i] = key[j]
<1>1. is \in SUBSET DOMAIN rows /\ DOMAIN rows \in SUBSET Nat /\ DOMAIN At(rows, is) = 1..Cardinality(is) /\ Cardinality(is) \in Nat
    BY ListPlaces DEF At
<1>2. ASSUME NEW m \in DOMAIN At(rows, is), NEW n \in DOMAIN At(rows, is), m < n
      PROVE  key[Place(is, m)] # key[Place(is, n)]
    BY <1>1, <1>2, AtIsList
<1>3. ASSUME NEW m \in DOMAIN At(rows, is), NEW n \in DOMAIN At(rows, is), m # n
      PROVE  key[Place(is, m)] # key[Place(is, n)]
    <2>1. m < n \/ n < m BY <1>1, <1>3
    <2> QED BY <2>1, <1>2
<1>4. ASSUME NEW j \in DOMAIN rows PROVE \E i \in is : key[i] = key[j]
    <2> DEFINE same == {i \in DOMAIN rows : key[i] = key[j]}
    <2>1. same \in SUBSET Nat /\ same # {} BY <1>1
    <2>2. Smallest(same) \in same /\ \A y \in same : Smallest(same) <= y
        BY <2>1, SmallestIsIn
    <2>3. PICK i \in same : \A y \in same : i <= y BY <2>2
    <2>4. \A h \in DOMAIN rows : h < i => key[h] # key[i] BY <2>1, <2>3, <1>1
    <2> QED BY <2>3, <2>4
<1> QED BY <1>3, <1>4

\* The rows that are usable proxies, each under a name of its own.
LEMMA UsableAreEntries ==
    ASSUME NEW rows, IsList(rows)
    PROVE  LET U == UsableEntries(rows)
           IN  /\ IsList(U) /\ IsFcn(U)
               /\ \A n \in DOMAIN U : \E i \in DOMAIN rows : EntryOf(U[n], rows[i])
               /\ \A m, n \in DOMAIN U : m # n => U[m].name # U[n].name
<1> DEFINE us     == Where(rows, LAMBDA r : Text(r, "name") \in ProxyNames /\ ProxyUrl(Text(r, "url")) # "")
           kept   == At(rows, us)
           mapped == [i \in DOMAIN kept |-> ProxyEntry(kept[i], kept[i].name)]
           key    == [i \in DOMAIN mapped |-> mapped[i].name]
           is     == {i \in DOMAIN mapped : \A j \in DOMAIN mapped : j < i => key[j] # key[i]}
           U      == UsableEntries(rows)
<1>1. us \in SUBSET DOMAIN rows
      /\ \A i \in us : Text(rows[i], "name") \in ProxyNames /\ ProxyUrl(Text(rows[i], "url")) # ""
    BY DEF Where
<1>2. U = At(mapped, {i \in DOMAIN mapped : \A j \in DOMAIN mapped : j < i => mapped[j].name # mapped[i].name})
    BY DEF UsableEntries, FirstPerKey, Map, Filtered
<1>3. is = {i \in DOMAIN mapped : \A j \in DOMAIN mapped : j < i => mapped[j].name # mapped[i].name}
    OBVIOUS
<1>4. U = At(mapped, is) BY <1>2, <1>3
<1> HIDE DEF us, U
<1>5. IsList(kept) /\ \A n \in DOMAIN kept : Place(us, n) \in us /\ kept[n] = rows[Place(us, n)]
    BY <1>1, AtIsList
<1>6. \A i \in us : rows[i].name = Text(rows[i], "name")
    BY <1>1, WordsAssumption DEF Text, Has
<1> HIDE DEF kept
<1>7. \A n \in DOMAIN mapped : \E i \in DOMAIN rows : EntryOf(mapped[n], rows[i])
    <2> TAKE n \in DOMAIN mapped
    <2>1. Place(us, n) \in us /\ mapped[n] = ProxyEntry(rows[Place(us, n)], rows[Place(us, n)].name)
        BY <1>5
    <2> QED BY <2>1, <1>1, <1>6 DEF EntryOf
<1>8. IsList(mapped) /\ is \in SUBSET DOMAIN mapped BY <1>5, MapIsList
<1>12. is = {i \in DOMAIN mapped : \A j \in DOMAIN mapped : j < i => key[j] # key[i]}
    OBVIOUS
<1>13. \A i \in DOMAIN mapped : key[i] = mapped[i].name
    OBVIOUS
<1> HIDE DEF mapped, is, key
<1>14. IsFcn(U) BY <1>4 DEF At, IsFcn
<1>9. /\ IsList(U) /\ IsFcn(U)
      /\ \A n \in DOMAIN U : Place(is, n) \in is /\ U[n] = mapped[Place(is, n)]
    BY <1>4, <1>8, <1>14, AtIsList
<1>10. \A m, n \in DOMAIN U : m # n => key[Place(is, m)] # key[Place(is, n)]
    BY <1>4, <1>8, <1>12, FirstOnes
<1>11. \A m, n \in DOMAIN U : m # n => U[m].name # U[n].name
    BY <1>9, <1>10, <1>8, <1>13
<1> QED BY <1>7, <1>8, <1>9, <1>11 DEF U

\* What the sanitizer reads of a section's proxies, listed or single.
LEMMA EntriesOfProxy ==
    ASSUME NEW m, IsList(Rows(m, "proxies"))
    PROVE  AreEntries(ProxyEntries(m))
<1> DEFINE U == UsableEntries(Rows(m, "proxies"))
           E == ProxyEntries(m)
<1>1. \A r, name : ProxyEntry(r, name).name = name BY EntryShape
<1>2. CASE Empty(U) /\ ProxyUrl(Text(m, "url")) # ""
    <2>1. E = <<ProxyEntry(m, "default")>> BY <1>2 DEF ProxyEntries
    <2>2. IsList(E) /\ DOMAIN E = {1} /\ E[1] = ProxyEntry(m, "default")
        BY <2>1, SingleIsList
    <2>3. IsFcn(E) BY <2>1 DEF IsFcn
    <2>4. E[1].name = "default" /\ "default" \in ProxyName
        BY <2>2, <1>1 DEF ProxyName
    <2> HIDE DEF E
    <2>5. \A n \in DOMAIN E : E[n] = ProxyEntry(m, E[n].name) /\ E[n].name \in ProxyName
        BY <2>2, <2>4
    <2>6. \A a, b \in DOMAIN E : a = b BY <2>2
    <2>7. AreEntries(E) BY <2>2, <2>3, <2>5, <2>6, <1>2 DEF AreEntries
    <2> QED BY <2>7 DEF E
<1>3. CASE ~(Empty(U) /\ ProxyUrl(Text(m, "url")) # "")
    <2>1. E = U BY <1>3 DEF ProxyEntries
    <2>2. \A n \in DOMAIN U : \E r : EntryOf(U[n], r) BY UsableAreEntries
    <2>3. IsList(U) /\ IsFcn(U) /\ \A a, b \in DOMAIN U : a # b => U[a].name # U[b].name
        BY UsableAreEntries
    <2> HIDE DEF U, E
    <2>4. \A n \in DOMAIN U : \E r : /\ U[n] = ProxyEntry(r, U[n].name) /\ ProxyUrl(Text(r, "url")) # ""
                                     /\ U[n].name \in ProxyName
        <3> TAKE n \in DOMAIN U
        <3>1. PICK r : EntryOf(U[n], r) BY <2>2
        <3>2. U[n] = ProxyEntry(r, Text(r, "name")) /\ U[n].name = Text(r, "name")
            BY <3>1, <1>1 DEF EntryOf
        <3>3. U[n] = ProxyEntry(r, U[n].name) BY <3>2
        <3> QED BY <3>1, <3>2, <3>3 DEF EntryOf, ProxyName
    <2>5. AreEntries(U) BY <2>3, <2>4 DEF AreEntries
    <2> QED BY <2>1, <2>5 DEF E
<1> QED BY <1>2, <1>3

\* A section may have no proxy.
LEMMA NoEntries == AreEntries(<<>>)
BY EmptyIsList DEF AreEntries, IsFcn

\* Every proxy has a name, and every name a proxy.
LEMMA NamesOfEntries ==
    ASSUME NEW rows, AreEntries(rows)
    PROVE  /\ \A i \in DOMAIN rows : rows[i].name \in NamesOf(rows)
           /\ \A n \in NamesOf(rows) : \E i \in DOMAIN rows : rows[i].name = n
           /\ \A i \in DOMAIN rows : "name" \in DOMAIN rows[i] /\ rows[i].name # ""
           /\ ~Empty(rows) => 1 \in DOMAIN rows
<1>1. ASSUME NEW r, NEW name PROVE "name" \in DOMAIN ProxyEntry(r, name)
    BY EntryShape
<1>2. \A i \in DOMAIN rows : "name" \in DOMAIN rows[i] /\ rows[i].name \in ProxyName
    BY <1>1 DEF AreEntries
<1>3. "" \notin ProxyName BY WordsAssumption DEF ProxyName
<1>4. ~Empty(rows) => 1 \in DOMAIN rows
    <2>1. DOMAIN rows = 1..Cardinality(DOMAIN rows) /\ Cardinality(DOMAIN rows) \in Nat
        BY ListPlaces DEF AreEntries, IsList
    <2> QED BY <2>1 DEF Empty
<1> QED BY <1>2, <1>3, <1>4 DEF NamesOf, Text, Has

\* A flag is one of two words.
LEMMA TruthIsFlag == \A w : Truth(w) \in {"true", "false"}
BY DEF Truth

\* An assignment is of a connector that can have one, and names a proxy or none.
LEMMA AssignedIsName ==
    ASSUME NEW chosen, NEW names
    PROVE  LET a == Assignments(chosen, names)
           IN  \A c \in DOMAIN a : c \in Assignable /\ a[c] \in (names \ {""}) \cup {"none"}
BY DEF Assignments, Texts, Assigned

\* Whatever a section of proxies held, the sanitizer makes one of it
\* (runtime_profile.py's _sanitize_proxy).
LEMMA ProxyIsSection ==
    ASSUME NEW m, IsList(Rows(m, "proxies"))
    PROVE  ProxySection(Proxy(m))
<1> DEFINE E == ProxyEntries(m)
           a == Flags(m, {"enabled"})
           b == DefaultAmong(E, Text(m, "default"))
           d == Assignments(Sub(m, "assignments"), NamesOf(E))
           c == KeptMap("assignments", d)
           p == Proxy(m)
<1>1. AreEntries(E) BY EntriesOfProxy
<1>2. p = (a @@ b) @@ c BY DEF Proxy, ProxyOf
<1>3. DOMAIN a \subseteq {"enabled"} /\ \A k \in DOMAIN a : a[k] \in {"true", "false"}
    BY TruthIsFlag DEF Flags
<1>4. /\ Empty(E) => DOMAIN b = {}
      /\ ~Empty(E) => DOMAIN b = {"proxies", "default"} /\ b["proxies"] = E /\ b["default"] \in NamesOf(E)
    <2>1. ~Empty(E) => E[1].name \in NamesOf(E) BY <1>1, NamesOfEntries
    <2> HIDE DEF E
    <2> QED BY <2>1 DEF DefaultAmong, Nothing
<1>5. DOMAIN c = (IF DOMAIN d = {} THEN {} ELSE {"assignments"}) /\ (DOMAIN d # {} => c["assignments"] = d)
    BY KeptMapField
<1>6. \A k \in DOMAIN d : k \in Assignable /\ d[k] \in (NamesOf(E) \ {""}) \cup {"none"}
    BY AssignedIsName
<1> HIDE DEF a, b, c, d, E, p
<1>7. DOMAIN p = DOMAIN a \cup DOMAIN b \cup DOMAIN c BY <1>2 DEF @@
<1>8. \A k \in DOMAIN p : p[k] = IF k \in DOMAIN a THEN a[k] ELSE IF k \in DOMAIN b THEN b[k] ELSE c[k]
    BY <1>2, <1>7 DEF @@
<1>9. Has(p, "enabled") => p["enabled"] \in {"true", "false"}
    BY <1>3, <1>4, <1>5, <1>7, <1>8 DEF Has
<1>10. Has(p, "proxies") <=> ~Empty(E) BY <1>3, <1>4, <1>5, <1>7 DEF Has
<1>11. Has(p, "default") <=> ~Empty(E) BY <1>3, <1>4, <1>5, <1>7 DEF Has
<1>12. ~Empty(E) => p["proxies"] = E /\ p["default"] \in NamesOf(E)
    BY <1>3, <1>4, <1>7, <1>8
<1>13. Empty(E) => NamesOf(E) = {} BY DEF NamesOf, Empty
<1>14. Rows(p, "proxies") = IF Empty(E) THEN <<>> ELSE E BY <1>10, <1>12 DEF Rows
<1>15. AreEntries(Rows(p, "proxies")) BY <1>14, <1>1, NoEntries
<1>16. Sub(p, "assignments") = IF DOMAIN d = {} THEN Nothing ELSE d
    BY <1>3, <1>4, <1>5, <1>7, <1>8 DEF Sub, Has
<1>17. \A k \in DOMAIN Sub(p, "assignments") :
          k \in Assignable /\ p["assignments"][k] \in (NamesOf(Rows(p, "proxies")) \ {""}) \cup {"none"}
    <2>1. DOMAIN Nothing = {} BY DEF Nothing
    <2>2. NamesOf(Rows(p, "proxies")) = NamesOf(E) BY <1>13, <1>14 DEF NamesOf
    <2>3. DOMAIN d # {} => p["assignments"] = d BY <1>3, <1>4, <1>5, <1>7, <1>8
    <2> QED BY <1>6, <1>16, <2>1, <2>2, <2>3
<1>18. DOMAIN p \subseteq {"enabled", "proxies", "default", "assignments"}
    BY <1>3, <1>4, <1>5, <1>7
<1> QED BY <1>9, <1>10, <1>11, <1>12, <1>15, <1>17, <1>18 DEF ProxySection, p

\* A sanitized section is a plan in order.
LEMMA PlanIsPlanned ==
    ASSUME NEW p, ProxySection(p)
    PROVE  Planned(PlanOf(p))
<1> DEFINE rows  == Rows(p, "proxies")
           named == {i \in DOMAIN rows : rows[i].name = Text(p, "default")}
           plan  == PlanOf(p)
<1>1. AreEntries(rows) /\ IsList(rows) BY DEF ProxySection, AreEntries
<1>2. /\ plan.entries = rows /\ plan.assignments = Sub(p, "assignments")
      /\ plan.default = FirstOf(rows, IF named = {} THEN DOMAIN rows ELSE named, Nothing)
    BY DEF PlanOf, Where
<1>3. \A i \in DOMAIN rows : "name" \in DOMAIN rows[i] /\ rows[i].name # ""
    BY <1>1, NamesOfEntries
<1>6. \A c : Text(Sub(p, "assignments"), c) \in {"", "none"} \cup NamesOf(rows)
    <2>1. CASE Has(p, "assignments")
        <3>1. Sub(p, "assignments") = p["assignments"] BY <2>1 DEF Sub
        <3>2. \A c \in DOMAIN p["assignments"] : p["assignments"][c] \in (NamesOf(rows) \ {""}) \cup {"none"}
            BY <3>1 DEF ProxySection
        <3> QED BY <3>1, <3>2 DEF Text, Has
    <2>2. CASE ~Has(p, "assignments") BY <2>2 DEF Sub, Text, Has, Nothing
    <2> QED BY <2>1, <2>2
<1> HIDE DEF rows, plan
<1>4. CASE Empty(rows)
    <2>1. plan.default = Nothing BY <1>4, <1>1, <1>2, FirstFound DEF Empty
    <2>2. \A c : Text(plan.assignments, c) \in {"", "none"} \cup NamesOf(plan.entries)
        BY <1>2, <1>6
    <2> QED BY <2>1, <2>2, <1>1, <1>2, <1>3, <1>4 DEF Planned, plan
<1>5. CASE ~Empty(rows)
    <2>1. Has(p, "proxies") BY <1>5, EmptyIsList DEF Rows, Empty, rows
    <2>2. rows = p["proxies"] /\ p["default"] \in NamesOf(rows) /\ Text(p, "default") = p["default"]
        BY <2>1 DEF ProxySection, Rows, Text, rows
    <2>3. named # {}
        <3>1. PICK i \in DOMAIN rows : rows[i].name = p["default"]
            BY <2>2, <1>1, NamesOfEntries
        <3> QED BY <3>1, <2>2
    <2>4. plan.default = FirstOf(rows, named, Nothing) BY <2>3, <1>2
    <2>6. Entry(plan, p["default"]) = FirstOf(rows, named, Nothing)
        BY <2>2, <1>2 DEF Entry, FirstWith, Where
    <2>7. Smallest(named) \in named /\ FirstOf(rows, named, Nothing) = rows[Smallest(named)]
        BY <2>3, <1>1, FirstFound
    <2>8. "name" \in DOMAIN plan.default /\ plan.default.name = p["default"]
        BY <2>2, <2>4, <2>7, <1>3
    <2>9. plan.default = Entry(plan, plan.default.name) BY <2>4, <2>6, <2>8
    <2>5. \A c : Text(plan.assignments, c) \in {"", "none"} \cup NamesOf(plan.entries)
        BY <1>2, <1>6
    <2> QED BY <2>8, <2>9, <2>5, <1>1, <1>2, <1>3, <1>5 DEF Planned, plan
<1> QED BY <1>4, <1>5 DEF plan

\* A member's connections leave as the Proxy connector says, whatever the row held.
LEMMA EgressFollowsAny ==
    ASSUME NEW settings, IsList(Rows(Sub(settings, "proxy"), "proxies"))
    PROVE  EgressFollows(settings)
BY ProxyIsSection, PlanIsPlanned, PlannedFollows DEF EgressFollows, Plan

\* The first of two fields that is not blank.
LEMMA FirstOfTwo ==
    ASSUME NEW m, NEW a, NEW b
    PROVE  FirstText(m, <<a, b>>) = IF Text(m, a) # "" THEN Text(m, a) ELSE Text(m, b)
<1> DEFINE rows == [i \in DOMAIN <<a, b>> |-> Text(m, <<a, b>>[i])]
           is   == {i \in DOMAIN rows : rows[i] # ""}
<1>1. DOMAIN rows = {1, 2} /\ rows[1] = Text(m, a) /\ rows[2] = Text(m, b)
    OBVIOUS
<1>2. FirstText(m, <<a, b>>) = FirstOf(rows, is, "")
    BY DEF FirstText, FirstWith, Where, Map
<1> HIDE DEF rows
<1>3. is = {} => FirstOf(rows, is, "") = "" BY DEF FirstOf
<1>4. is # {} => /\ Smallest(is) \in is /\ \A i \in is : Smallest(is) <= i
                 /\ FirstOf(rows, is, "") = rows[Smallest(is)]
    <2>1. is \in SUBSET {1, 2} BY <1>1
    <2> HIDE DEF is
    <2>3. is \in SUBSET Nat BY <2>1
    <2> QED BY <2>3, <2>1, SmallestIsIn DEF FirstOf
<1>5. CASE Text(m, a) # ""
    <2>1. 1 \in is BY <1>1, <1>5
    <2>2. Smallest(is) = 1
        <3>1. Smallest(is) \in {1, 2} /\ Smallest(is) <= 1 BY <2>1, <1>1, <1>4
        <3> HIDE DEF is
        <3> QED BY <3>1
    <2> QED BY <2>1, <2>2, <1>1, <1>2, <1>4, <1>5
<1>6. CASE Text(m, a) = ""
    <2>1. 1 \notin is BY <1>1, <1>6
    <2>2. is \subseteq {2} BY <2>1, <1>1
    <2>3. CASE is = {} BY <2>3, <1>1, <1>2, <1>3, <1>6
    <2>4. CASE is # {} BY <2>4, <2>2, <1>1, <1>2, <1>4, <1>6
    <2> QED BY <2>3, <2>4
<1> QED BY <1>5, <1>6

\* A proxy's address keeps its host.
LEMMA AsProxyHost == ASSUME NEW p, "host" \in DOMAIN p PROVE AsProxy(p)["host"] = p["host"]
    BY DEF AsProxy

\* A word that is no address has no host.
LEMMA NoAddressHost ==
    ASSUME NEW w, w \notin DOMAIN Address
    PROVE  AsProxy(Parts(w))["host"] = ""
<1> DEFINE blank == [scheme |-> "", user |-> "", host |-> "", port |-> "", path |-> ""]
<1>1. Parts(w) = blank BY DEF Parts
<1>2. "host" \in DOMAIN blank /\ blank["host"] = ""
    OBVIOUS
<1> HIDE DEF blank
<1> QED BY <1>1, <1>2, AsProxyHost

\* What an address is written as reads as that address.
LEMMA WrittenReads ==
    ASSUME NEW a, \E v \in DOMAIN Address : Address[v] = a
    PROVE  Written(a) \in DOMAIN Address /\ Parts(Written(a)) = a /\ Written(a) # ""
<1>1. Written(a) \in DOMAIN Address /\ Address[Written(a)] = a BY DEF Written
<1> QED BY <1>1, WordsAssumption DEF Parts

\* An address that was cut to a proxy's stays.
LEMMA ProxyUrlSettles ==
    ASSUME NEW w, ProxyUrl(w) # ""
    PROVE  ProxyUrl(ProxyUrl(w)) = ProxyUrl(w)
<1> DEFINE a == AsProxy(Parts(w))
<1>1. ProxyUrl(w) = Written(a) /\ ProxyAddress(a) BY DEF ProxyUrl
<1>2. w \in DOMAIN Address
    <2>1. AsProxy(Parts(w))["host"] # "" BY <1>1 DEF ProxyAddress
    <2> QED BY <2>1, NoAddressHost
<1>3. Parts(w) = Address[w] /\ DOMAIN Parts(w) = {"scheme", "user", "host", "port", "path"}
    BY <1>2, AddressAssumption DEF Parts
<1>4. \E v \in DOMAIN Address : Address[v] = a BY <1>2, <1>3, AddressAssumption
<1>5. Parts(Written(a)) = a BY <1>4, WrittenReads
<1>6. AsProxy(a) = a
    <2>1. a.scheme \in {"http", "https"} BY <1>1 DEF ProxyAddress
    <2>2. a = [k \in DOMAIN Parts(w) |-> a[k]] /\ a.path = "" BY <1>3 DEF AsProxy
    <2> HIDE DEF a
    <2> QED BY <2>1, <2>2 DEF AsProxy
<1> HIDE DEF a
<1>7. ProxyUrl(Written(a)) = Written(a) BY <1>1, <1>5, <1>6 DEF ProxyUrl
<1> QED BY <1>1, <1>7

\* With nothing assigned a connection leaves as the default proxy says.
LEMMA UnassignedWay ==
    ASSUME NEW plan, Planned(plan), Text(plan.assignments, "jira") = "", NEW host
    PROVE  Egress(plan, "jira", host, "") =
             IF ~Configured(plan) \/ EntryExempts(plan.default, host) THEN Direct ELSE Through(plan.default)
<1>1. /\ \A i \in DOMAIN plan.entries : "name" \in DOMAIN plan.entries[i] /\ plan.entries[i].name # ""
      /\ IsList(plan.entries)
    BY DEF Planned
<1>2. "" \notin NamesOf(plan.entries) BY <1>1 DEF NamesOf, Text, Has
<1>3. Entry(plan, "") = Nothing BY <1>1, <1>2, EntryNamed
<1>4. ~OwnApplies(plan, "")
    BY <1>3, PlainWords, WordsAssumption DEF OwnApplies, DirectWords, Plain
<1>5. Lower("") \in EnvironmentWords BY PlainWords DEF Plain, EnvironmentWords
<1>6. Choice(plan, "jira", host, "") = Environment BY <1>4, <1>5 DEF Choice
<1>7. Environment.kind = "environment" BY DEF Environment
<1> QED BY <1>6, <1>7 DEF Egress

\* What a plan does with its assignments dropped.
LEMMA UnassignedPlan ==
    ASSUME NEW m, ProxySection(m)
    PROVE  LET plan == [PlanOf(m) EXCEPT !.assignments = Nothing]
           IN  /\ Planned(plan) /\ plan.assignments = Nothing
               /\ plan.enabled = PlanOf(m).enabled /\ plan.default = PlanOf(m).default
<1> DEFINE p    == PlanOf(m)
           plan == [p EXCEPT !.assignments = Nothing]
<1>1. DOMAIN p = {"enabled", "entries", "default", "assignments"} BY DEF PlanOf
<1>2. Planned(p) BY PlanIsPlanned
<1> HIDE DEF p
<1>3. /\ plan["assignments"] = Nothing /\ plan["enabled"] = p["enabled"] /\ plan["default"] = p["default"]
      /\ plan["entries"] = p["entries"]
    BY <1>1
<1>4. \A name : Entry(plan, name) = Entry(p, name) BY <1>3 DEF Entry
<1>5. \A c : Text(Nothing, c) = "" BY DEF Text, Has, Nothing
<1> HIDE DEF plan
<1>6. Planned(plan) BY <1>2, <1>3, <1>4, <1>5 DEF Planned
<1> QED BY <1>3, <1>6 DEF p, plan

\* The default of a plan is one of its entries.
LEMMA DefaultIsEntry ==
    ASSUME NEW m, ProxySection(m), PlanOf(m).default # Nothing
    PROVE  \E r : /\ ProxyUrl(Text(r, "url")) # ""
                  /\ PlanOf(m).default = ProxyEntry(r, PlanOf(m).default.name)
<1> DEFINE rows  == Rows(m, "proxies")
           d     == PlanOf(m).default
<1>1. AreEntries(rows) BY DEF ProxySection
<1>2. Planned(PlanOf(m)) /\ PlanOf(m).entries = rows BY PlanIsPlanned DEF PlanOf
<1>3. ~Empty(rows) /\ "name" \in DOMAIN d /\ d = Entry(PlanOf(m), d.name)
    BY <1>2 DEF Planned
<1> HIDE DEF d, rows
<1>4. \A i \in DOMAIN rows : "name" \in DOMAIN rows[i] BY <1>1, NamesOfEntries
<1>5. d # Nothing BY DEF d
<1>6. \E i \in DOMAIN rows : d = rows[i]
    <2> DEFINE plan == PlanOf(m)
    <2>1. IsList(plan.entries) /\ plan.entries = rows /\ \A i \in DOMAIN plan.entries : "name" \in DOMAIN plan.entries[i]
        BY <1>2, <1>1, <1>4 DEF AreEntries
    <2>2. d = Entry(plan, d.name) BY <1>3
    <2> HIDE DEF plan
    <2>3. d.name \in NamesOf(plan.entries) => \E i \in DOMAIN plan.entries : Entry(plan, d.name) = plan.entries[i]
        BY <2>1, EntryNamed
    <2>4. d.name \notin NamesOf(plan.entries) => Entry(plan, d.name) = Nothing
        BY <2>1, EntryNamed
    <2> QED BY <2>1, <2>2, <2>3, <2>4, <1>5
<1>7. PICK i \in DOMAIN rows : d = rows[i] BY <1>6
<1>8. PICK r : rows[i] = ProxyEntry(r, rows[i].name) /\ ProxyUrl(Text(r, "url")) # ""
    BY <1>1, <1>7 DEF AreEntries
<1> QED BY <1>7, <1>8 DEF d

\* What an old image reads of a section: the switch, and the default entry's fields.
LEMMA OldShape ==
    ASSUME NEW m, ProxySection(m), NEW d
    PROVE  LET o == Without(FlatOf(m, d), OldKeys)
           IN  /\ DOMAIN o = OldFields(m, d)
               /\ "enabled" \in DOMAIN m => o["enabled"] = m["enabled"]
               /\ d # Nothing => \A k \in DOMAIN d \cap FlatFields : d[k] # "" => o[k] = d[k]
<1> DEFINE t == Texts(d, FlatFields)
           w == Without(m, FlatFields)
           f == FlatOf(m, d)
           o == Without(f, OldKeys)
<1>1. DOMAIN m \subseteq {"enabled", "proxies", "default", "assignments"}
    BY DEF ProxySection
<1>2. DOMAIN t = {k \in DOMAIN d \cap FlatFields : d[k] # ""} /\ \A k \in DOMAIN t : t[k] = d[k]
    BY DEF Texts
<1>3. DOMAIN w = DOMAIN m /\ \A k \in DOMAIN w : w[k] = m[k]
    BY <1>1 DEF Without, FlatFields
<1>4. DOMAIN o = DOMAIN f \ OldKeys /\ \A k \in DOMAIN o : o[k] = f[k]
    BY DEF Without
<1>5. CASE d = Nothing
    <2>1. f = m BY <1>5 DEF FlatOf
    <2> HIDE DEF f, o
    <2>2. DOMAIN o = DOMAIN m \cap {"enabled"} BY <2>1, <1>4, <1>1 DEF OldKeys
    <2> QED BY <2>1, <2>2, <1>4, <1>5 DEF o, f, OldFields
<1>6. CASE d # Nothing
    <2>1. f = t @@ w BY <1>6 DEF FlatOf
    <2> HIDE DEF f, o, t, w
    <2>2. DOMAIN f = DOMAIN t \cup DOMAIN w /\ \A k \in DOMAIN f : f[k] = IF k \in DOMAIN t THEN t[k] ELSE w[k]
        BY <2>1 DEF @@
    <2>3. DOMAIN o = (DOMAIN m \cap {"enabled"}) \cup {k \in DOMAIN d \cap FlatFields : d[k] # ""}
        BY <2>2, <1>1, <1>2, <1>3, <1>4, ZenonT(40) DEF OldKeys, FlatFields
    <2>4. "enabled" \in DOMAIN m => o["enabled"] = m["enabled"]
        BY <2>2, <2>3, <1>2, <1>3, <1>4 DEF FlatFields
    <2>5. \A k \in DOMAIN d \cap FlatFields : d[k] # "" => o[k] = d[k]
        BY <2>2, <2>3, <1>2, <1>4
    <2> QED BY <2>3, <2>4, <2>5, <1>6 DEF o, f, OldFields
<1> QED BY <1>5, <1>6

\* The switch of a section with no rows, and its one entry, if it has an address.
LEMMA FlatPlan ==
    ASSUME NEW o, ~Has(o, "proxies"), ~Has(o, "default"), ~Has(o, "assignments")
    PROVE  LET p == Proxy(o)
               e == ProxyEntry(o, "default")
           IN  /\ ProxySection(p)
               /\ Text(p, "enabled") = IF Has(o, "enabled") THEN Truth(o["enabled"]) ELSE ""
               /\ Sub(p, "assignments") = Nothing
               /\ PlanOf(p).default = IF ProxyUrl(Text(o, "url")) # "" THEN e ELSE Nothing
<1> DEFINE p == Proxy(o)
           e == ProxyEntry(o, "default")
           E == ProxyEntries(o)
           a == Flags(o, {"enabled"})
           b == DefaultAmong(E, Text(o, "default"))
           d == Assignments(Sub(o, "assignments"), NamesOf(E))
           c == KeptMap("assignments", d)
<1>1. Rows(o, "proxies") = <<>> /\ Text(o, "default") = "" /\ Sub(o, "assignments") = Nothing
    BY DEF Rows, Text, Sub
<1>2. ProxySection(p) BY <1>1, EmptyIsList, ProxyIsSection
<1>3. Empty(UsableEntries(<<>>))
    <2>1. \A n \in DOMAIN UsableEntries(<<>>) : \E i \in DOMAIN <<>> : EntryOf(UsableEntries(<<>>)[n], <<>>[i])
        BY EmptyIsList, UsableAreEntries
    <2> QED BY <2>1, EmptyIsList DEF Empty
<1>4. E = IF ProxyUrl(Text(o, "url")) # "" THEN <<e>> ELSE UsableEntries(<<>>)
    BY <1>1, <1>3 DEF ProxyEntries
<1>5. DOMAIN d = {} BY <1>1 DEF Assignments, Texts, Nothing
<1>6. DOMAIN c = {} /\ DOMAIN a = DOMAIN o \cap {"enabled"} /\ \A k \in DOMAIN a : a[k] = Truth(o[k])
    BY <1>5, KeptMapField DEF Flags
<1>7. p = (a @@ b) @@ c BY DEF Proxy, ProxyOf
<1>8. e.name = "default" /\ "name" \in DOMAIN e BY EntryShape
<1>9. CASE ProxyUrl(Text(o, "url")) # ""
    <2>1. E = <<e>> /\ DOMAIN E = {1} /\ E[1] = e BY <1>4, <1>9, SingleIsList
    <2>2. IsList(E) BY <2>1, SingleIsList
    <2> HIDE DEF e, E
    <2>3. DOMAIN b = {"proxies", "default"} /\ b["proxies"] = E /\ b["default"] = "default"
        <3>1. b = [proxies |-> E, default |-> IF "" \in NamesOf(E) THEN "" ELSE E[1].name]
            BY <2>1, <1>1 DEF DefaultAmong, Empty
        <3>2. "" \notin NamesOf(E) BY <2>1, <1>8 DEF NamesOf, Text, Has
        <3> HIDE DEF b
        <3>3. DOMAIN b = {"proxies", "default"} /\ b["proxies"] = E /\ b["default"] = E[1].name
            BY <3>1, <3>2
        <3> QED BY <3>3, <2>1, <1>8
    <2> HIDE DEF a, b, c, p, d
    <2>4. DOMAIN p = (DOMAIN o \cap {"enabled"}) \cup {"proxies", "default"}
        BY <1>6, <1>7, <2>3 DEF @@
    <2>5. \A k \in DOMAIN p : p[k] = IF k \in DOMAIN a THEN a[k] ELSE b[k]
        BY <1>6, <1>7, <2>3 DEF @@
    <2>6. p["proxies"] = E /\ p["default"] = "default" BY <2>3, <2>4, <2>5, <1>6
    <2>7. Text(p, "enabled") = IF Has(o, "enabled") THEN Truth(o["enabled"]) ELSE ""
        BY <2>4, <2>5, <1>6 DEF Text, Has
    <2>8. Sub(p, "assignments") = Nothing BY <2>4 DEF Sub, Has
    <2>9. Rows(p, "proxies") = E /\ Text(p, "default") = "default"
        BY <2>4, <2>6 DEF Rows, Text, Has
    <2>10. PlanOf(p).default = e
        <3> DEFINE named == {i \in DOMAIN E : E[i].name = "default"}
        <3>1. named = {1} BY <2>1, <1>8
        <3>2. PlanOf(p).default = FirstOf(E, named, Nothing)
            BY <2>9, <3>1 DEF PlanOf, Where
        <3> HIDE DEF named
        <3>3. Smallest(named) = 1 /\ FirstOf(E, named, Nothing) = E[Smallest(named)]
            BY <3>1, <2>1, <2>2, FirstFound
        <3> QED BY <3>2, <3>3, <2>1
    <2> QED BY <1>2, <1>9, <2>7, <2>8, <2>10 DEF p, e
<1>10. CASE ProxyUrl(Text(o, "url")) = ""
    <2>1. Empty(E) BY <1>3, <1>4, <1>10
    <2> HIDE DEF E
    <2>2. DOMAIN b = {} BY <2>1 DEF DefaultAmong, Nothing
    <2> HIDE DEF a, b, c, p, d
    <2>4. DOMAIN p = (DOMAIN o \cap {"enabled"}) /\ \A k \in DOMAIN p : p[k] = a[k]
        BY <1>6, <1>7, <2>2 DEF @@
    <2>7. Text(p, "enabled") = IF Has(o, "enabled") THEN Truth(o["enabled"]) ELSE ""
        BY <2>4, <1>6 DEF Text, Has
    <2>8. Sub(p, "assignments") = Nothing /\ Rows(p, "proxies") = <<>>
        BY <2>4 DEF Sub, Has, Rows
    <2>10. PlanOf(p).default = Nothing
        <3>1. DOMAIN <<>> = {} BY EmptyIsList
        <3> QED BY <2>8, <3>1, EmptyIsList DEF PlanOf, FirstOf, Where
    <2> QED BY <1>2, <1>10, <2>7, <2>8, <2>10 DEF p, e
<1> QED BY <1>9, <1>10

\* The switch of a section as it is read.
LEMMA SwitchOfProxy ==
    ASSUME NEW m
    PROVE  Text(Proxy(m), "enabled") = IF Has(m, "enabled") THEN Truth(m["enabled"]) ELSE ""
<1> DEFINE a == Flags(m, {"enabled"})
           b == DefaultAmong(ProxyEntries(m), Text(m, "default"))
           d == Assignments(Sub(m, "assignments"), NamesOf(ProxyEntries(m)))
           c == KeptMap("assignments", d)
           p == Proxy(m)
<1>1. p = (a @@ b) @@ c BY DEF Proxy, ProxyOf
<1>2. DOMAIN a = DOMAIN m \cap {"enabled"} /\ \A k \in DOMAIN a : a[k] = Truth(m[k])
    BY DEF Flags
<1>3. DOMAIN b \subseteq {"proxies", "default"} BY DEF DefaultAmong, Nothing
<1>4. DOMAIN c \subseteq {"assignments"} BY KeptMapField
<1> HIDE DEF a, b, c, d, p
<1>5. DOMAIN p = DOMAIN a \cup DOMAIN b \cup DOMAIN c BY <1>1 DEF @@
<1>6. \A k \in DOMAIN p : p[k] = IF k \in DOMAIN a THEN a[k] ELSE IF k \in DOMAIN b THEN b[k] ELSE c[k]
    BY <1>1, <1>5 DEF @@
<1>7. Has(p, "enabled") <=> Has(m, "enabled") BY <1>2, <1>3, <1>4, <1>5 DEF Has
<1>8. Has(m, "enabled") => p["enabled"] = Truth(m["enabled"])
    BY <1>2, <1>6, <1>7 DEF Has
<1> QED BY <1>7, <1>8 DEF Text, p

\* The default entry's own shape: what it has of the flat fields is never blank.
LEMMA DefaultShape ==
    ASSUME NEW r, NEW n, NEW o,
           ProxyUrl(Text(r, "url")) # "",
           DOMAIN o \cap FlatFields = {k \in DOMAIN ProxyEntry(r, n) \cap FlatFields : ProxyEntry(r, n)[k] # ""},
           \A k \in DOMAIN ProxyEntry(r, n) \cap FlatFields : ProxyEntry(r, n)[k] # "" => o[k] = ProxyEntry(r, n)[k],
           "noProxy" \notin DOMAIN o
    PROVE  LET d == ProxyEntry(r, n)
               e == ProxyEntry(o, "default")
           IN  /\ ProxyUrl(Text(o, "url")) # "" /\ Without(d, {"name"}) = Without(e, {"name"})
               /\ Text(d, "no_proxy") = Text(e, "no_proxy")
<1> DEFINE d == ProxyEntry(r, n)
           e == ProxyEntry(o, "default")
           U == {"username", "password"}
<1>1. /\ DOMAIN d = {"name", "url"} \cup {k \in DOMAIN r \cap U : r[k] # ""}
                        \cup (IF NoProxyText(r) = "" THEN {} ELSE {"no_proxy"})
      /\ d.url = ProxyUrl(Text(r, "url"))
      /\ \A k \in DOMAIN r \cap U : r[k] # "" => d[k] = r[k]
      /\ NoProxyText(r) # "" => d.no_proxy = NoProxyText(r)
    <2>1. /\ DOMAIN d = EntryFields(r) /\ d.url = ProxyUrl(Text(r, "url"))
          /\ Carries(d, r)
          /\ NoProxyText(r) # "" => d.no_proxy = NoProxyText(r)
        BY EntryShape
    <2> HIDE DEF d
    <2> QED BY <2>1 DEF EntryFields, Carries
<1>2. /\ DOMAIN e = {"name", "url"} \cup {k \in DOMAIN o \cap U : o[k] # ""}
                        \cup (IF NoProxyText(o) = "" THEN {} ELSE {"no_proxy"})
      /\ e.url = ProxyUrl(Text(o, "url"))
      /\ \A k \in DOMAIN o \cap U : o[k] # "" => e[k] = o[k]
      /\ NoProxyText(o) # "" => e.no_proxy = NoProxyText(o)
    <2>1. /\ DOMAIN e = EntryFields(o) /\ e.url = ProxyUrl(Text(o, "url"))
          /\ Carries(e, o)
          /\ NoProxyText(o) # "" => e.no_proxy = NoProxyText(o)
        BY EntryShape
    <2> HIDE DEF e
    <2> QED BY <2>1 DEF EntryFields, Carries
<1> HIDE DEF d, e
<1>3. \A k \in DOMAIN d \cap FlatFields : d[k] # "" BY <1>1 DEF FlatFields
<1>4. DOMAIN o \cap FlatFields = DOMAIN d \cap FlatFields /\ \A k \in DOMAIN d \cap FlatFields : o[k] = d[k]
    BY <1>3 DEF d
<1>5. Text(o, "url") = ProxyUrl(Text(r, "url"))
    BY <1>1, <1>4 DEF Text, Has, FlatFields
<1>6. ProxyUrl(Text(o, "url")) = ProxyUrl(Text(r, "url")) BY <1>5, ProxyUrlSettles
<1>7. NoProxyText(o) = Text(o, "no_proxy") BY FirstOfTwo DEF NoProxyText, Text, Has
<1>8. NoProxyText(o) = NoProxyText(r)
    <2>1. "no_proxy" \in DOMAIN d <=> NoProxyText(r) # "" BY <1>1
    <2>2. "no_proxy" \in DOMAIN o <=> "no_proxy" \in DOMAIN d BY <1>4 DEF FlatFields
    <2>3. "no_proxy" \in DOMAIN d => o["no_proxy"] = NoProxyText(r)
        BY <2>1, <1>1, <1>4 DEF FlatFields
    <2> QED BY <2>1, <2>2, <2>3, <1>7 DEF Text, Has
<1>9. {k \in DOMAIN o \cap U : o[k] # ""} = {k \in DOMAIN r \cap U : r[k] # ""}
    <2>1. ASSUME NEW k \in U PROVE k \in DOMAIN d <=> k \in DOMAIN r /\ r[k] # ""
        BY <1>1
    <2>2. ASSUME NEW k \in U PROVE k \in DOMAIN o <=> k \in DOMAIN d
        BY <1>4 DEF FlatFields
    <2>3. ASSUME NEW k \in U, k \in DOMAIN d PROVE o[k] # ""
        BY <1>3, <1>4, <2>3 DEF FlatFields
    <2> QED BY <2>1, <2>2, <2>3
<1>10. DOMAIN d = DOMAIN e BY <1>1, <1>2, <1>8, <1>9
<1>11. ASSUME NEW k \in DOMAIN d \ {"name"} PROVE d[k] = e[k]
    <2>1. CASE k = "url" BY <2>1, <1>1, <1>2, <1>6
    <2>2. CASE k = "no_proxy" BY <2>2, <1>1, <1>2, <1>8, <1>11
    <2>3. CASE k \in U BY <2>3, <1>1, <1>2, <1>4, <1>9, <1>11 DEF FlatFields
    <2> QED BY <2>1, <2>2, <2>3, <1>1, <1>11
<1>12. Without(d, {"name"}) = Without(e, {"name"}) BY <1>10, <1>11 DEF Without
<1>13. Text(d, "no_proxy") = Text(e, "no_proxy") BY <1>10, <1>11 DEF Text, Has
<1> QED BY <1>6, <1>12, <1>13 DEF d, e

\* An image from before named proxies takes the way of a current one.
LEMMA OldImagesAgreeAny ==
    ASSUME NEW settings, ProxySection(Sub(settings, "proxy"))
    PROVE  OldImagesAgree(settings)
<1> DEFINE m   == Sub(settings, "proxy")
           P   == Plan(m)
           d   == P.default
           o   == Without(FlatOf(m, d), OldKeys)
           q   == Proxy(o)
           e   == ProxyEntry(o, "default")
           new == [P EXCEPT !.assignments = Nothing]
           old == Plan(o)
<1>1. P = PlanOf(Proxy(m)) /\ old = PlanOf(q) BY DEF Plan
<1>2. ProxySection(Proxy(m)) BY ProxyIsSection DEF ProxySection, AreEntries
<1>3. Planned(new) /\ new.assignments = Nothing /\ new.enabled = P.enabled /\ new.default = d
    BY <1>1, <1>2, UnassignedPlan
<1>4. d # Nothing => \E r : ProxyUrl(Text(r, "url")) # "" /\ d = ProxyEntry(r, d.name)
    BY <1>1, <1>2, DefaultIsEntry
<1>5. /\ DOMAIN o = (DOMAIN m \cap {"enabled"})
                        \cup (IF d = Nothing THEN {} ELSE {k \in DOMAIN d \cap FlatFields : d[k] # ""})
      /\ "enabled" \in DOMAIN m => o["enabled"] = m["enabled"]
      /\ d # Nothing => \A k \in DOMAIN d \cap FlatFields : d[k] # "" => o[k] = d[k]
    <2>1. ProxySection(m)
        OBVIOUS
    <2> HIDE DEF m, d
    <2>2. /\ DOMAIN o = OldFields(m, d)
          /\ "enabled" \in DOMAIN m => o["enabled"] = m["enabled"]
          /\ d # Nothing => \A k \in DOMAIN d \cap FlatFields : d[k] # "" => o[k] = d[k]
        BY <2>1, OldShape
    <2> HIDE DEF o
    <2> QED BY <2>2 DEF OldFields
<1>6. old = Plan(Without(Mirrored(m), {"proxies", "default", "assignments"}))
    BY DEF Mirrored, OldKeys
<1>7. P.enabled = (Text(Proxy(m), "enabled") = "true") /\ old.enabled = (Text(q, "enabled") = "true")
    BY <1>1 DEF PlanOf
<1>8. Text(Proxy(m), "enabled") = IF Has(m, "enabled") THEN Truth(m["enabled"]) ELSE ""
    BY SwitchOfProxy
<1> HIDE DEF o, q, e, P, new, old, m
<1>9. ~Has(o, "proxies") /\ ~Has(o, "default") /\ ~Has(o, "assignments") /\ "noProxy" \notin DOMAIN o
    BY <1>5 DEF Has, FlatFields
<1>10. /\ ProxySection(q)
       /\ Text(q, "enabled") = IF Has(o, "enabled") THEN Truth(o["enabled"]) ELSE ""
       /\ Sub(q, "assignments") = Nothing
       /\ PlanOf(q).default = IF ProxyUrl(Text(o, "url")) # "" THEN e ELSE Nothing
    BY <1>9, FlatPlan DEF q, e
<1>11. Planned(old) /\ old.assignments = Nothing
    <2>1. PlanOf(q).assignments = Sub(q, "assignments") BY DEF PlanOf
    <2> QED BY <2>1, <1>1, <1>10, PlanIsPlanned
<1>12. old.enabled = new.enabled
    <2>1. Has(o, "enabled") <=> Has(m, "enabled") BY <1>5 DEF Has, FlatFields
    <2>2. Has(m, "enabled") => o["enabled"] = m["enabled"] BY <1>5 DEF Has
    <2>3. Text(q, "enabled") = Text(Proxy(m), "enabled")
        <3>1. CASE Has(m, "enabled") BY <3>1, <2>1, <2>2, <1>8, <1>10
        <3>2. CASE ~Has(m, "enabled") BY <3>2, <2>1, <1>8, <1>10
        <3> QED BY <3>1, <3>2
    <2> QED BY <2>3, <1>3, <1>7
<1>13. d = Nothing => old.default = Nothing
    <2>1. d = Nothing => Text(o, "url") = "" BY <1>5 DEF Text, Has
    <2>2. ProxyUrl("") = ""
        BY WordsAssumption, NoAddressHost DEF ProxyUrl, ProxyAddress
    <2> QED BY <2>1, <2>2, <1>1, <1>10
<1>14. d # Nothing => /\ old.default = e /\ Without(d, {"name"}) = Without(e, {"name"})
                      /\ Text(d, "no_proxy") = Text(e, "no_proxy") /\ e # Nothing
    <2> SUFFICES ASSUME d # Nothing
                 PROVE  /\ old.default = e /\ Without(d, {"name"}) = Without(e, {"name"})
                        /\ Text(d, "no_proxy") = Text(e, "no_proxy") /\ e # Nothing
        OBVIOUS
    <2>1. PICK r : ProxyUrl(Text(r, "url")) # "" /\ d = ProxyEntry(r, d.name)
        BY <1>4
    <2>2. DOMAIN o \cap FlatFields = {k \in DOMAIN d \cap FlatFields : d[k] # ""}
        BY <1>5 DEF FlatFields
    <2>3. /\ ProxyUrl(Text(o, "url")) # "" /\ Without(d, {"name"}) = Without(e, {"name"})
          /\ Text(d, "no_proxy") = Text(e, "no_proxy")
        <3> DEFINE n == d.name
                   dd == ProxyEntry(r, n)
        <3>1. d = dd BY <2>1
        <3> HIDE DEF n
        <3>2. /\ DOMAIN o \cap FlatFields = {k \in DOMAIN dd \cap FlatFields : dd[k] # ""}
              /\ \A k \in DOMAIN dd \cap FlatFields : dd[k] # "" => o[k] = dd[k]
            BY <3>1, <2>2, <1>5
        <3>3. /\ ProxyUrl(Text(o, "url")) # "" /\ Without(dd, {"name"}) = Without(e, {"name"})
              /\ Text(dd, "no_proxy") = Text(e, "no_proxy")
            BY <3>2, <2>1, <1>9, DefaultShape DEF e
        <3> QED BY <3>1, <3>3
    <2>4. "name" \in DOMAIN e /\ DOMAIN Nothing = {} BY EntryShape DEF e, Nothing
    <2> QED BY <2>3, <2>4, <1>1, <1>10
<1>15. ASSUME NEW host \in DOMAIN Labels
       PROVE  SameWay(Egress(old, "jira", host, ""), Egress(new, "jira", host, ""))
    <2>1. Text(Nothing, "jira") = "" BY DEF Text, Has, Nothing
    <2>2. Egress(old, "jira", host, "") =
            IF ~Configured(old) \/ EntryExempts(old.default, host) THEN Direct ELSE Through(old.default)
        BY <2>1, <1>11, UnassignedWay
    <2>3. Egress(new, "jira", host, "") =
            IF ~Configured(new) \/ EntryExempts(d, host) THEN Direct ELSE Through(d)
        BY <2>1, <1>3, UnassignedWay
    <2>4. Configured(old) <=> Configured(new)
        BY <1>3, <1>12, <1>13, <1>14 DEF Configured
    <2>5. d # Nothing => (EntryExempts(d, host) <=> EntryExempts(old.default, host))
        BY <1>14 DEF EntryExempts
    <2>6. /\ Through(d).kind = "proxy" /\ Through(d).entry = d /\ Through(e).kind = "proxy" /\ Through(e).entry = e
        BY DEF Through
    <2>7. SameWay(Direct, Direct) BY DEF SameWay
    <2>8. d # Nothing => SameWay(Through(e), Through(d)) BY <2>6, <1>14 DEF SameWay
    <2>9. Configured(new) => d # Nothing BY <1>3 DEF Configured
    <2> QED BY <2>2, <2>3, <2>4, <2>5, <2>7, <2>8, <2>9, <1>14
<1>16. PlansAgree(old, new) BY <1>15 DEF PlansAgree
<1> QED BY <1>6, <1>16 DEF OldImagesAgree, new, P, m

-----------------------------------------------------------------------------
(* What a form makes of the stored lists is lists again.                   *)

\* A field of one map over another is a field of either.
LEMMA OverHas == ASSUME NEW f, NEW g, NEW k PROVE Has(f @@ g, k) <=> Has(f, k) \/ Has(g, k)
    BY DEF Has, @@
\* Rows of one map over another are the first one's, if it has any.
LEMMA OverRows ==
    ASSUME NEW f, NEW g, NEW k
    PROVE  /\ Has(f, k) => Rows(f @@ g, k) = Rows(f, k)
           /\ ~Has(f, k) => Rows(f @@ g, k) = Rows(g, k)
    BY DEF Has, Rows, @@

\* The rows of the cards are a list, each of one card.
LEMMA CardRowsAreList ==
    ASSUME NEW cards, IsList(cards), NEW ks, NEW kept, NEW rows
    PROVE  /\ IsList(CardRows(cards, ks, kept, rows))
           /\ \A i \in DOMAIN CardRows(cards, ks, kept, rows) :
                 \E j \in DOMAIN cards : CardRows(cards, ks, kept, rows)[i] = CardRow(cards[j], ks, kept, rows)
<1> DEFINE mapped == [i \in DOMAIN cards |-> CardRow(cards[i], ks, kept, rows)]
           is     == {i \in DOMAIN mapped : Text(mapped[i], "name") # "" \/ Text(mapped[i], "url") # ""}
           result == CardRows(cards, ks, kept, rows)
<1>1. result = At(mapped, is) BY DEF CardRows, Filtered, Map, Where
<1>2. IsList(mapped) /\ is \in SUBSET DOMAIN mapped BY MapIsList
<1>3. \A j \in DOMAIN mapped : j \in DOMAIN cards /\ mapped[j] = CardRow(cards[j], ks, kept, rows)
    OBVIOUS
<1> HIDE DEF mapped, is, result
<1>4. IsList(result) /\ \A n \in DOMAIN result : Place(is, n) \in is /\ result[n] = mapped[Place(is, n)]
    BY <1>1, <1>2, AtIsList
<1>5. \A n \in DOMAIN result : \E j \in DOMAIN cards : result[n] = CardRow(cards[j], ks, kept, rows)
    BY <1>2, <1>3, <1>4
<1> QED BY <1>4, <1>5 DEF result

\* The clusters of the cards are a list.
LEMMA ClusterCardsAreList ==
    ASSUME NEW cards, IsList(cards)
    PROVE  IsList(ClusterCards(cards))
<1> DEFINE mapped == [i \in DOMAIN cards |-> CardRow(cards[i], ClusterFields, {}, <<>>)]
           is     == {i \in DOMAIN mapped : Typed(mapped[i], ClusterFields \ {"enabled"})}
<1>1. ClusterCards(cards) = At(mapped, is) BY DEF ClusterCards, Filtered, Map, Where
<1>2. IsList(mapped) /\ is \in SUBSET DOMAIN mapped BY MapIsList
<1> HIDE DEF mapped, is
<1> QED BY <1>1, <1>2, AtIsList

\* A list with one more row in front is a list.
LEMMA BeforeIsList ==
    ASSUME NEW entry, NEW rows, IsList(rows)
    PROVE  IsList(Before(entry, rows))
<1> DEFINE n == Cardinality(DOMAIN rows)
<1>1. n \in Nat BY ListPlaces
<1>2. DOMAIN Before(entry, rows) = 1..(n + 1) BY DEF Before
<1>3. IsFiniteSet(1..(n + 1)) /\ Cardinality(1..(n + 1)) = n + 1
    BY <1>1, FS_Interval
<1> QED BY <1>2, <1>3 DEF IsList

\* Proxies among which one was replaced, added or removed are a list.
LEMMA WithEntryIsList ==
    ASSUME NEW rows, IsList(rows), NEW entry
    PROVE  IsList(WithEntry(rows, entry))
<1>1. CASE ~Has(entry, "url")
    <2> DEFINE is == {i \in DOMAIN rows : rows[i].name # entry.name}
    <2>1. WithEntry(rows, entry) = At(rows, is)
        BY <1>1 DEF WithEntry, Filtered, Where
    <2>2. is \in SUBSET DOMAIN rows
        OBVIOUS
    <2> HIDE DEF is
    <2> QED BY <2>1, <2>2, AtIsList
<1>2. CASE Has(entry, "url") /\ entry.name \notin NamesOf(rows)
    BY <1>2, BeforeIsList DEF WithEntry
<1>3. CASE Has(entry, "url") /\ entry.name \in NamesOf(rows)
    <2> DEFINE mapped == [i \in DOMAIN rows |-> IF rows[i].name = entry.name THEN entry ELSE rows[i]]
    <2>1. WithEntry(rows, entry) = mapped BY <1>3 DEF WithEntry, Map
    <2>2. IsList(mapped) BY MapIsList
    <2> QED BY <2>1, <2>2
<1> QED BY <1>1, <1>2, <1>3

\* Which lists each section has.
LEMMA ListsByService ==
    /\ \A s \in Services : \A m : ListsHold(s, m) <=> IsList(Rows(m, "instances"))
    /\ \A m : ListsHold("proxy", m) <=> IsList(Rows(m, "proxies"))
    /\ \A m : ListsHold("aws", m) <=> /\ IsList(Rows(m, "accounts")) /\ IsList(Rows(m, "eks_clusters"))
                                      /\ \A i \in DOMAIN Rows(m, "accounts") : IsList(Rows(m["accounts"][i], "regions"))
    /\ \A s : s \notin Services \cup {"proxy", "aws"} => \A m : ListsHold(s, m)
<1>1. \A s \in Services : ListFields(s) = {"instances"} /\ s # "aws"
    BY DEF ListFields, Services, Named
<1>2. ListFields("proxy") = {"proxies"} /\ ListFields("aws") = {"accounts", "eks_clusters"}
    BY DEF ListFields, Named
<1>3. \A s : s \notin Services \cup {"proxy", "aws"} => ListFields(s) = {}
    BY DEF ListFields, Services
<1> QED BY <1>1, <1>2, <1>3 DEF ListsHold

\* The empty section has no field.
LEMMA NothingHas == \A k : ~Has(Nothing, k) /\ Rows(Nothing, k) = <<>> /\ Text(Nothing, k) = "" /\ Sub(Nothing, k) = Nothing
    BY DEF Has, Rows, Text, Sub, Nothing

\* A section of one field has that field.
LEMMA OnlyHas == ASSUME NEW k, NEW v, NEW x PROVE (Has(k :> v, x) <=> x = k) /\ Rows(k :> v, k) = v
    BY DEF Has, Rows, :>

\* A form's switch is the section's switch.
LEMMA SwitchedHas == ASSUME NEW f, NEW k PROVE Has(Switched(f), k) <=> k = "enabled"
    BY OnlyHas DEF Switched

\* A Jira or Confluence form makes a list of a list.
LEMMA TrackerLists ==
    ASSUME NEW s, NEW m, IsList(Rows(m, "instances")), NEW form, IsList(Rows(form, "cards"))
    PROVE  IsList(Rows(TrackerMerged(s, m, form), "instances"))
<1> DEFINE rows == CardRows(form.cards, TrackerFields[s], CardSecrets, Rows(m, "instances"))
           a == Switched(form.fields)
           b == IF HasCards(form, "cards") THEN "instances" :> rows ELSE Nothing
<1>1. TrackerMerged(s, m, form) = (a @@ b) @@ m BY DEF TrackerMerged
<1>2. ~Has(a, "instances") BY SwitchedHas
<1>3. CASE HasCards(form, "cards")
    <2>1. Rows(form, "cards") = form.cards BY <1>3 DEF HasCards, Rows, Has
    <2>2. IsList(rows) BY <2>1, CardRowsAreList
    <2> HIDE DEF rows
    <2>3. Has(b, "instances") /\ Rows(b, "instances") = rows BY <1>3, OnlyHas
    <2> HIDE DEF a, b
    <2> QED BY <1>1, <1>2, <2>2, <2>3, OverRows, OverHas
<1>4. CASE ~HasCards(form, "cards")
    <2>1. ~Has(b, "instances") BY <1>4, NothingHas
    <2> HIDE DEF a, b
    <2> QED BY <1>1, <1>2, <2>1, OverRows, OverHas
<1> QED BY <1>3, <1>4

\* The instances of Jenkins, listed or single, are a list.
LEMMA JenkinsRowsAreList ==
    ASSUME NEW m, IsList(Rows(m, "instances"))
    PROVE  IsList(JenkinsRows(m))
<1>1. Has(m, "instances") => JenkinsRows(m) = Rows(m, "instances")
    BY DEF JenkinsRows, Rows
<1>2. ~Has(m, "instances") => JenkinsRows(m) = <<>> \/ \E r : JenkinsRows(m) = <<r>>
    BY DEF JenkinsRows
<1> QED BY <1>1, <1>2, EmptyIsList, SingleIsList

\* A Jenkins form, with cards or from before them, makes a list of a list.
LEMMA JenkinsLists ==
    ASSUME NEW m, IsList(Rows(m, "instances")), NEW form, IsList(Rows(form, "cards"))
    PROVE  IsList(Rows(JenkinsMerged(m, form), "instances"))
<1> DEFINE sites == JenkinsRows(m)
           f      == form.fields
           name   == IF Empty(sites) \/ Text(sites[1], "name") = "" THEN "jenkins" ELSE sites[1].name
           flat   == ("name" :> name) @@ Texts(f, {"url", "username", "password"})
           rows   == IF Has(flat, "url") THEN <<flat>> ELSE <<>>
           a      == Switched(f)
           b      == "instances" :> rows
           c      == "instances" :> sites
<1>1. IsList(sites) BY JenkinsRowsAreList
<1>2. IsList(rows)
    <2> HIDE DEF flat
    <2> QED BY EmptyIsList, SingleIsList
<1>3. CASE HasCards(form, "cards")
    <2>1. JenkinsMerged(m, form) = TrackerMerged("jenkins", c @@ m, form)
        BY <1>3 DEF JenkinsMerged
    <2> HIDE DEF sites
    <2>2. IsList(Rows(c @@ m, "instances")) BY <1>1, OnlyHas, OverRows
    <2> HIDE DEF c
    <2> QED BY <2>1, <2>2, TrackerLists
<1>4. CASE ~HasCards(form, "cards") /\ DOMAIN f \cap {"url", "username", "password"} # {}
    <2>1. JenkinsMerged(m, form) = (a @@ b) @@ m BY <1>4 DEF JenkinsMerged
    <2> HIDE DEF rows, f
    <2>2. ~Has(a, "instances") /\ Has(b, "instances") /\ Rows(b, "instances") = rows
        BY SwitchedHas, OnlyHas
    <2> HIDE DEF a, b
    <2> QED BY <1>2, <2>1, <2>2, OverRows, OverHas
<1>5. CASE ~HasCards(form, "cards") /\ DOMAIN f \cap {"url", "username", "password"} = {}
    <2>1. JenkinsMerged(m, form) = a @@ m BY <1>5 DEF JenkinsMerged
    <2> HIDE DEF f
    <2>2. ~Has(a, "instances") BY SwitchedHas
    <2> HIDE DEF a
    <2> QED BY <2>1, <2>2, OverRows
<1> QED BY <1>3, <1>4, <1>5

\* Rows stay when other fields are dropped.
LEMMA WithoutRows ==
    ASSUME NEW m, NEW ks, NEW k, k \notin ks
    PROVE  (Has(Without(m, ks), k) <=> Has(m, k)) /\ Rows(Without(m, ks), k) = Rows(m, k)
    BY DEF Without, Has, Rows

\* A choice of fields has no others.
LEMMA TextsHas == ASSUME NEW m, NEW ks, NEW k, Has(Texts(m, ks), k) PROVE k \in ks
    BY DEF Texts, Has

\* Rows stay when other fields are posted.
LEMMA OverlaidRows ==
    ASSUME NEW m, NEW f, NEW ks, NEW k, k \notin ks
    PROVE  (Has(Overlaid(m, f, ks), k) <=> Has(m, k)) /\ Rows(Overlaid(m, f, ks), k) = Rows(m, k)
<1>1. ~Has(Texts(f, ks), k) BY TextsHas
<1>2. k \notin DOMAIN f \cap ks
    OBVIOUS
<1>3. (Has(Without(m, DOMAIN f \cap ks), k) <=> Has(m, k)) /\ Rows(Without(m, DOMAIN f \cap ks), k) = Rows(m, k)
    BY <1>2, WithoutRows
<1> QED BY <1>1, <1>3, OverHas, OverRows DEF Overlaid

\* The shared settings of PostgreSQL leave a list a list.
LEMMA SharedLists ==
    ASSUME NEW m, IsList(Rows(m, "instances")), NEW f
    PROVE  IsList(Rows(SharedMerged(m, f), "instances"))
<1> DEFINE stripped == [i \in DOMAIN m.instances |-> Without(m.instances[i], SharedFields \cup {"proxy"})]
           a == [k \in {x \in SharedForm(f) : f[x] # ""} |-> Spelled(k, f[k])]
           b == IF Has(m, "instances") THEN "instances" :> stripped ELSE Nothing
           c == Without(m, SharedForm(f))
<1>1. CASE SharedForm(f) = {} BY <1>1 DEF SharedMerged
<1>2. CASE SharedForm(f) # {}
    <2>1. SharedMerged(m, f) = (a @@ b) @@ c BY <1>2 DEF SharedMerged, Map
    <2>2. "instances" \notin SharedForm(f) BY DEF SharedForm, SharedFields
    <2>3. ~Has(a, "instances") BY <2>2 DEF Has
    <2>4. (Has(c, "instances") <=> Has(m, "instances")) /\ Rows(c, "instances") = Rows(m, "instances")
        BY <2>2, WithoutRows
    <2>5. CASE Has(m, "instances")
        <3>1. IsList(m.instances) BY <2>5 DEF Rows
        <3>2. IsList(stripped) BY <3>1, MapIsList
        <3> HIDE DEF stripped
        <3>3. Has(b, "instances") /\ Rows(b, "instances") = stripped
            BY <2>5, OnlyHas
        <3> HIDE DEF a, b, c
        <3> QED BY <2>1, <2>3, <3>2, <3>3, OverRows, OverHas
    <2>6. CASE ~Has(m, "instances")
        <3>1. ~Has(b, "instances") BY <2>6, NothingHas
        <3> HIDE DEF a, b, c
        <3> QED BY <2>1, <2>3, <2>4, <3>1, OverRows, OverHas
    <2> QED BY <2>5, <2>6
<1> QED BY <1>1, <1>2

\* A Nexus, Splunk or PostgreSQL form makes a list of a list.
LEMMA NamedLists ==
    ASSUME NEW s, NEW m, IsList(Rows(m, "instances")), NEW form, IsList(Rows(form, "cards"))
    PROVE  IsList(Rows(NamedMerged(s, m, form), "instances"))
<1> DEFINE rows == CardRows(form.cards, CardFields[s], CardSecrets, Rows(m, "instances"))
           a == Switched(form.fields)
           b == IF HasCards(form, "cards") THEN "instances" :> rows ELSE Nothing
           c == Overlaid(m, form.fields, {"default_instance"})
           listed == (a @@ b) @@ c
<1>1. NamedMerged(s, m, form) = IF s = "pgsql" THEN SharedMerged(listed, form.fields) ELSE listed
    BY DEF NamedMerged
<1>2. ~Has(a, "instances") BY SwitchedHas
<1>3. Rows(c, "instances") = Rows(m, "instances") BY OverlaidRows
<1>4. IsList(Rows(listed, "instances"))
    <2>3. CASE HasCards(form, "cards")
        <3>1. Rows(form, "cards") = form.cards BY <2>3 DEF HasCards, Rows, Has
        <3>2. IsList(rows) BY <3>1, CardRowsAreList
        <3> HIDE DEF rows
        <3>3. Has(b, "instances") /\ Rows(b, "instances") = rows BY <2>3, OnlyHas
        <3> HIDE DEF a, b, c
        <3> QED BY <1>2, <3>2, <3>3, OverRows, OverHas
    <2>4. CASE ~HasCards(form, "cards")
        <3>1. ~Has(b, "instances") BY <2>4, NothingHas
        <3> HIDE DEF a, b, c
        <3> QED BY <1>2, <1>3, <3>1, OverRows, OverHas
    <2> QED BY <2>3, <2>4
<1> HIDE DEF listed
<1> QED BY <1>1, <1>4, SharedLists

\* An AWS form makes lists of accounts, of their regions and of clusters.
LEMMA AwsLists ==
    ASSUME NEW m, ListsHold("aws", m), NEW form, IsList(Rows(form, "cards")), IsList(Rows(form, "clusters")),
           \A i \in DOMAIN Rows(form, "cards") : IsList(Rows(form["cards"][i], "regions"))
    PROVE  ListsHold("aws", AwsMerged(m, form))
<1> DEFINE rows == CardRows(form.cards, AccountFields, ApiOnly, Rows(m, "accounts"))
           cls  == ClusterCards(form.clusters)
           a == Switched(form.fields)
           b == IF HasCards(form, "cards") THEN "accounts" :> rows ELSE Nothing
           c == IF HasCards(form, "clusters") THEN "eks_clusters" :> cls ELSE Nothing
           d == Overlaid(m, form.fields, AwsTexts \cup {"session_duration_seconds"})
           x == AwsMerged(m, form)
<1>1. x = ((a @@ b) @@ c) @@ d BY DEF AwsMerged
<1>2. ~Has(a, "accounts") /\ ~Has(a, "eks_clusters") BY SwitchedHas
<1>3. /\ Rows(d, "accounts") = Rows(m, "accounts") /\ Rows(d, "eks_clusters") = Rows(m, "eks_clusters")
      /\ Has(d, "accounts") <=> Has(m, "accounts")
    <2>1. "accounts" \notin AwsTexts \cup {"session_duration_seconds"} /\ "eks_clusters" \notin AwsTexts \cup {"session_duration_seconds"}
        BY DEF AwsTexts
    <2> QED BY <2>1, OverlaidRows
<1>4. /\ IsList(Rows(m, "accounts")) /\ IsList(Rows(m, "eks_clusters"))
      /\ \A i \in DOMAIN Rows(m, "accounts") : IsList(Rows(Rows(m, "accounts")[i], "regions"))
    <2>1. \A i \in DOMAIN Rows(m, "accounts") : Rows(m, "accounts") = m["accounts"]
        BY EmptyIsList DEF Rows
    <2> QED BY <2>1, ListsByService
<1>5. /\ HasCards(form, "cards") => /\ Has(b, "accounts") /\ Rows(b, "accounts") = rows
                                    /\ ~Has(b, "eks_clusters") /\ IsList(rows)
                                    /\ \A i \in DOMAIN rows : IsList(Rows(rows[i], "regions"))
      /\ ~HasCards(form, "cards") => ~Has(b, "accounts") /\ ~Has(b, "eks_clusters")
    <2>1. CASE HasCards(form, "cards")
        <3>1. Rows(form, "cards") = form.cards /\ form.cards = form["cards"]
            BY <2>1 DEF HasCards, Rows, Has
        <3>2. IsList(rows) /\ \A i \in DOMAIN rows : \E j \in DOMAIN form.cards :
                                 rows[i] = CardRow(form.cards[j], AccountFields, ApiOnly, Rows(m, "accounts"))
            BY <3>1, CardRowsAreList
        <3>3. ASSUME NEW card PROVE Rows(CardRow(card, AccountFields, ApiOnly, Rows(m, "accounts")), "regions") = Rows(card, "regions")
            BY DEF CardRow, AccountFields, Rows, Has
        <3> HIDE DEF rows
        <3>4. Has(b, "accounts") /\ Rows(b, "accounts") = rows /\ ~Has(b, "eks_clusters")
            BY <2>1, OnlyHas
        <3>5. \A i \in DOMAIN rows : IsList(Rows(rows[i], "regions"))
            BY <3>1, <3>2, <3>3
        <3> QED BY <2>1, <3>2, <3>4, <3>5 DEF rows
    <2>2. CASE ~HasCards(form, "cards") BY <2>2, NothingHas
    <2> QED BY <2>1, <2>2
<1>6. /\ HasCards(form, "clusters") => Has(c, "eks_clusters") /\ Rows(c, "eks_clusters") = cls /\ ~Has(c, "accounts") /\ IsList(cls)
      /\ ~HasCards(form, "clusters") => ~Has(c, "accounts") /\ ~Has(c, "eks_clusters")
    <2>1. CASE HasCards(form, "clusters")
        <3>1. Rows(form, "clusters") = form.clusters BY <2>1 DEF HasCards, Rows, Has
        <3>2. IsList(cls) BY <3>1, ClusterCardsAreList
        <3> HIDE DEF cls
        <3>4. Has(c, "eks_clusters") /\ Rows(c, "eks_clusters") = cls /\ ~Has(c, "accounts")
            BY <2>1, OnlyHas
        <3> QED BY <2>1, <3>2, <3>4 DEF cls
    <2>2. CASE ~HasCards(form, "clusters") BY <2>2, NothingHas
    <2> QED BY <2>1, <2>2
<1> HIDE DEF rows, cls, a, b, c, d, x
<1>7. Rows(x, "accounts") = IF HasCards(form, "cards") THEN rows ELSE Rows(m, "accounts")
    BY <1>1, <1>2, <1>3, <1>5, <1>6, OverHas, OverRows
<1>8. Rows(x, "eks_clusters") = IF HasCards(form, "clusters") THEN cls ELSE Rows(m, "eks_clusters")
    BY <1>1, <1>2, <1>3, <1>5, <1>6, OverHas, OverRows
<1>9. IsList(Rows(x, "accounts")) /\ IsList(Rows(x, "eks_clusters")) /\ \A i \in DOMAIN Rows(x, "accounts") : IsList(Rows(Rows(x, "accounts")[i], "regions"))
    BY <1>4, <1>5, <1>6, <1>7, <1>8
<1>10. \A i \in DOMAIN Rows(x, "accounts") : Rows(x, "accounts") = x["accounts"]
    BY EmptyIsList DEF Rows
<1> QED BY <1>9, <1>10, ListsByService DEF x

\* The proxies are there when there is one.
LEMMA AmongHas ==
    ASSUME NEW rows, NEW name
    PROVE  /\ Has(DefaultAmong(rows, name), "proxies") <=> ~Empty(rows)
           /\ ~Empty(rows) => Rows(DefaultAmong(rows, name), "proxies") = rows
    BY DEF DefaultAmong, Has, Rows, Nothing

\* A Proxy form, with cards or from before them, makes a list of a list.
LEMMA ProxyLists ==
    ASSUME NEW m, IsList(Rows(m, "proxies")), NEW form, IsList(Rows(form, "cards"))
    PROVE  IsList(Rows(ProxyMerged(m, form), "proxies"))
<1>1. CASE ~HasCards(form, "cards")
    <2> DEFINE f       == form.fields
               current == Proxy(m)
               rows    == Rows(current, "proxies")
               name    == IF Text(current, "default") = "" THEN "default" ELSE current.default
               old     == FirstWith(rows, LAMBDA r : r.name = name, Nothing)
               new     == WithEntry(rows, SingleEntry(f, name, old))
               a       == Switched(f)
               b       == Only(current, {"assignments"})
               c       == DefaultAmong(new, name)
    <2>1. ProxyMerged(m, form) = (a @@ b) @@ c BY <1>1 DEF ProxyMerged, SingleProxy
    <2>2. IsList(rows)
        <3>1. ProxySection(current) BY ProxyIsSection
        <3> QED BY <3>1 DEF ProxySection, AreEntries
    <2> HIDE DEF rows, old, name, f, current
    <2>3. IsList(new) BY <2>2, WithEntryIsList
    <2>4. ~Has(a, "proxies") /\ ~Has(b, "proxies") BY SwitchedHas DEF Only, Has
    <2>5. (Has(c, "proxies") <=> ~Empty(new)) /\ (~Empty(new) => Rows(c, "proxies") = new)
        BY AmongHas
    <2> HIDE DEF a, b, c, new
    <2>6. Rows((a @@ b) @@ c, "proxies") = IF Empty(new) THEN Rows(c, "proxies") ELSE new
        BY <2>4, <2>5, OverHas, OverRows
    <2>7. Empty(new) => Rows(c, "proxies") = <<>> BY <2>5 DEF Rows
    <2> QED BY <2>1, <2>3, <2>6, <2>7, EmptyIsList
<1>2. CASE HasCards(form, "cards")
    <2> DEFINE cards  == ProxyCards(m, form)
               rows   == [i \in DOMAIN cards |-> Texts(cards[i], ProxyFields)]
               chosen == Texts(Sub(form, "assign"), Assignable)
               d      == [c \in DOMAIN chosen |-> IF Lower(chosen[c]) = "none" THEN "none" ELSE chosen[c]]
               a      == Switched(form.fields)
               b      == IF Empty(rows) THEN Nothing
                         ELSE [proxies |-> rows,
                               default |-> IF Text(form.fields, "default") = "" THEN rows[1].name ELSE form.fields.default]
               c      == KeptMap("assignments", d)
    <2>1. ProxyMerged(m, form) = (a @@ b) @@ c
        BY <1>2 DEF ProxyMerged, CardProxy, Map
    <2>2. IsList(cards)
        <3>1. Rows(form, "cards") = form.cards BY <1>2 DEF HasCards, Rows, Has
        <3> QED BY <3>1, CardRowsAreList DEF ProxyCards
    <2> HIDE DEF cards
    <2>3. IsList(rows) BY <2>2, MapIsList
    <2>4. ~Has(a, "proxies") /\ ~Has(c, "proxies")
        <3>1. DOMAIN c \subseteq {"assignments"} BY KeptMapField
        <3> HIDE DEF c
        <3> QED BY <3>1, SwitchedHas DEF Has
    <2> HIDE DEF rows, chosen, d
    <2>5. (Has(b, "proxies") <=> ~Empty(rows)) /\ (~Empty(rows) => Rows(b, "proxies") = rows)
        BY DEF Has, Rows, Nothing
    <2> HIDE DEF a, b, c
    <2>6. Rows((a @@ b) @@ c, "proxies") = IF Empty(rows) THEN Rows(c, "proxies") ELSE rows
        BY <2>4, <2>5, OverHas, OverRows
    <2>7. Rows(c, "proxies") = <<>> BY <2>4 DEF Rows
    <2> QED BY <2>1, <2>3, <2>6, <2>7, EmptyIsList
<1> QED BY <1>1, <1>2

\* A form makes lists of lists, whatever it is merged with.
LEMMA MergedLists ==
    ASSUME NEW form \in Forms, NEW row, \A s : ListsHold(s, Sub(row, s))
    PROVE  \A s : ListsHold(s, Sub(Merged(row, form), s))
<1> DEFINE t == form.section
           m == Sub(row, t)
           x == Merged(row, form)
           new == Sub(x, t)
<1>1. /\ IsList(Rows(form, "cards")) /\ IsList(Rows(form, "clusters"))
      /\ \A i \in DOMAIN Rows(form, "cards") : IsList(Rows(form["cards"][i], "regions"))
    BY FormsAssumption
<1>2. ASSUME NEW s, s # t PROVE Sub(x, s) = Sub(row, s)
    BY <1>2 DEF Merged, Sub, Has, @@, :>
<1>3. /\ t \in {"jira", "confluence"} => new = TrackerMerged(t, m, form)
      /\ t = "jenkins" => new = JenkinsMerged(m, form)
      /\ t \in Named => new = NamedMerged(t, m, form)
      /\ t = "aws" => new = AwsMerged(m, form)
      /\ t = "proxy" => new = ProxyMerged(m, form)
    <2> DEFINE v == CASE t \in {"jira", "confluence"} -> TrackerMerged(t, m, form)
                [] t = "jenkins" -> JenkinsMerged(m, form)
                [] t = "github" -> GitHubMerged(m, form.fields)
                [] t \in Named -> NamedMerged(t, m, form)
                [] t = "aws" -> AwsMerged(m, form)
                [] t = "proxy" -> ProxyMerged(m, form)
                [] t = "mobile-auto" -> MobileMerged(m, form.fields)
                [] t = "git" -> GitMerged(m, form.fields)
                [] t = "llm" -> LlmMerged(m, form.fields)
    <2>1. x = (t :> v) @@ row BY DEF Merged
    <2>2. /\ t \in {"jira", "confluence"} => v = TrackerMerged(t, m, form)
          /\ t = "jenkins" => v = JenkinsMerged(m, form)
          /\ t \in Named => v = NamedMerged(t, m, form)
          /\ t = "aws" => v = AwsMerged(m, form)
          /\ t = "proxy" => v = ProxyMerged(m, form)
        BY DEF Named
    <2> HIDE DEF v, x, t
    <2>3. Sub(x, t) = v BY <2>1 DEF Sub, Has, @@, :>
    <2> QED BY <2>2, <2>3
<1>4. ListsHold(t, m)
    OBVIOUS
<1> HIDE DEF x, m, t, new
<1>5. ListsHold(t, new)
    <2>1. CASE t \in {"jira", "confluence"}
        BY <2>1, <1>1, <1>3, <1>4, ListsByService, TrackerLists DEF Services
    <2>2. CASE t = "jenkins"
        BY <2>2, <1>1, <1>3, <1>4, ListsByService, JenkinsLists DEF Services
    <2>3. CASE t \in Named
        BY <2>3, <1>1, <1>3, <1>4, ListsByService, NamedLists DEF Services
    <2>4. CASE t = "aws" BY <2>4, <1>1, <1>3, <1>4, AwsLists
    <2>5. CASE t = "proxy" BY <2>5, <1>1, <1>3, <1>4, ListsByService, ProxyLists
    <2>6. CASE t \notin Services \cup {"proxy", "aws"} BY <2>6, ListsByService
    <2> QED BY <2>1, <2>2, <2>3, <2>4, <2>5, <2>6 DEF Services
<1> QED BY <1>2, <1>5 DEF x, t, new

-----------------------------------------------------------------------------
(* The sections of the services with instances, and their readers.         *)

\* A selection of rows is nothing but those rows.
LEMMA AtIsFcn == ASSUME NEW rows, NEW is PROVE IsFcn(At(rows, is))
    BY DEF At, IsFcn

\* A row of a selection is a row.
LEMMA AtFromRows ==
    ASSUME NEW rows, IsList(rows), NEW is \in SUBSET DOMAIN rows
    PROVE  \A n \in DOMAIN At(rows, is) : \E i \in is : At(rows, is)[n] = rows[i]
<1>1. \A n \in DOMAIN At(rows, is) : Place(is, n) \in is /\ At(rows, is)[n] = rows[Place(is, n)]
    BY AtIsList
<1> QED BY <1>1

\* The instances that are kept have an address.
LEMMA SiteRowsAre ==
    ASSUME NEW kind, NEW rows, IsList(rows)
    PROVE  AreSites(kind, SiteRows(kind, rows))
<1> DEFINE is   == {i \in DOMAIN rows : SiteOf(rows[i]) # ""}
           kept == At(rows, is)
           new  == [i \in DOMAIN kept |-> SiteRow(kind, kept[i])]
<1>1. SiteRows(kind, rows) = new BY DEF SiteRows, Map, Filtered, Where
<1>2. is \in SUBSET DOMAIN rows /\ \A i \in is : SiteOf(rows[i]) # ""
    OBVIOUS
<1> HIDE DEF is
<1>6. IsList(kept) /\ \A n \in DOMAIN kept : \E i \in is : kept[n] = rows[i]
    BY <1>2, AtIsList, AtFromRows
<1> HIDE DEF kept
<1>3. IsList(kept) /\ \A n \in DOMAIN kept : SiteOf(kept[n]) # "" BY <1>2, <1>6
<1>4. IsList(new) /\ IsFcn(new) BY <1>3, MapIsList DEF IsFcn
<1>5. DOMAIN new = DOMAIN kept /\ \A i \in DOMAIN kept : new[i] = SiteRow(kind, kept[i])
    OBVIOUS
<1> HIDE DEF new
<1> QED BY <1>1, <1>3, <1>4, <1>5 DEF AreSites

\* Those with a name of their own have one too.
LEMMA AddressableAre ==
    ASSUME NEW kind, NEW rows, AreSites(kind, rows)
    PROVE  AreSites(kind, Addressable(rows))
<1> DEFINE is   == {i \in DOMAIN rows : Text(rows[i], "name") # ""}
           kept == At(rows, is)
           js   == {i \in DOMAIN kept : \A j \in DOMAIN kept : j < i => FoldedName(kept[j]) # FoldedName(kept[i])}
<1>1. Addressable(rows) = At(kept, js)
    BY DEF Addressable, FirstPerKey, Filtered, Where
<1>2. is \in SUBSET DOMAIN rows /\ js \in SUBSET DOMAIN kept
    OBVIOUS
<1> HIDE DEF is, js
<1>3. IsList(rows) BY DEF AreSites
<1>4. IsList(kept) /\ \A n \in DOMAIN kept : \E i \in DOMAIN rows : kept[n] = rows[i]
    BY <1>2, <1>3, AtIsList, AtFromRows
<1> HIDE DEF kept
<1>5. IsList(At(kept, js)) /\ \A n \in DOMAIN At(kept, js) : \E i \in DOMAIN kept : At(kept, js)[n] = kept[i]
    BY <1>2, <1>4, AtIsList, AtFromRows
<1>6. IsFcn(At(kept, js)) BY AtIsFcn
<1>7. ASSUME NEW n \in DOMAIN At(kept, js)
      PROVE  \E r : At(kept, js)[n] = SiteRow(kind, r) /\ SiteOf(r) # ""
    <2>1. PICK i \in DOMAIN kept : At(kept, js)[n] = kept[i] BY <1>5
    <2>2. PICK j \in DOMAIN rows : kept[i] = rows[j] BY <1>4
    <2> QED BY <2>1, <2>2 DEF AreSites
<1> QED BY <1>1, <1>5, <1>6, <1>7 DEF AreSites

\* The databases that are kept have all it takes to reach them.
LEMMA DatabasesAre ==
    ASSUME NEW rows, IsList(rows)
    PROVE  AreDatabases(Databases(rows))
<1> DEFINE mapped == [i \in DOMAIN rows |-> Database(rows[i])]
           is   == {i \in DOMAIN mapped : "" \notin {mapped[i].name, mapped[i].host, mapped[i].database, mapped[i].username}}
           kept == At(mapped, is)
           js   == {i \in DOMAIN kept : \A j \in DOMAIN kept : j < i => FoldedName(kept[j]) # FoldedName(kept[i])}
<1>1. Databases(rows) = At(kept, js)
    BY DEF Databases, FirstPerKey, Filtered, Where, Map
<1>2. is \in SUBSET DOMAIN mapped /\ js \in SUBSET DOMAIN kept
      /\ \A i \in is : "" \notin {mapped[i].name, mapped[i].host, mapped[i].database, mapped[i].username}
    OBVIOUS
<1>3. IsList(mapped) /\ \A i \in DOMAIN mapped : mapped[i] = Database(rows[i])
    BY MapIsList
<1> HIDE DEF mapped, is, js
<1>4. IsList(kept) /\ \A n \in DOMAIN kept : \E i \in is : kept[n] = mapped[i]
    BY <1>2, <1>3, AtIsList, AtFromRows
<1> HIDE DEF kept
<1>5. IsList(At(kept, js)) /\ \A n \in DOMAIN At(kept, js) : \E i \in js : At(kept, js)[n] = kept[i]
    BY <1>2, <1>4, AtIsList, AtFromRows
<1>6. IsFcn(At(kept, js)) BY AtIsFcn
<1>7. ASSUME NEW n \in DOMAIN At(kept, js)
      PROVE  \E r : LET d == At(kept, js)[n] IN d = Database(r) /\ "" \notin {d.name, d.host, d.database, d.username}
    <2>1. PICK i \in js : At(kept, js)[n] = kept[i] BY <1>5
    <2>2. PICK j \in is : kept[i] = mapped[j] BY <1>2, <1>4
    <2> QED BY <2>1, <2>2, <1>2, <1>3
<1> QED BY <1>1, <1>5, <1>6, <1>7 DEF AreDatabases

\* A service may have no instance.
LEMMA NoRows == (\A s : AreSites(s, <<>>)) /\ AreDatabases(<<>>)
BY EmptyIsList DEF AreSites, AreDatabases, IsFcn

\* The instances are listed when the section listed any.
LEMMA ListedShape ==
    ASSUME NEW m, NEW rows
    PROVE  /\ DOMAIN Listed(m, rows) \subseteq {"instances"}
           /\ Has(Listed(m, rows), "instances") <=> Has(m, "instances")
           /\ Has(m, "instances") => Rows(Listed(m, rows), "instances") = rows
           /\ ~Has(m, "instances") => Rows(Listed(m, rows), "instances") = <<>>
    BY NothingHas, OnlyHas DEF Listed, Has, Nothing, :>, Rows

\* What the sanitizer makes of Jira and Confluence.
LEMMA TrackerShape ==
    ASSUME NEW s \in {"jira", "confluence"}, NEW m, IsList(Rows(m, "instances"))
    PROVE  ServiceSection(s, Tracker(s, m))
<1> DEFINE a == Flags(m, {"enabled"})
           rows == SiteRows(s, Rows(m, "instances"))
           b == Listed(m, rows)
           p == Tracker(s, m)
<1>1. p = a @@ b BY DEF Tracker
<1>2. DOMAIN a \subseteq {"enabled"} BY DEF Flags
<1>3. AreSites(s, rows) BY SiteRowsAre
<1> HIDE DEF a, rows
<1>4. DOMAIN b \subseteq {"instances"} /\ (Rows(b, "instances") = rows \/ Rows(b, "instances") = <<>>)
    BY ListedShape
<1> HIDE DEF b, p
<1>5. ~Has(a, "instances") BY <1>2 DEF Has
<1>6. Rows(p, "instances") = Rows(b, "instances") BY <1>1, <1>5, OverRows
<1>7. DOMAIN p = DOMAIN a \cup DOMAIN b /\ IsFcn(p) BY <1>1 DEF @@, IsFcn
<1> QED BY <1>2, <1>3, <1>4, <1>6, <1>7, NoRows DEF ServiceSection, p

\* A section's switch and default are those two fields.
LEMMA SwitchShape ==
    ASSUME NEW m
    PROVE  DOMAIN SwitchAndDefault(m) \subseteq {"enabled", "default_instance"}
    BY DEF SwitchAndDefault, Flags, Texts, @@

\* What the sanitizer makes of Nexus and Splunk.
LEMMA RepositoryShape ==
    ASSUME NEW s \in {"nexus", "splunk"}, NEW m, IsList(Rows(m, "instances"))
    PROVE  ServiceSection(s, Repository(s, m))
<1> DEFINE a == SwitchAndDefault(m)
           rows == Addressable(SiteRows(s, Rows(m, "instances")))
           b == Listed(m, rows)
           p == Repository(s, m)
<1>1. p = a @@ b BY DEF Repository
<1>2. DOMAIN a \subseteq {"enabled", "default_instance"} BY SwitchShape
<1>3. AreSites(s, rows) BY SiteRowsAre, AddressableAre
<1> HIDE DEF a, rows
<1>4. DOMAIN b \subseteq {"instances"} /\ (Rows(b, "instances") = rows \/ Rows(b, "instances") = <<>>)
    BY ListedShape
<1> HIDE DEF b, p
<1>5. ~Has(a, "instances") BY <1>2 DEF Has
<1>6. Rows(p, "instances") = Rows(b, "instances") BY <1>1, <1>5, OverRows
<1>7. DOMAIN p = DOMAIN a \cup DOMAIN b /\ IsFcn(p) BY <1>1 DEF @@, IsFcn
<1> QED BY <1>2, <1>3, <1>4, <1>6, <1>7, NoRows DEF ServiceSection, p

\* What the sanitizer makes of PostgreSQL.
LEMMA PostgresShape ==
    ASSUME NEW m, IsList(Rows(m, "instances"))
    PROVE  ServiceSection("pgsql", Postgres(m))
<1> DEFINE shared == [f \in SharedFields |-> IF Has(m, f) THEN Shared(f, m[f]) ELSE Lifted(f, m)]
           a == SwitchAndDefault(m)
           c == Kept("access", Access(Text(m, "access")))
           d == Texts(shared, SharedFields)
           rows == Databases(Rows(m, "instances"))
           b == Listed(m, rows)
           p == Postgres(m)
<1>1. p = ((a @@ c) @@ d) @@ b BY DEF Postgres
<1>2. DOMAIN a \subseteq {"enabled", "default_instance"} /\ DOMAIN c \subseteq {"access"} /\ DOMAIN d \subseteq SharedFields
    BY SwitchShape, KeptField DEF Texts
<1>3. AreDatabases(rows) BY DatabasesAre
<1> HIDE DEF a, rows, c, d
<1>4. DOMAIN b \subseteq {"instances"} /\ (Rows(b, "instances") = rows \/ Rows(b, "instances") = <<>>)
    BY ListedShape
<1> HIDE DEF b, p
<1>5. ~Has(a, "instances") /\ ~Has(c, "instances") /\ ~Has(d, "instances")
    BY <1>2 DEF Has, SharedFields
<1>6. Rows(p, "instances") = Rows(b, "instances") BY <1>1, <1>5, OverRows, OverHas
<1>7. DOMAIN p = DOMAIN a \cup DOMAIN b \cup DOMAIN c \cup DOMAIN d /\ IsFcn(p)
    BY <1>1 DEF @@, IsFcn
<1> QED BY <1>2, <1>3, <1>4, <1>6, <1>7, NoRows DEF ServiceSection, p

\* What the sanitizer makes of Jenkins.
LEMMA JenkinsShape ==
    ASSUME NEW m, IsList(Rows(m, "instances"))
    PROVE  ServiceSection("jenkins", Jenkins(m))
<1> DEFINE a == SwitchAndDefault(m)
           rows == SiteRows("jenkins", JenkinsRows(m))
           b == IF ~Empty(JenkinsRows(m)) \/ Has(m, "instances") THEN "instances" :> rows ELSE Nothing
           p == Jenkins(m)
<1>1. p = a @@ b BY DEF Jenkins
<1>2. DOMAIN a \subseteq {"enabled", "default_instance"} BY SwitchShape
<1>3. AreSites("jenkins", rows) BY JenkinsRowsAreList, SiteRowsAre
<1> HIDE DEF a, rows
<1>4. DOMAIN b \subseteq {"instances"} /\ (Rows(b, "instances") = rows \/ Rows(b, "instances") = <<>>)
    BY NothingHas, OnlyHas DEF Nothing, :>
<1> HIDE DEF b, p
<1>5. ~Has(a, "instances") BY <1>2 DEF Has
<1>6. Rows(p, "instances") = Rows(b, "instances") BY <1>1, <1>5, OverRows
<1>7. DOMAIN p = DOMAIN a \cup DOMAIN b /\ IsFcn(p) BY <1>1 DEF @@, IsFcn
<1> QED BY <1>2, <1>3, <1>4, <1>6, <1>7, NoRows DEF ServiceSection, p

\* The places of a list start at one.
LEMMA ListStart ==
    ASSUME NEW rows, IsList(rows)
    PROVE  DOMAIN rows \in SUBSET Nat /\ \A i \in DOMAIN rows : i >= 1
<1>1. DOMAIN rows = 1..Cardinality(DOMAIN rows) /\ Cardinality(DOMAIN rows) \in Nat
    BY ListPlaces DEF IsList
<1> DEFINE n == Cardinality(DOMAIN rows)
<1> HIDE DEF n
<1> QED BY <1>1 DEF n

\* The smallest place is the first when the first is there.
LEMMA SmallestIsOne ==
    ASSUME NEW is \in SUBSET Nat, \A i \in is : i >= 1, 1 \in is
    PROVE  Smallest(is) = 1
<1>1. Smallest(is) \in is /\ Smallest(is) <= 1 BY SmallestIsIn
<1>2. PICK x : x = Smallest(is)
    OBVIOUS
<1>3. x \in Nat /\ x <= 1 /\ x >= 1 BY <1>1, <1>2
<1> QED BY <1>2, <1>3

\* The first of several fields, when it is there or none of the others is.
LEMMA FirstTextIs ==
    ASSUME NEW m, NEW ks, IsList(ks), 1 \in DOMAIN ks,
           Text(m, ks[1]) # "" \/ \A i \in DOMAIN ks : i # 1 => Text(m, ks[i]) = ""
    PROVE  FirstText(m, ks) = Text(m, ks[1])
<1> DEFINE rows == [i \in DOMAIN ks |-> Text(m, ks[i])]
           is   == {i \in DOMAIN rows : rows[i] # ""}
<1>1. FirstText(m, ks) = FirstOf(rows, is, "")
    BY DEF FirstText, FirstWith, Where, Map
<1>2. IsList(rows) /\ DOMAIN rows = DOMAIN ks /\ \A i \in DOMAIN ks : rows[i] = Text(m, ks[i])
    BY MapIsList
<1>3. is \in SUBSET DOMAIN ks /\ \A i \in DOMAIN ks : i \in is <=> Text(m, ks[i]) # ""
    OBVIOUS
<1> HIDE DEF rows
<1>4. DOMAIN ks \in SUBSET Nat /\ \A i \in DOMAIN ks : i >= 1 BY ListStart
<1> HIDE DEF is
<1>5. is \in SUBSET DOMAIN rows BY <1>2, <1>3
<1>6. is # {} => Smallest(is) \in is /\ (\A i \in is : Smallest(is) <= i) /\ FirstOf(rows, is, "") = rows[Smallest(is)]
    BY <1>2, <1>5, FirstFound
<1>7. is = {} => FirstOf(rows, is, "") = "" BY <1>2, <1>5, FirstFound
<1>8. CASE 1 \in is
    <2>1. Smallest(is) = 1
        <3>1. is \in SUBSET Nat /\ \A i \in is : i >= 1 BY <1>3, <1>4
        <3> QED BY <3>1, <1>8, SmallestIsOne
    <2> QED BY <2>1, <1>1, <1>2, <1>6, <1>8
<1>9. CASE 1 \notin is
    <2>1. Text(m, ks[1]) = "" BY <1>3, <1>9
    <2>2. is = {} BY <2>1, <1>3, <1>9
    <2> QED BY <2>1, <2>2, <1>1, <1>7
<1> QED BY <1>8, <1>9

\* Up to four words in a row are a list of them.
LEMMA Tuples ==
    ASSUME NEW a, NEW b, NEW c, NEW d
    PROVE  /\ IsList(<<a, b, c, d>>) /\ DOMAIN <<a, b, c, d>> = {1, 2, 3, 4}
           /\ <<a, b, c, d>>[1] = a /\ <<a, b, c, d>>[2] = b /\ <<a, b, c, d>>[3] = c /\ <<a, b, c, d>>[4] = d
           /\ 1 \in DOMAIN <<a, b, c, d>> /\ 1 \in DOMAIN <<a, b, c>> /\ 1 \in DOMAIN <<a, b>>
           /\ IsList(<<a, b, c>>) /\ DOMAIN <<a, b, c>> = {1, 2, 3}
           /\ <<a, b, c>>[1] = a /\ <<a, b, c>>[2] = b /\ <<a, b, c>>[3] = c
           /\ IsList(<<a, b>>) /\ DOMAIN <<a, b>> = {1, 2} /\ <<a, b>>[1] = a /\ <<a, b>>[2] = b
<1>1. DOMAIN <<a, b, c, d>> = 1..4 /\ DOMAIN <<a, b, c>> = 1..3 /\ DOMAIN <<a, b>> = 1..2
    OBVIOUS
<1>2. ASSUME NEW n \in Nat PROVE IsFiniteSet(1..n) /\ Cardinality(1..n) = n
    <2>1. IsFiniteSet(1..n) /\ Cardinality(1..n) = IF 1 > n THEN 0 ELSE n - 1 + 1
        BY FS_Interval
    <2> QED BY <2>1
<1>3. 1..4 = {1, 2, 3, 4} /\ 1..3 = {1, 2, 3} /\ 1..2 = {1, 2}
    OBVIOUS
<1>4. IsList(<<a, b, c, d>>) /\ IsList(<<a, b, c>>) /\ IsList(<<a, b>>)
    BY <1>1, <1>2 DEF IsList
<1> QED BY <1>1, <1>3, <1>4

\* An instance has no other fields of its kind.
LEMMA KindFieldsShape == ASSUME NEW kind, NEW r PROVE DOMAIN KindFields(kind, r) \subseteq FieldsOfKind
<1>1. kind = "jira" => DOMAIN KindFields(kind, r) \subseteq {"project", "api_version"}
    <2> DEFINE w == IF Lower(Text(r, "api_version")) \in {"2", "3"} THEN Lower(Text(r, "api_version")) ELSE ""
               a == Kept("project", FirstText(r, <<"project", "project_key">>))
               b == Kept("api_version", w)
    <2>1. kind = "jira" => KindFields(kind, r) = a @@ b BY DEF KindFields, OneOf
    <2> HIDE DEF w
    <2>2. DOMAIN a \subseteq {"project"} /\ DOMAIN b \subseteq {"api_version"}
        BY KeptField
    <2> HIDE DEF a, b
    <2>3. DOMAIN (a @@ b) = DOMAIN a \cup DOMAIN b BY DEF @@
    <2> QED BY <2>1, <2>2, <2>3
<1>2. kind = "confluence" => DOMAIN KindFields(kind, r) \subseteq {"space"}
    BY KeptField DEF KindFields
<1>3. kind = "splunk" => DOMAIN KindFields(kind, r) \subseteq {"default_index", "default_earliest", "app", "owner", "max_results"}
    <2> DEFINE all == Texts(r, {"default_index", "default_earliest", "app", "owner"})
               a   == IF Has(all, "app") THEN all ELSE Without(all, {"owner"})
               b   == Within(r, "max_results", 1, 10000)
    <2>1. kind = "splunk" => KindFields(kind, r) = a @@ b BY DEF KindFields
    <2>2. DOMAIN all \subseteq {"default_index", "default_earliest", "app", "owner"}
        BY DEF Texts
    <2> HIDE DEF all
    <2>3. DOMAIN a \subseteq {"default_index", "default_earliest", "app", "owner"}
        BY <2>2 DEF Without
    <2>4. DOMAIN b \subseteq {"max_results"} BY DEF Within, Nothing, :>
    <2> HIDE DEF a, b
    <2>5. DOMAIN (a @@ b) = DOMAIN a \cup DOMAIN b BY DEF @@
    <2> QED BY <2>1, <2>3, <2>4, <2>5
<1>4. kind \notin {"jira", "confluence", "splunk"} => DOMAIN KindFields(kind, r) = {}
    BY DEF KindFields, Nothing
<1> QED BY <1>1, <1>2, <1>3, <1>4 DEF FieldsOfKind

\* An instance that was cut to size: its address is under one name.
LEMMA SiteRowShape ==
    ASSUME NEW kind, NEW r
    PROVE  LET row == SiteRow(kind, r)
           IN  /\ DOMAIN row \subseteq {"name", "password", "url", "username", "token", "enabled"} \cup FieldsOfKind
               /\ "url" \in DOMAIN row /\ row["url"] = SiteOf(r)
               /\ IsFcn(row)
<1> DEFINE a == Texts(r, {"name", "password"})
           b == "url" :> SiteOf(r)
           c == Kept("username", FirstText(r, <<"username", "email">>))
           d == Kept("token", FirstText(r, <<"token", "api_token", "access_token">>))
           e == Flags(r, {"enabled"})
           f == KindFields(kind, r)
           row == SiteRow(kind, r)
<1>1. row = ((((a @@ b) @@ c) @@ d) @@ e) @@ f BY DEF SiteRow
<1>2. /\ DOMAIN a \subseteq {"name", "password"} /\ DOMAIN b = {"url"} /\ b["url"] = SiteOf(r)
      /\ DOMAIN c \subseteq {"username"} /\ DOMAIN d \subseteq {"token"} /\ DOMAIN e \subseteq {"enabled"}
    BY KeptField DEF Texts, Flags, :>
<1>3. DOMAIN f \subseteq FieldsOfKind BY KindFieldsShape
<1> HIDE DEF a, b, c, d, e, f, row
<1>4. DOMAIN row = DOMAIN a \cup DOMAIN b \cup DOMAIN c \cup DOMAIN d \cup DOMAIN e \cup DOMAIN f /\ IsFcn(row)
    BY <1>1 DEF @@, IsFcn
<1>5. "url" \in DOMAIN row /\ row["url"] = b["url"] BY <1>1, <1>2 DEF @@
<1> QED BY <1>2, <1>3, <1>4, <1>5 DEF row

\* An instance that was kept has its address where every reader looks.
LEMMA SitesHaveAddress ==
    ASSUME NEW s, s # "pgsql", NEW r, SiteOf(r) # ""
    PROVE  HasAddress(s, SiteRow(s, r))
<1> DEFINE row == SiteRow(s, r)
           ks  == <<"url", "base_url", "baseUrl", "uri">>
<1>1. "url" \in DOMAIN row /\ row["url"] # "" BY SiteRowShape
<1>2. IsList(ks) /\ 1 \in DOMAIN ks /\ ks[1] = "url"
    <2> HIDE DEF row
    <2> QED BY Tuples
<1> HIDE DEF row
<1>3. Text(row, "url") # "" BY <1>1 DEF Text, Has
<1> HIDE DEF ks
<1>4. FirstText(row, ks) = Text(row, "url") BY <1>2, <1>3, FirstTextIs
<1> QED BY <1>3, <1>4 DEF HasAddress, AddressField, ks, row

\* A database that was cut to size.
LEMMA DatabaseShape ==
    ASSUME NEW r
    PROVE  LET d == Database(r)
           IN  /\ DOMAIN d \subseteq {"name", "host", "database", "username", "port", "password", "enabled"}
               /\ {"name", "host", "database", "username"} \subseteq DOMAIN d /\ IsFcn(d)
               /\ d["name"] = Text(r, "name") /\ d["host"] = FirstText(r, <<"host", "hostname">>)
               /\ d["database"] = FirstText(r, <<"database", "dbname">>)
               /\ d["username"] = FirstText(r, <<"username", "user">>)
<1> DEFINE a == [name |-> Text(r, "name"), host |-> FirstText(r, <<"host", "hostname">>),
                 database |-> FirstText(r, <<"database", "dbname">>),
                 username |-> FirstText(r, <<"username", "user">>)]
           b == Within(r, "port", 1, 65535)
           c == Texts(r, {"password"})
           e == Flags(r, {"enabled"})
           d == Database(r)
<1>1. d = ((a @@ b) @@ c) @@ e BY DEF Database
<1>2. /\ DOMAIN a = {"name", "host", "database", "username"}
      /\ a["name"] = Text(r, "name") /\ a["host"] = FirstText(r, <<"host", "hostname">>)
      /\ a["database"] = FirstText(r, <<"database", "dbname">>) /\ a["username"] = FirstText(r, <<"username", "user">>)
    OBVIOUS
<1>3. DOMAIN b \subseteq {"port"} /\ DOMAIN c \subseteq {"password"} /\ DOMAIN e \subseteq {"enabled"}
    <2>1. DOMAIN b \subseteq {"port"} BY DEF Within, Nothing, :>
    <2>2. DOMAIN c \subseteq {"password"} /\ DOMAIN e \subseteq {"enabled"}
        BY DEF Texts, Flags
    <2> QED BY <2>1, <2>2
<1> HIDE DEF a, b, c, d, e
<1>4. DOMAIN d = DOMAIN a \cup DOMAIN b \cup DOMAIN c \cup DOMAIN e /\ IsFcn(d)
    BY <1>1 DEF @@, IsFcn
<1>5. \A k \in DOMAIN a : d[k] = a[k] BY <1>1 DEF @@
<1> QED BY <1>2, <1>3, <1>4, <1>5 DEF d

\* A database that was kept has its host where every reader looks.
LEMMA DatabasesHaveAddress ==
    ASSUME NEW r, "" \notin {Database(r).name, Database(r).host, Database(r).database, Database(r).username}
    PROVE  HasAddress("pgsql", Database(r))
<1> DEFINE row == Database(r)
           ks  == <<"host">>
<1>1. "host" \in DOMAIN row /\ row["host"] # "" BY DatabaseShape
<1>2. IsList(ks) /\ 1 \in DOMAIN ks /\ ks[1] = "host" BY SingleIsList
<1> HIDE DEF row
<1>3. Text(row, "host") # "" BY <1>1 DEF Text, Has
<1> HIDE DEF ks
<1>4. FirstText(row, ks) = Text(row, "host") BY <1>2, <1>3, FirstTextIs
<1> QED BY <1>3, <1>4 DEF HasAddress, AddressField, ks, row

\* The rows of a service's section all have an address.
LEMMA RowsHaveAddress ==
    ASSUME NEW s \in Services, NEW p, ServiceSection(s, p)
    PROVE  \A i \in DOMAIN Rows(p, "instances") : HasAddress(s, Rows(p, "instances")[i])
<1> DEFINE rows == Rows(p, "instances")
<1>1. CASE s = "pgsql"
    <2>1. AreDatabases(rows) BY <1>1 DEF ServiceSection
    <2> HIDE DEF rows
    <2> SUFFICES ASSUME NEW i \in DOMAIN rows PROVE HasAddress("pgsql", rows[i])
        BY <1>1 DEF rows
    <2>2. PICK r : rows[i] = Database(r) /\ "" \notin {rows[i].name, rows[i].host, rows[i].database, rows[i].username}
        BY <2>1 DEF AreDatabases
    <2> QED BY <2>2, DatabasesHaveAddress
<1>2. CASE s # "pgsql"
    <2>1. AreSites(s, rows) BY <1>2 DEF ServiceSection
    <2> HIDE DEF rows
    <2> SUFFICES ASSUME NEW i \in DOMAIN rows PROVE HasAddress(s, rows[i])
        BY DEF rows
    <2>2. PICK r : rows[i] = SiteRow(s, r) /\ SiteOf(r) # "" BY <2>1 DEF AreSites
    <2> QED BY <2>2, <1>2, SitesHaveAddress
<1> QED BY <1>1, <1>2

\* Of rows with an address those are usable that are on.
LEMMA UsableIsOn ==
    ASSUME NEW s, NEW r, HasAddress(s, r)
    PROVE  UsableRow(s, r) <=> RowOn(r)
BY DEF UsableRow, HasAddress

\* The list shows a service by its instances.
LEMMA StateOfService ==
    ASSUME NEW settings, NEW s \in Instanced
    PROVE  State(settings, s) = InstancesState(s, Sub(settings, s))
<1>1. s \notin {"mobile-auto", "github", "aws", "git", "llm", "proxy"}
    BY DEF Instanced, Named
<1> QED BY <1>1 DEF State

\* A section without any of the names of an address has none.
LEMMA FourBlank ==
    ASSUME NEW m, NEW a, NEW b, NEW c, NEW d
    PROVE  Text(m, a) = "" /\ Text(m, b) = "" /\ Text(m, c) = "" /\ Text(m, d) = "" => FirstText(m, <<a, b, c, d>>) = ""
<1> DEFINE ks == <<a, b, c, d>>
<1>1. IsList(ks) /\ 1 \in DOMAIN ks BY Tuples
<1>2. \A i \in DOMAIN ks : ks[i] \in {a, b, c, d} BY Tuples
<1> HIDE DEF ks
<1>3. ks[1] \in {a, b, c, d} BY <1>1, <1>2
<1> SUFFICES ASSUME \A k \in {a, b, c, d} : Text(m, k) = "" PROVE FirstText(m, ks) = ""
    BY DEF ks
<1>4. FirstText(m, ks) = Text(m, ks[1]) BY <1>1, <1>2, FirstTextIs
<1> QED BY <1>3, <1>4

\* An assistant may use a service by its instances.
LEMMA UsableService ==
    ASSUME NEW settings, NEW s \in Instanced
    PROVE  Usable(settings, s) <=> UsableInstances(s, Sub(settings, s))
<1>1. s \notin {"mobile-auto", "github", "aws", "git"} BY DEF Instanced, Named
<1> QED BY <1>1 DEF Usable

\* The list, the instructions and the Test button agree on a service the sanitizer read
\* (connector_registry.py, tool instructions and the default row of a probe).
LEMMA SectionReadersAgree ==
    ASSUME NEW settings, NEW s \in Services, ServiceSection(s, Sub(settings, s))
    PROVE  /\ (State(settings, s) = "connected") <=> Usable(settings, s)
           /\ (State(settings, s) = "connected" /\ s \notin {"jira", "confluence"}) => UsableRow(s, DefaultRow(Sub(settings, s)))
<1> DEFINE m    == Sub(settings, s)
           rows == Rows(m, "instances")
           some == \E i \in DOMAIN rows : RowOn(rows[i])
<1>1. \A i \in DOMAIN rows : HasAddress(s, rows[i]) BY RowsHaveAddress
<1>2. DOMAIN m \subseteq {"enabled", "default_instance", "instances", "access"} \cup SharedFields
    BY DEF ServiceSection
<1>3. IsList(rows) BY DEF ServiceSection, AreSites, AreDatabases
<1>4. Text(m, "url") = "" /\ Text(m, "base_url") = "" /\ Text(m, "baseUrl") = "" /\ Text(m, "uri") = ""
    BY <1>2 DEF Text, Has, SharedFields
<1>5. s \in Instanced BY DEF Services, Instanced
<1>6. \A i \in DOMAIN rows : Text(rows[i], AddressField(s)) # ""
    BY <1>1 DEF HasAddress
<1> DEFINE shown == Shows(TRUE, m)
<1>7. State(settings, s) = IF some THEN shown ELSE IF ~Empty(rows) THEN "off" ELSE "not_set_up"
    <2>1. (IF Empty(rows) /\ Text(m, "url") # "" THEN <<m>> ELSE rows) = rows
        BY <1>4
    <2>2. State(settings, s) = IF \E i \in DOMAIN rows : RowOn(rows[i]) /\ Text(rows[i], AddressField(s)) # "" THEN shown
                               ELSE IF ~Empty(rows) THEN "off" ELSE "not_set_up"
        BY <2>1, <1>5, StateOfService DEF InstancesState
    <2> HIDE DEF rows, shown
    <2> QED BY <2>2, <1>6
<1>8. shown = IF On(m) THEN "connected" ELSE "off" BY DEF Shows
<1> DEFINE used == IF s = "jenkins" /\ ~Has(m, "instances") THEN <<m>> ELSE rows
<1>9. Usable(settings, s) <=> (On(m) /\ \E i \in DOMAIN used : UsableRow(s, used[i]))
    BY <1>5, UsableService DEF UsableInstances
<1>10. (\E i \in DOMAIN used : UsableRow(s, used[i])) <=> some
    <2>1. CASE s = "jenkins" /\ ~Has(m, "instances")
        <3>1. used = <<m>> /\ rows = <<>> BY <2>1 DEF Rows
        <3>2. ~some BY <3>1, EmptyIsList
        <3> DEFINE ks == <<"url", "base_url", "baseUrl", "uri">>
        <3>3. FirstText(m, ks) = "" BY <1>4, FourBlank
        <3>4. ~UsableRow(s, m) BY <2>1, <3>3 DEF UsableRow
        <3> HIDE DEF used, rows, m
        <3> QED BY <3>1, <3>2, <3>4, SingleIsList
    <2>2. CASE ~(s = "jenkins" /\ ~Has(m, "instances"))
        <3>1. used = rows BY <2>2
        <3> HIDE DEF used, rows
        <3> QED BY <3>1, <1>1, UsableIsOn
    <2> QED BY <2>1, <2>2
<1> HIDE DEF used, shown, some
<1>11. (State(settings, s) = "connected") <=> On(m) /\ some BY <1>7, <1>8
<1>12. (State(settings, s) = "connected") <=> Usable(settings, s)
    BY <1>9, <1>10, <1>11
<1>13. some => UsableRow(s, DefaultRow(m))
    <2> DEFINE on    == {i \in DOMAIN rows : RowOn(rows[i])}
               named == {i \in on : Text(m, "default_instance") # "" /\ FoldedName(rows[i]) = Lower(m.default_instance)}
               is    == IF named # {} THEN named ELSE IF on # {} THEN on ELSE DOMAIN rows
    <2> SUFFICES ASSUME some PROVE UsableRow(s, DefaultRow(m))
        OBVIOUS
    <2>1. DefaultRow(m) = FirstOf(rows, is, Nothing) BY DEF DefaultRow, Where
    <2>2. on # {} /\ named \subseteq on /\ on \in SUBSET DOMAIN rows BY DEF some
    <2> HIDE DEF named
    <2>3. is # {} /\ is \subseteq on BY <2>2
    <2> HIDE DEF is
    <2>4. is \in SUBSET DOMAIN rows BY <2>2, <2>3
    <2> HIDE DEF rows
    <2>5. Smallest(is) \in is /\ FirstOf(rows, is, Nothing) = rows[Smallest(is)]
        BY <2>3, <2>4, <1>3, FirstFound
    <2>6. Smallest(is) \in DOMAIN rows /\ RowOn(rows[Smallest(is)]) BY <2>3, <2>5
    <2> QED BY <2>1, <2>5, <2>6, <1>1, UsableIsOn
<1> QED BY <1>11, <1>12, <1>13

\* A row of Jira or Confluence that is probed is one the assistant uses, unless one is off.
LEMMA SignInAgreesAny ==
    ASSUME NEW settings, NEW s \in {"jira", "confluence"}, ServiceSection(s, Sub(settings, s))
    PROVE  SignInAgrees(s, Sub(settings, s), InstanceTest(settings, s) # Refusal)
<1> DEFINE m    == Sub(settings, s)
           rows == Rows(m, "instances")
           is   == {i \in DOMAIN rows : /\ Text(rows[i], "url") # ""
                                        /\ Text(rows[i], "token") # "" \/ (Text(rows[i], "username") # "" /\ Text(rows[i], "password") # "")}
           row  == SignInRow(m)
<1>1. s \in Services /\ AddressField(s) = "url" BY DEF Services, Named, AddressField
<1>2. \A i \in DOMAIN rows : HasAddress(s, rows[i]) BY <1>1, RowsHaveAddress
<1>3. IsList(rows) BY <1>1 DEF ServiceSection, AreSites, AreDatabases
<1>4. row = FirstOf(rows, is, Nothing) BY DEF SignInRow, FirstWith, Where
<1>5. is \in SUBSET DOMAIN rows
    OBVIOUS
<1>6. InstanceTest(settings, s) # Refusal => Text(row, "url") # ""
    BY <1>1 DEF InstanceTest
<1> HIDE DEF is
<1>7. ASSUME InstanceTest(settings, s) # Refusal, \A i \in DOMAIN rows : RowOn(rows[i])
      PROVE  UsableRow(s, row)
    <2>1. is # {}
        <3>1. is = {} => row = Nothing BY <1>4 DEF FirstOf
        <3>2. Text(Nothing, "url") = "" BY NothingHas DEF Text
        <3> HIDE DEF row
        <3> QED BY <1>6, <1>7, <3>1, <3>2
    <2> HIDE DEF rows
    <2>2. Smallest(is) \in is /\ row = rows[Smallest(is)]
        BY <1>3, <1>4, <1>5, <2>1, FirstFound
    <2>3. Smallest(is) \in DOMAIN rows BY <1>5, <2>2
    <2> QED BY <1>1, <1>2, <1>7, <2>2, <2>3, UsableIsOn
<1>8. (\E i \in DOMAIN Rows(m, "instances") : ~RowOn(m.instances[i])) <=> \E i \in DOMAIN rows : ~RowOn(rows[i])
    <2>1. CASE Has(m, "instances") BY <2>1 DEF Rows
    <2>2. CASE ~Has(m, "instances")
        <3>1. Rows(m, "instances") = <<>> BY <2>2 DEF Rows
        <3> HIDE DEF m
        <3> QED BY <3>1, EmptyIsList
    <2> QED BY <2>1, <2>2
<1>9. SignInAgrees(s, m, InstanceTest(settings, s) # Refusal)
    BY <1>7, <1>8 DEF SignInAgrees
<1> QED BY <1>9 DEF m

\* GitHub's button works when the list says connected, and then the assistant is told.
LEMMA GitHubAgrees ==
    ASSUME NEW settings
    PROVE  /\ State(settings, "github") = "connected" => Usable(settings, "github")
           /\ (State(settings, "github") = "connected") <=> (GitHubTest(settings) # Refusal)
<1> DEFINE m    == Sub(settings, "github")
           ks   == <<"api_token", "base_url">>
           host == IF Text(m, "base_url") = "" THEN "api.github.com" ELSE Parts(m.base_url).host
<1>1. "github" \notin Instanced BY DEF Instanced, Named
<1>2. State(settings, "github") = Shows(Text(m, "api_token") # "", m)
    BY <1>1 DEF State
<1>3. (State(settings, "github") = "connected") <=> On(m) /\ Text(m, "api_token") # ""
    BY <1>2 DEF Shows
<1>4. GitHubTest(settings) = IF ~On(m) \/ Text(m, "api_token") = "" THEN Refusal ELSE Probe(settings, "github", m, host)
    BY DEF GitHubTest
<1>5. \A h : Probe(settings, "github", m, h) # Refusal
    <2> TAKE h
    <2>1. Probe(settings, "github", m, h).probe = "sent" /\ Refusal.probe = "refused"
        BY DEF Probe, Refusal
    <2> QED BY <2>1
<1>6. Text(m, "api_token") # "" => FirstText(m, ks) # ""
    <2>1. FirstText(m, ks) = IF Text(m, "api_token") # "" THEN Text(m, "api_token") ELSE Text(m, "base_url")
        BY FirstOfTwo
    <2> QED BY <2>1
<1>7. On(m) /\ FirstText(m, ks) # "" => Usable(settings, "github") BY DEF Usable
<1> HIDE DEF m, host, ks
<1> QED BY <1>3, <1>4, <1>5, <1>6, <1>7

\* So is it of BrowserStack.
LEMMA MobileAgrees ==
    ASSUME NEW settings, State(settings, "mobile-auto") = "connected"
    PROVE  Usable(settings, "mobile-auto")
<1> DEFINE m   == Sub(settings, "mobile-auto")
           hub == Sub(m, "browserstack")
           ks  == {"username", "username_env", "access_key", "access_key_env", "api_base_url", "appium_base_url"}
<1>1. "mobile-auto" \notin Instanced BY DEF Instanced, Named
<1>2. State(settings, "mobile-auto") = Shows(Text(hub, "username") # "", m)
    BY <1>1 DEF State
<1>3. On(m) /\ Text(hub, "username") # "" BY <1>2 DEF Shows
<1> HIDE DEF hub
<1>4. "username" \in DOMAIN Texts(hub, ks) BY <1>3 DEF Texts, Text, Has
<1>5. MobileUsable(m) BY <1>3, <1>4 DEF MobileUsable, hub
<1> QED BY <1>5 DEF Usable

\* They agree on every service of a row the sanitizer read.
LEMMA ReadersAgreeAny ==
    ASSUME NEW settings, \A s \in Services : ServiceSection(s, Sub(settings, s))
    PROVE  ReadersAgree(settings)
<1>1. Instanced = Services BY DEF Instanced, Services
<1>2. ASSUME NEW s \in Services, State(settings, s) = "connected" PROVE settings[s] = Sub(settings, s)
    <2>1. Sub(settings, s) = Nothing => ~On(Sub(settings, s)) BY NothingHas DEF On
    <2>2. Usable(settings, s) BY <1>2, SectionReadersAgree
    <2>3. On(Sub(settings, s))
        <3>1. s \in Instanced BY <1>1
        <3> QED BY <2>2, <3>1, UsableService DEF UsableInstances
    <2> QED BY <2>1, <2>3 DEF Sub
<1>3. ASSUME NEW s \in {"jira", "confluence"} PROVE SignInAgrees(s, Sub(settings, s), InstanceTest(settings, s) # Refusal)
    <2>1. s \in Services BY DEF Services
    <2> QED BY <2>1, SignInAgreesAny
<1>4. \A s \in Services : (State(settings, s) = "connected") <=> Usable(settings, s)
    BY SectionReadersAgree
<1>5. ASSUME NEW s \in Services, s \notin {"jira", "confluence"}, State(settings, s) = "connected"
      PROVE  UsableRow(s, DefaultRow(settings[s]))
    BY <1>2, <1>5, SectionReadersAgree
<1>6. \A s \in {"github", "mobile-auto"} : State(settings, s) = "connected" => Usable(settings, s)
    BY GitHubAgrees, MobileAgrees
<1> QED BY <1>1, <1>3, <1>4, <1>5, <1>6, GitHubAgrees DEF ReadersAgree

-----------------------------------------------------------------------------
(* The Secret, and what a runtime makes of it when it starts.              *)

\* The name of a provider is its own name.
LEMMA ProviderTwice == \A v : Provider(Provider(v)) = Provider(v)
BY DEF Provider, AiPlatform, Copilot

\* Such settings a runtime leaves as they are.
LEMMA NativeSettles ==
    ASSUME NEW llm, NativeRead(llm)
    PROVE  LlmFor("native", llm) = llm
<1> DEFINE a == IF Text(llm, "provider") = "" THEN Nothing ELSE "provider" :> RuntimeProvider("native", llm.provider)
           b == IF Text(llm, "model") = "" THEN Nothing ELSE "model" :> RuntimeModel("native", Text(llm, "provider"), llm.model)
           new == LlmFor("native", llm)
<1>1. new = (a @@ b) @@ llm BY DEF LlmFor
<1>2. \A k \in DOMAIN a : k \in DOMAIN llm /\ a[k] = llm[k]
    <2>1. CASE Text(llm, "provider") = "" BY <2>1 DEF Nothing
    <2>2. CASE Text(llm, "provider") # ""
        <3>1. "provider" \in DOMAIN llm /\ llm["provider"] = Provider(llm["provider"])
            BY <2>2 DEF NativeRead, Text, Has
        <3>2. RuntimeProvider("native", llm.provider) = Provider(llm["provider"])
            BY DEF RuntimeProvider
        <3>3. a = "provider" :> llm["provider"] BY <2>2, <3>1, <3>2
        <3> HIDE DEF a
        <3> QED BY <3>1, <3>3 DEF :>
    <2> QED BY <2>1, <2>2
<1>3. \A k \in DOMAIN b : k \in DOMAIN llm /\ b[k] = llm[k]
    <2>1. CASE Text(llm, "model") = "" BY <2>1 DEF Nothing
    <2>2. CASE Text(llm, "model") # ""
        <3>1. "model" \in DOMAIN llm BY <2>2 DEF Text, Has
        <3>2. RuntimeModel("native", Text(llm, "provider"), llm.model) = llm["model"]
            BY DEF RuntimeModel
        <3>3. b = "model" :> llm["model"] BY <2>2, <3>2
        <3> HIDE DEF b
        <3> QED BY <3>1, <3>3 DEF :>
    <2> QED BY <2>1, <2>2
<1>4. IsFcn(llm) BY DEF NativeRead
<1> HIDE DEF a, b, new
<1>5. DOMAIN new = DOMAIN llm /\ IsFcn(new) /\ \A k \in DOMAIN llm : new[k] = llm[k]
    BY <1>1, <1>2, <1>3 DEF @@, IsFcn
<1> QED BY <1>4, <1>5 DEF IsFcn, new

\* A runtime makes such settings of any.
LEMMA NativeMade ==
    ASSUME NEW y
    PROVE  NativeRead(LlmFor("native", y))
<1> DEFINE a == IF Text(y, "provider") = "" THEN Nothing ELSE "provider" :> RuntimeProvider("native", y.provider)
           b == IF Text(y, "model") = "" THEN Nothing ELSE "model" :> RuntimeModel("native", Text(y, "provider"), y.model)
           new == LlmFor("native", y)
<1>1. new = (a @@ b) @@ y BY DEF LlmFor
<1>2. ~Has(b, "provider")
    <2>1. DOMAIN b \subseteq {"model"} BY DEF Nothing, :>
    <2> HIDE DEF b
    <2> QED BY <2>1 DEF Has
<1>3. CASE Text(y, "provider") = ""
    <2>1. ~Has(a, "provider") BY <1>3, NothingHas
    <2> HIDE DEF a, b, new
    <2>2. Text(new, "provider") = "" BY <1>1, <1>2, <1>3, <2>1 DEF Text, Has, @@
    <2>3. IsFcn(new) BY <1>1 DEF @@, IsFcn
    <2> QED BY <2>2, <2>3 DEF NativeRead, new
<1>4. CASE Text(y, "provider") # ""
    <2>1. RuntimeProvider("native", y.provider) = Provider(y.provider)
        BY DEF RuntimeProvider
    <2>2. Has(a, "provider") /\ a["provider"] = Provider(y.provider)
        BY <1>4, <2>1 DEF Has, :>
    <2> HIDE DEF a, b, new
    <2>3. new["provider"] = Provider(y.provider) /\ IsFcn(new)
        BY <1>1, <2>2 DEF Has, @@, IsFcn
    <2> QED BY <2>3, ProviderTwice DEF NativeRead, new
<1> QED BY <1>3, <1>4

\* They stay such settings when a limit is added or dropped.
LEMMA NativeKept ==
    ASSUME NEW llm, NativeRead(llm), NEW v
    PROVE  /\ NativeRead(("timeout_ms" :> v) @@ llm)
           /\ NativeRead(Without(llm, {"max_context_tokens"}))
<1> DEFINE a == ("timeout_ms" :> v) @@ llm
           b == Without(llm, {"max_context_tokens"})
<1>1. IsFcn(a) /\ IsFcn(b) BY DEF IsFcn, @@, Without
<1>2. ("provider" \in DOMAIN a <=> "provider" \in DOMAIN llm) /\ ("provider" \in DOMAIN llm => a["provider"] = llm["provider"])
    BY DEF @@, :>
<1>3. ("provider" \in DOMAIN b <=> "provider" \in DOMAIN llm) /\ ("provider" \in DOMAIN llm => b["provider"] = llm["provider"])
    BY DEF Without
<1> HIDE DEF a, b
<1> QED BY <1>1, <1>2, <1>3 DEF NativeRead, Text, Has, a, b

\* What a Secret says of the model provider.
LEMMA SecretLlm ==
    ASSUME NEW canonical, NEW default, DOMAIN default # {}
    PROVE  LET secret == SecretOf(canonical, default, TRUE)
           IN  Has(secret, "llm") /\ NativeRead(secret["llm"]) /\ IsFcn(secret)
<1> DEFINE chosen == Texts(Sub(canonical, "llm"), DOMAIN Sub(canonical, "llm") \cap DOMAIN default) @@ default
                       @@ Sub(canonical, "llm")
           given  == LlmFor("native", Materialized(chosen))
           a      == "llm" :> (("timeout_ms" :> "300000") @@ given)
           b      == IF "proxy" \in DOMAIN canonical THEN "proxy" :> Mirrored(canonical.proxy) ELSE Nothing
           c      == "debug" :> [enabled |-> "true", log_level |-> "DEBUG"]
           secret == SecretOf(canonical, default, TRUE)
<1>1. secret = ((a @@ b) @@ c) @@ canonical BY DEF SecretOf
<1>2. NativeRead(given) BY NativeMade
<1> HIDE DEF given
<1>3. Has(a, "llm") /\ NativeRead(a["llm"])
    <2>1. NativeRead(("timeout_ms" :> "300000") @@ given) BY <1>2, NativeKept
    <2> QED BY <2>1 DEF Has, :>
<1> HIDE DEF a, b, c, secret
<1>4. Has(secret, "llm") /\ secret["llm"] = a["llm"] /\ IsFcn(secret)
    BY <1>1, <1>3 DEF Has, @@, IsFcn
<1> QED BY <1>3, <1>4 DEF secret

\* What an assistant is told of its tools depends on the connectors alone.
LEMMA ToldByRows ==
    ASSUME NEW one, NEW other, \A s \in Sections \ {"llm"} : Sub(one, s) = Sub(other, s)
    PROVE  ToldOfTools(one) <=> ToldOfTools(other)
<1>1. \A c : ~Usable(c, "llm") BY DEF Usable, Instanced, Named
<1>2. ASSUME NEW s \in Sections PROVE Usable(one, s) <=> Usable(other, s)
    <2>1. CASE s = "llm" BY <1>1, <2>1
    <2>2. CASE s # "llm"
        <3>1. Sub(one, s) = Sub(other, s) BY <2>2
        <3> QED BY <3>1 DEF Usable
    <2> QED BY <2>1, <2>2
<1> QED BY <1>2 DEF ToldOfTools

\* What a runtime has made of a Secret once it makes of it again.
LEMMA BootedTwice ==
    ASSUME NEW secret, Has(secret, "llm"), NativeRead(secret["llm"]), IsFcn(secret)
    PROVE  BootSettles(secret)
<1> DEFINE L == secret["llm"]
           short == Without(L, {"max_context_tokens"})
           B == Booted("native", secret)
           a == "llm" :> short
           b == IF "max_context_tokens" \in DOMAIN L THEN "max_context_tokens" :> L.max_context_tokens ELSE Nothing
           c == IF ToldOfTools(secret) THEN "instruction_texts" :> "tools" ELSE Nothing
           d == IF ToldOfTools(B) THEN "instruction_texts" :> "tools" ELSE Nothing
<1>1. Sub(secret, "llm") = L /\ LlmFor("native", L) = L BY NativeSettles DEF Sub
<1>2. B = ((a @@ b) @@ c) @@ secret BY <1>1 DEF Booted, Has
<1>3. /\ DOMAIN a = {"llm"} /\ a["llm"] = short
      /\ DOMAIN b \subseteq {"max_context_tokens"} /\ DOMAIN c \subseteq {"instruction_texts"}
    BY DEF :>, Nothing
<1>4. NativeRead(short) BY NativeKept
<1>5. Without(short, {"max_context_tokens"}) = short /\ "max_context_tokens" \notin DOMAIN short
    BY DEF Without
<1> HIDE DEF short, a, b, B, L
<1>6. Has(B, "llm") /\ B["llm"] = short /\ IsFcn(B) /\ Sub(B, "llm") = short
    BY <1>2, <1>3, ZenonT(40) DEF @@, Has, IsFcn, Sub
<1>7. LlmFor("native", short) = short BY <1>4, NativeSettles
<1>8. Booted("native", B) = ((a @@ Nothing) @@ d) @@ B
    BY <1>5, <1>6, <1>7 DEF Booted, Has, a
<1>9. ToldOfTools(B) <=> ToldOfTools(secret)
    <2>1. ASSUME NEW s \in Sections \ {"llm"} PROVE Sub(B, s) = Sub(secret, s)
        <3>1. s \notin {"llm", "max_context_tokens", "instruction_texts"}
            BY DEF Sections
        <3>2. s \notin DOMAIN a /\ s \notin DOMAIN b /\ s \notin DOMAIN c
            BY <3>1, <1>3
        <3> HIDE DEF c
        <3> QED BY <3>2, <1>2, ZenonT(40) DEF Sub, Has, @@
    <2> QED BY <2>1, ToldByRows
<1>10. d = c BY <1>9
<1> HIDE DEF c, d
<1>11. \A k \in DOMAIN c : k \in DOMAIN B /\ B[k] = c[k]
    BY <1>2, <1>3, ZenonT(40) DEF @@
<1>12. DOMAIN Nothing = {} BY DEF Nothing
<1> DEFINE C == Booted("native", B)
<1>13. C = ((a @@ Nothing) @@ c) @@ B BY <1>8, <1>10
<1> HIDE DEF C
<1>14. DOMAIN C = DOMAIN B
    BY <1>3, <1>6, <1>11, <1>12, <1>13, ZenonT(40) DEF @@, Has
<1>15. \A k \in DOMAIN B : C[k] = B[k]
    BY <1>3, <1>6, <1>11, <1>12, <1>13, <1>14 DEF @@, Has
<1>16. C = B BY <1>6, <1>13, <1>14, <1>15, ZenonT(40) DEF IsFcn, @@
<1> QED BY <1>1, <1>16 DEF BootSettles, B, C

-----------------------------------------------------------------------------
(* Every section of the row was read by the sanitizer.                     *)

\* The empty section is that of a service without instances.
LEMMA NothingIsService == \A s : ServiceSection(s, Nothing)
BY NoRows, NothingHas DEF ServiceSection, Nothing, IsFcn

\* Which sanitizer reads which section.
LEMMA SectionOf ==
    ASSUME NEW s \in Services \cup {"proxy", "aws"}, NEW x
    PROVE  Section(s, x) = CASE s \in {"jira", "confluence"} -> Tracker(s, x)
                             [] s \in {"nexus", "splunk"} -> Repository(s, x)
                             [] s = "pgsql" -> Postgres(x)
                             [] s = "jenkins" -> Jenkins(x)
                             [] s = "aws" -> Aws(x)
                             [] s = "proxy" -> Proxy(x)
<1>1. CASE s \in {"jira", "confluence"} BY <1>1 DEF Section
<1>2. CASE s \in {"nexus", "splunk"} BY <1>2 DEF Section
<1>3. CASE s = "pgsql" BY <1>3 DEF Section
<1>4. CASE s = "jenkins" BY <1>4 DEF Section
<1>5. CASE s = "aws" BY <1>5 DEF Section
<1>6. CASE s = "proxy" BY <1>6 DEF Section
<1> QED BY <1>1, <1>2, <1>3, <1>4, <1>5, <1>6 DEF Services, Named

\* A service's section that was read has the shape of one.
LEMMA ServiceRead ==
    ASSUME NEW s \in Services, NEW m, SectionRead(s, m)
    PROVE  ServiceSection(s, m)
<1>1. CASE m = Nothing BY <1>1, NothingIsService
<1>2. CASE m # Nothing
    <2>1. PICK x : ListsHold(s, x) /\ m = Section(s, x) BY <1>2 DEF SectionRead
    <2>2. IsList(Rows(x, "instances")) BY <2>1, ListsByService
    <2>3. CASE s \in {"jira", "confluence"}
        BY <2>1, <2>2, <2>3, SectionOf, TrackerShape
    <2>4. CASE s \in {"nexus", "splunk"}
        BY <2>1, <2>2, <2>4, SectionOf, RepositoryShape
    <2>5. CASE s = "pgsql" BY <2>1, <2>2, <2>5, SectionOf, PostgresShape
    <2>6. CASE s = "jenkins" BY <2>1, <2>2, <2>6, SectionOf, JenkinsShape
    <2> QED BY <2>3, <2>4, <2>5, <2>6 DEF Services, Named
<1> QED BY <1>1, <1>2

\* The empty section is that of no proxies.
LEMMA NothingIsProxy == ProxySection(Nothing)
BY NoEntries, NothingHas DEF ProxySection, Nothing, Has

\* A section of proxies that was read has the shape of one.
LEMMA ProxyRead ==
    ASSUME NEW m, SectionRead("proxy", m)
    PROVE  ProxySection(m)
<1>1. CASE m = Nothing BY <1>1, NothingIsProxy
<1>2. CASE m # Nothing
    <2>1. PICK x : ListsHold("proxy", x) /\ m = Section("proxy", x)
        BY <1>2 DEF SectionRead
    <2>2. m = Proxy(x) BY <2>1 DEF Section
    <2> QED BY <2>1, <2>2, ListsByService, ProxyIsSection
<1> QED BY <1>1, <1>2

\* The rows of AWS are lists, and so are the regions of an account.
LEMMA AccountRegions ==
    ASSUME NEW r, IsList(Rows(r, "regions"))
    PROVE  IsList(Rows(Account(r), "regions"))
<1> DEFINE words  == Rows(r, "regions")
           mapped == [i \in DOMAIN words |-> Lower(words[i])]
           is     == {i \in DOMAIN mapped : mapped[i] \in Regions}
           kept   == At(mapped, is)
           js     == {i \in DOMAIN kept : \A j \in DOMAIN kept : j < i => kept[j] # kept[i]}
           chosen == At(kept, js)
           a == Texts(r, {"name", "account_id", "role", "role_arn", "profile"})
           b == Flags(r, {"enabled"})
           c == IF Empty(chosen) THEN Nothing ELSE "regions" :> chosen
           x == Account(r)
<1>1. x = (a @@ b) @@ c BY DEF Account, FirstPerKey, Filtered, Where, Map
<1>2. IsList(mapped) /\ is \in SUBSET DOMAIN mapped /\ js \in SUBSET DOMAIN kept
    BY MapIsList
<1> HIDE DEF mapped, is, js
<1>3. IsList(kept) BY <1>2, AtIsList
<1> HIDE DEF kept
<1>4. IsList(chosen) BY <1>2, <1>3, AtIsList
<1>5. ~Has(a, "regions") /\ ~Has(b, "regions") BY DEF Texts, Flags, Has
<1> HIDE DEF chosen
<1>6. Rows(c, "regions") = chosen \/ Rows(c, "regions") = <<>>
    BY NothingHas, OnlyHas
<1> HIDE DEF a, b, c, x
<1>7. Rows(x, "regions") = Rows(c, "regions") BY <1>1, <1>5, OverRows, OverHas
<1> QED BY <1>4, <1>6, <1>7, EmptyIsList DEF x

\* The accounts that are kept are a list, each with a list of regions.
LEMMA AccountsAreList ==
    ASSUME NEW rows, IsList(rows), \A i \in DOMAIN rows : IsList(Rows(rows[i], "regions"))
    PROVE  IsList(Accounts(rows)) /\ \A i \in DOMAIN Accounts(rows) : IsList(Rows(Accounts(rows)[i], "regions"))
<1> DEFINE is     == {i \in DOMAIN rows : Text(rows[i], "name") # "" /\ Text(rows[i], "account_id") \in AccountIds}
           kept   == At(rows, is)
           mapped == [i \in DOMAIN kept |-> Account(kept[i])]
           js     == {i \in DOMAIN mapped : \A j \in DOMAIN mapped : j < i => FoldedName(mapped[j]) # FoldedName(mapped[i])}
<1>1. Accounts(rows) = At(mapped, js)
    BY DEF Accounts, FirstPerKey, Filtered, Where, Map
<1>2. is \in SUBSET DOMAIN rows /\ js \in SUBSET DOMAIN mapped
    OBVIOUS
<1> HIDE DEF is, js
<1>3. IsList(kept) /\ \A n \in DOMAIN kept : \E i \in is : kept[n] = rows[i]
    BY <1>2, AtIsList, AtFromRows
<1> HIDE DEF kept
<1>4. IsList(mapped) BY <1>3, MapIsList
<1>5. DOMAIN mapped = DOMAIN kept /\ \A i \in DOMAIN kept : mapped[i] = Account(kept[i])
    OBVIOUS
<1> HIDE DEF mapped
<1>6. IsList(At(mapped, js)) /\ \A n \in DOMAIN At(mapped, js) : \E i \in js : At(mapped, js)[n] = mapped[i]
    BY <1>2, <1>4, AtIsList, AtFromRows
<1>7. ASSUME NEW n \in DOMAIN At(mapped, js) PROVE IsList(Rows(At(mapped, js)[n], "regions"))
    <2>1. PICK i \in js : At(mapped, js)[n] = mapped[i] BY <1>6
    <2>2. PICK j \in is : kept[i] = rows[j] BY <1>2, <1>3, <1>5
    <2>3. At(mapped, js)[n] = Account(rows[j]) /\ IsList(Rows(rows[j], "regions"))
        BY <2>1, <2>2, <1>2, <1>5
    <2> QED BY <2>3, AccountRegions
<1> QED BY <1>1, <1>6, <1>7

\* The clusters that are kept are a list.
LEMMA ClustersAreList ==
    ASSUME NEW rows, IsList(rows)
    PROVE  IsList(Clusters(rows))
<1> DEFINE is     == {i \in DOMAIN rows : UsableCluster(rows[i])}
           kept   == At(rows, is)
           js     == {i \in DOMAIN kept : \A j \in DOMAIN kept : j < i => ClusterKey(kept[j]) # ClusterKey(kept[i])}
           one    == At(kept, js)
           mapped == [i \in DOMAIN one |-> Cluster(one[i])]
<1>1. Clusters(rows) = mapped BY DEF Clusters, FirstPerKey, Filtered, Where, Map
<1>2. is \in SUBSET DOMAIN rows /\ js \in SUBSET DOMAIN kept
    OBVIOUS
<1> HIDE DEF is, js
<1>3. IsList(kept) BY <1>2, AtIsList
<1> HIDE DEF kept
<1>4. IsList(one) BY <1>2, <1>3, AtIsList
<1> HIDE DEF one
<1>5. IsList(mapped) BY <1>4, MapIsList
<1> QED BY <1>1, <1>5

\* The AWS section that was read has lists where lists belong.
LEMMA AwsRead ==
    ASSUME NEW x, ListsHold("aws", x)
    PROVE  ListsHold("aws", Aws(x))
<1> DEFINE a == Flags(x, {"enabled"})
           b == OneOf(x, "provider", AwsProviders)
           c == OneOf(x, "default_region", Regions)
           d == Texts(x, {"domain", "username", "password", "idp_url", "source_profile", "default_account",
                          "kubeconfig_path"})
           e == Within(x, "session_duration_seconds", 900, 43200)
           f == IF Has(x, "accounts") THEN "accounts" :> Accounts(x.accounts) ELSE Nothing
           g == IF Has(x, "eks_clusters") THEN "eks_clusters" :> Clusters(x.eks_clusters) ELSE Nothing
           p == Aws(x)
<1>1. p = (((((a @@ b) @@ c) @@ d) @@ e) @@ f) @@ g BY DEF Aws
<1>2. /\ DOMAIN a \subseteq {"enabled"} /\ DOMAIN b \subseteq {"provider"} /\ DOMAIN c \subseteq {"default_region"}
      /\ DOMAIN d \subseteq {"domain", "username", "password", "idp_url", "source_profile", "default_account",
                          "kubeconfig_path"}
    BY KeptField DEF Flags, OneOf, Texts
<1>3. DOMAIN e \subseteq {"session_duration_seconds"} BY DEF Within, Nothing, :>
<1>4. /\ IsList(Rows(x, "accounts")) /\ IsList(Rows(x, "eks_clusters"))
      /\ \A i \in DOMAIN Rows(x, "accounts") : IsList(Rows(x["accounts"][i], "regions"))
    BY ListsByService
<1>5. /\ Has(f, "accounts") <=> Has(x, "accounts")
      /\ IsList(Rows(f, "accounts")) /\ \A i \in DOMAIN Rows(f, "accounts") : IsList(Rows(Rows(f, "accounts")[i], "regions"))
    <2>1. CASE Has(x, "accounts")
        <3>1. Rows(x, "accounts") = x["accounts"] BY <2>1 DEF Rows
        <3>2. f = "accounts" :> Accounts(x["accounts"]) BY <2>1
        <3>3. IsList(x["accounts"]) /\ \A i \in DOMAIN x["accounts"] : IsList(Rows(x["accounts"][i], "regions"))
            BY <3>1, <1>4
        <3>4. IsList(Accounts(x["accounts"])) /\ \A i \in DOMAIN Accounts(x["accounts"]) : IsList(Rows(Accounts(x["accounts"])[i], "regions"))
            BY <3>3, AccountsAreList
        <3> HIDE DEF f
        <3>5. Has(f, "accounts") /\ Rows(f, "accounts") = Accounts(x["accounts"])
            BY <3>2, OnlyHas
        <3> QED BY <2>1, <3>4, <3>5
    <2>2. CASE ~Has(x, "accounts") BY <2>2, NothingHas, EmptyIsList
    <2> QED BY <2>1, <2>2
<1>6. (Has(g, "eks_clusters") <=> Has(x, "eks_clusters")) /\ IsList(Rows(g, "eks_clusters")) /\ DOMAIN f \subseteq {"accounts"}
      /\ DOMAIN g \subseteq {"eks_clusters"}
    <2>3. DOMAIN f \subseteq {"accounts"} /\ DOMAIN g \subseteq {"eks_clusters"}
        BY DEF Nothing, :>
    <2>1. CASE Has(x, "eks_clusters")
        <3>1. Rows(x, "eks_clusters") = x["eks_clusters"] BY <2>1 DEF Rows
        <3>2. g = "eks_clusters" :> Clusters(x["eks_clusters"]) BY <2>1
        <3>4. IsList(Clusters(x["eks_clusters"])) BY <3>1, <1>4, ClustersAreList
        <3> HIDE DEF f, g
        <3>5. Has(g, "eks_clusters") /\ Rows(g, "eks_clusters") = Clusters(x["eks_clusters"])
            BY <3>2, OnlyHas
        <3> QED BY <2>1, <3>4, <3>5, <2>3
    <2>2. CASE ~Has(x, "eks_clusters") BY <2>2, <2>3, NothingHas, EmptyIsList
    <2> QED BY <2>1, <2>2
<1> HIDE DEF a, b, c, d, e, f, g, p
<1>7. ~Has((((a @@ b) @@ c) @@ d) @@ e, "accounts") /\ ~Has((((a @@ b) @@ c) @@ d) @@ e, "eks_clusters")
    BY <1>2, <1>3 DEF Has, @@
<1>8. Rows(p, "accounts") = Rows(f, "accounts")
    <2>1. ~Has(g, "accounts") BY <1>6 DEF Has
    <2> DEFINE y == (((a @@ b) @@ c) @@ d) @@ e
    <2> HIDE DEF y
    <2>2. Rows(y @@ f, "accounts") = Rows(f, "accounts") /\ (Has(y @@ f, "accounts") <=> Has(f, "accounts"))
        BY <1>7, OverRows, OverHas DEF y
    <2>3. p = (y @@ f) @@ g BY <1>1 DEF y
    <2>4. Rows(p, "accounts") = IF Has(f, "accounts") THEN Rows(f, "accounts") ELSE Rows(g, "accounts")
        BY <2>2, <2>3, OverRows
    <2> QED BY <2>1, <2>4 DEF Rows
<1>9. Rows(p, "eks_clusters") = Rows(g, "eks_clusters")
    <2>1. ~Has(f, "eks_clusters") BY <1>6 DEF Has
    <2> DEFINE y == (((a @@ b) @@ c) @@ d) @@ e
    <2> HIDE DEF y
    <2>3. p = (y @@ f) @@ g BY <1>1 DEF y
    <2> QED BY <2>1, <2>3, <1>7, OverRows, OverHas DEF y
<1>10. \A i \in DOMAIN Rows(p, "accounts") : Rows(p, "accounts") = p["accounts"]
    BY EmptyIsList DEF Rows
<1> QED BY <1>5, <1>6, <1>8, <1>9, <1>10, ListsByService DEF p

\* So has the empty section.
LEMMA NothingLists == \A s : ListsHold(s, Nothing)
<1>1. \A k : Rows(Nothing, k) = <<>> BY NothingHas
<1> QED BY <1>1, EmptyIsList DEF ListsHold

\* A section that was read has lists where lists belong.
LEMMA ReadLists ==
    ASSUME NEW s, NEW m, SectionRead(s, m)
    PROVE  ListsHold(s, m)
<1>1. CASE s \in Services
    <2>1. IsList(Rows(m, "instances"))
        BY <1>1, ServiceRead DEF ServiceSection, AreSites, AreDatabases
    <2> QED BY <1>1, <2>1, ListsByService
<1>2. CASE s = "proxy"
    <2>1. IsList(Rows(m, "proxies")) BY <1>2, ProxyRead DEF ProxySection, AreEntries
    <2> QED BY <1>2, <2>1, ListsByService
<1>3. CASE s = "aws"
    <2>1. CASE m = Nothing BY <2>1, NothingLists
    <2>2. CASE m # Nothing
        <3>1. PICK x : ListsHold("aws", x) /\ m = Section("aws", x)
            BY <1>3, <2>2 DEF SectionRead
        <3>2. Section("aws", x) = Aws(x) BY DEF Section
        <3> QED BY <1>3, <3>1, <3>2, AwsRead
    <2> QED BY <2>1, <2>2
<1>4. CASE s \notin Services \cup {"proxy", "aws"} BY <1>4, ListsByService
<1> QED BY <1>1, <1>2, <1>3, <1>4

\* A row that was read has lists where lists belong.
LEMMA RowLists ==
    ASSUME NEW row, RowRead(row)
    PROVE  \A s : ListsHold(s, Sub(row, s))
<1>1. \A m : ListsHold("llm", m) BY ListsByService DEF Services, Named
<1> QED BY <1>1, ReadLists DEF RowRead

\* What is saved was read, whatever the lists held.
LEMMA SavedIsRead ==
    ASSUME NEW cat, NEW x, \A s : ListsHold(s, Sub(x, s))
    PROVE  RowRead(Canonical(cat, Sanitized(x)))
<1> DEFINE y == [s \in DOMAIN x \cap Sections |-> Section(s, x[s])]
           z == Sanitized(x)
           c == Canonical(cat, z)
<1>1. z = [s \in {t \in DOMAIN y : DOMAIN y[t] # {}} |-> y[s]]
    BY DEF Sanitized, Filled
<1>2. \A s \in DOMAIN y : s \in DOMAIN x /\ y[s] = Section(s, x[s])
    OBVIOUS
<1> HIDE DEF y
<1>3. \A s \in DOMAIN z : s \in DOMAIN y /\ z[s] = y[s] BY <1>1
<1> HIDE DEF z
<1>4. \A s : s # "llm" => Sub(c, s) = Sub(z, s)
    <2>1. CASE "llm" \notin DOMAIN z BY <2>1 DEF Canonical
    <2>2. CASE "llm" \in DOMAIN z
        <3> DEFINE a == KeptMap("llm", CanonicalLlm(cat, z.llm))
                   b == Without(z, {"llm"})
        <3>1. c = a @@ b BY <2>2 DEF Canonical
        <3>2. DOMAIN a \subseteq {"llm"} BY KeptMapField
        <3>3. DOMAIN b = DOMAIN z \ {"llm"} /\ \A k \in DOMAIN b : b[k] = z[k]
            BY DEF Without
        <3> HIDE DEF a, b, c
        <3> QED BY <3>1, <3>2, <3>3 DEF Sub, Has, @@
    <2> QED BY <2>1, <2>2
<1>5. ASSUME NEW s PROVE SectionRead(s, Sub(z, s))
    <2>1. CASE s \notin DOMAIN z BY <2>1 DEF Sub, Has, SectionRead
    <2>2. CASE s \in DOMAIN z
        <3>1. Sub(z, s) = Section(s, x[s]) /\ Sub(x, s) = x[s]
            BY <2>2, <1>2, <1>3 DEF Sub, Has
        <3>2. ListsHold(s, x[s]) BY <3>1
        <3> QED BY <3>1, <3>2 DEF SectionRead
    <2> QED BY <2>1, <2>2
<1>6. \A s : s # "llm" => SectionRead(s, Sub(c, s))
    <2> HIDE DEF c
    <2> QED BY <1>4, <1>5
<1> HIDE DEF c
<1>7. RowRead(c) BY <1>6 DEF RowRead
<1> QED BY <1>7 DEF c, z

-----------------------------------------------------------------------------
\* A member's first row holds nothing, which is what is read of nothing.
LEMMA InitIsRead == Init => ConfigRead
<1>1. \A s : Sub(Nothing, s) = Nothing BY NothingHas
<1> QED BY <1>1 DEF Init, FormInit, ConfigRead, RowRead, SectionRead

\* A whole config that is posted has lists where lists belong.
LEMMA GivenLists ==
    ASSUME NEW given \in Given
    PROVE  \A s : ListsHold(s, Sub(given, s))
BY FormsAssumption, NothingLists DEF Sub, Has

\* Every save, and every step of the catalog's own, leaves a row that was read.
LEMMA NextIsRead ==
    ASSUME ConfigRead, [Next]_<<formVars, catVars, part>>
    PROVE  ConfigRead'
<1> USE DEF ConfigRead
<1>1. ASSUME NEW form \in Forms, Post(form) PROVE RowRead(config')
    <2>1. \A s : ListsHold(s, Sub(config, s)) BY RowLists
    <2>2. \A s : ListsHold(s, Sub(Merged(config, form), s)) BY <2>1, MergedLists
    <2>3. config' = Canonical(catalog, Sanitized(Merged(config, form)))
        BY <1>1 DEF Post, Saved
    <2> QED BY <2>2, <2>3, SavedIsRead
<1>2. ASSUME NEW given \in Given, Replace(given) PROVE RowRead(config')
    <2>1. \A s : ListsHold(s, Sub(given, s)) BY GivenLists
    <2>2. config' = Canonical(catalog, Sanitized(given)) BY <1>2 DEF Replace
    <2> QED BY <2>1, <2>2, SavedIsRead
<1>3. (\E form \in Forms : Refuse(form)) => config' = config BY DEF Refuse, formVars
<1>4. (\E cat \in Catalogs : Registered(cat)) => config' = config BY DEF Registered
<1>5. FormNext => RowRead(config') BY <1>1, <1>2, <1>3, <1>4 DEF FormNext
<1> QED BY <1>5 DEF Next, formVars

\* Whatever forms and whole configs are posted, in any order, the row of a member's
\* settings is one the sanitizer reads (web.py and runtime_profile_service.py pass every
\* config through sanitize_runtime_profile_config_dict before they store it).
THEOREM RowsAreRead == Spec => []ConfigRead
BY InitIsRead, NextIsRead, PTL DEF Spec

\* ProxiesFollow holds of every behaviour: every connection leaves through the proxy the
\* Proxy connector says, an exempted host through none, and an image from before named
\* proxies through the same one when nothing is assigned.
THEOREM ConnectionsFollow == Spec => []ProxiesFollow
<1> USE DEF ConfigRead
<1>1. ConfigRead => ProxiesFollow
    <2> SUFFICES ASSUME RowRead(config) PROVE EgressFollows(config) /\ OldImagesAgree(config)
        BY DEF ProxiesFollow
    <2>1. ProxySection(Sub(config, "proxy")) BY ProxyRead DEF RowRead
    <2>2. IsList(Rows(Sub(config, "proxy"), "proxies"))
        BY <2>1 DEF ProxySection, AreEntries
    <2> QED BY <2>1, <2>2, EgressFollowsAny, OldImagesAgreeAny
<1> QED BY <1>1, RowsAreRead, PTL

\* ReadersFollow holds of every behaviour: the Connectors list, the instructions and the
\* Test button agree on the services with instances (a Jira or Confluence row that is switched
\* off may be tried all the same), and on GitHub and BrowserStack as far as ReadersAgree says;
\* nothing is said of AWS and the model.  A second reading of the Secret changes nothing.
THEOREM ReadersAgreeAlways == Spec => []ReadersFollow
<1> USE DEF ConfigRead
<1>1. ConfigRead => ReadersFollow
    <2> DEFINE default == "provider" :> "github_copilot" @@ "model" :> "auto"
               secret  == SecretConfig(catalog, config, default, TRUE)
    <2> SUFFICES ASSUME RowRead(config) PROVE ReadersAgree(config) /\ BootSettles(secret)
        BY DEF ReadersFollow
    <2>1. \A s \in Services : ServiceSection(s, Sub(config, s))
        BY ServiceRead DEF RowRead, Services, Named
    <2>2. DOMAIN default # {} BY DEF @@, :>
    <2>3. secret = SecretOf(Canonical(catalog, Sanitized(config)), default, TRUE)
        BY DEF SecretConfig
    <2> HIDE DEF default, secret
    <2>4. Has(secret, "llm") /\ NativeRead(secret["llm"]) /\ IsFcn(secret)
        BY <2>2, <2>3, SecretLlm
    <2> QED BY <2>1, <2>4, ReadersAgreeAny, BootedTwice
<1> QED BY <1>1, RowsAreRead, PTL

-----------------------------------------------------------------------------
(* Secrets: where a config may hold some, and how they are hidden.         *)

\* What is in a map is one of its maps or of its rows.
LEMMA InsideOf ==
    ASSUME NEW node, NEW x \in Inside(node)
    PROVE  \/ \E k \in DOMAIN node[2] \cap MapFields : x = <<node[1] \o <<k>>, node[2][k]>>
           \/ \E k \in DOMAIN node[2] \cap RowFields : \E i \in DOMAIN node[2][k] : x = <<node[1] \o <<k, i>>, node[2][k][i]>>
BY DEF Inside

\* What is in a clean map is clean.
LEMMA InsideClean ==
    ASSUME NEW node, NEW x \in Inside(node)
    PROVE  /\ Clean1(node[2]) => Clean0(x[2])
           /\ Clean2(node[2]) => Clean1(x[2])
           /\ Clean3(node[2]) => Clean2(x[2])
<1>1. \/ \E k \in DOMAIN node[2] \cap MapFields : x[2] = node[2][k]
      \/ \E k \in DOMAIN node[2] \cap RowFields : \E i \in DOMAIN node[2][k] : x[2] = node[2][k][i]
    <2>1. CASE \E k \in DOMAIN node[2] \cap MapFields : x = <<node[1] \o <<k>>, node[2][k]>>
        BY <2>1
    <2>2. CASE \E k \in DOMAIN node[2] \cap RowFields : \E i \in DOMAIN node[2][k] : x = <<node[1] \o <<k, i>>, node[2][k][i]>>
        BY <2>2
    <2> QED BY <2>1, <2>2, InsideOf
<1>2. Clean1(node[2]) => Clean0(x[2]) BY <1>1 DEF Clean1
<1>3. Clean2(node[2]) => Clean1(x[2]) BY <1>1 DEF Clean2
<1>4. Clean3(node[2]) => Clean2(x[2]) BY <1>1 DEF Clean3
<1> QED BY <1>2, <1>3, <1>4

\* A map of a config is at one of four depths.
LEMMA MapsOf ==
    ASSUME NEW c, NEW x \in Maps(c)
    PROVE  \/ x = <<<<>>, c>>
           \/ x \in Inside(<<<<>>, c>>)
           \/ \E y \in Inside(<<<<>>, c>>) : x \in Inside(y)
           \/ \E y \in Inside(<<<<>>, c>>) : \E z \in Inside(y) : x \in Inside(z)
BY DEF Maps, Deeper

\* A config is clean when none of its maps has a secret.
LEMMA CleanHasNone ==
    ASSUME NEW c, Clean3(c)
    PROVE  Secrets(c) = {}
<1> DEFINE top == <<<<>>, c>>
<1>1. top[2] = c
    OBVIOUS
<1>2. \A m : (Clean1(m) => Clean0(m)) /\ (Clean2(m) => Clean0(m)) /\ (Clean3(m) => Clean0(m))
    BY DEF Clean1, Clean2, Clean3
<1> HIDE DEF top
<1>3. \A x \in Inside(top) : Clean2(x[2]) BY <1>1, InsideClean
<1>4. \A y \in Inside(top) : \A x \in Inside(y) : Clean1(x[2]) BY <1>3, InsideClean
<1>5. \A y \in Inside(top) : \A z \in Inside(y) : \A x \in Inside(z) : Clean0(x[2])
    BY <1>4, InsideClean
<1>6. ASSUME NEW x \in Maps(c) PROVE Clean0(x[2])
    BY <1>1, <1>2, <1>3, <1>4, <1>5, MapsOf DEF top
<1>7. ASSUME NEW x \in Maps(c) PROVE SecretsAt(x) = {} BY <1>6 DEF SecretsAt, Clean0
<1> QED BY <1>7 DEF Secrets

-----------------------------------------------------------------------------
(* Paths: where in a config a secret is.                                   *)

\* The path to something in a map starts as the path to the map.
LEMMA PathGoesOn ==
    ASSUME NEW p, IsPath(p), NEW k, NEW i
    PROVE  /\ IsPath(p \o <<k>>) /\ (p \o <<k>>)[1] = p[1]
           /\ IsPath(p \o <<k, i>>) /\ (p \o <<k, i>>)[1] = p[1]
<1>1. PICK S : p \in Seq(S) BY DEF IsPath
<1> DEFINE T == S \cup {k, i}
<1>2. p \in Seq(T) /\ <<k>> \in Seq(T) /\ <<k, i>> \in Seq(T)
    <2>1. p \in Seq(T) BY <1>1, SeqMonotonic
    <2> QED BY <2>1
<1> HIDE DEF T
<1>3. Len(p) \in Nat /\ Len(p) # 0 BY <1>2, EmptySeq, LenProperties DEF IsPath
<1>4. Len(<<k>>) = 1 /\ Len(<<k, i>>) = 2
    OBVIOUS
<1>5. /\ p \o <<k>> \in Seq(T) /\ Len(p \o <<k>>) = Len(p) + 1 /\ (p \o <<k>>)[1] = p[1]
    BY <1>2, <1>3, <1>4, ConcatProperties
<1>6. /\ p \o <<k, i>> \in Seq(T) /\ Len(p \o <<k, i>>) = Len(p) + 2 /\ (p \o <<k, i>>)[1] = p[1]
    BY <1>2, <1>3, <1>4, ConcatProperties
<1>7. Len(<<>>) = 0
    OBVIOUS
<1> QED BY <1>3, <1>5, <1>6, <1>7 DEF IsPath

\* The path to something in the config starts with its section.
LEMMA PathStarts ==
    ASSUME NEW k, NEW i
    PROVE  /\ IsPath(<<>> \o <<k>>) /\ (<<>> \o <<k>>)[1] = k
           /\ IsPath(<<>> \o <<k, i>>) /\ (<<>> \o <<k, i>>)[1] = k
<1> DEFINE T == {k, i}
<1>1. <<k>> \in Seq(T) /\ <<k, i>> \in Seq(T)
    OBVIOUS
<1>2. <<>> \o <<k>> = <<k>> /\ <<>> \o <<k, i>> = <<k, i>> BY <1>1, ConcatEmptySeq
<1>3. <<k>> # <<>> /\ <<k, i>> # <<>> /\ <<k>>[1] = k /\ <<k, i>>[1] = k
    OBVIOUS
<1> QED BY <1>1, <1>2, <1>3 DEF IsPath

\* What is in a map has a path that starts as the map's.
LEMMA InsideGoesOn ==
    ASSUME NEW node, IsPath(node[1]), NEW x \in Inside(node)
    PROVE  IsPath(x[1]) /\ x[1][1] = node[1][1]
<1> DEFINE p == node[1]
<1>1. CASE \E k \in DOMAIN node[2] \cap MapFields : x = <<p \o <<k>>, node[2][k]>>
    <2>1. PICK k \in DOMAIN node[2] \cap MapFields : x = <<p \o <<k>>, node[2][k]>>
        BY <1>1
    <2> HIDE DEF p
    <2>2. x[1] = p \o <<k>> BY <2>1
    <2>3. IsPath(p) BY DEF p
    <2>4. IsPath(p \o <<k>>) /\ (p \o <<k>>)[1] = p[1] BY <2>3, PathGoesOn
    <2> QED BY <2>2, <2>4 DEF p
<1>2. CASE \E k \in DOMAIN node[2] \cap RowFields : \E i \in DOMAIN node[2][k] : x = <<p \o <<k, i>>, node[2][k][i]>>
    <2>1. PICK k \in DOMAIN node[2] \cap RowFields : \E i \in DOMAIN node[2][k] : x = <<p \o <<k, i>>, node[2][k][i]>>
        BY <1>2
    <2>2. PICK i \in DOMAIN node[2][k] : x = <<p \o <<k, i>>, node[2][k][i]>>
        BY <2>1
    <2> HIDE DEF p
    <2>3. x[1] = p \o <<k, i>> BY <2>2
    <2>4. IsPath(p) BY DEF p
    <2>5. IsPath(p \o <<k, i>>) /\ (p \o <<k, i>>)[1] = p[1] BY <2>4, PathGoesOn
    <2> QED BY <2>3, <2>5 DEF p
<1> QED BY <1>1, <1>2, InsideOf

\* Maps that are in a config are there under a key of it, and in every config with that key.
LEMMA InsideConfig ==
    ASSUME NEW c, NEW x \in Inside(<<<<>>, c>>)
    PROVE  /\ IsPath(x[1]) /\ x[1][1] \in DOMAIN c
           /\ \A d : x[1][1] \in DOMAIN d /\ d[x[1][1]] = c[x[1][1]] => x \in Inside(<<<<>>, d>>)
<1>1. /\ \/ \E k \in DOMAIN c \cap MapFields : x = <<<<>> \o <<k>>, c[k]>>
         \/ \E k \in DOMAIN c \cap RowFields : \E i \in DOMAIN c[k] : x = <<<<>> \o <<k, i>>, c[k][i]>>
      /\ \A d : \/ \E k \in DOMAIN d \cap MapFields : x = <<<<>> \o <<k>>, d[k]>>
                \/ \E k \in DOMAIN d \cap RowFields : \E i \in DOMAIN d[k] : x = <<<<>> \o <<k, i>>, d[k][i]>>
                => x \in Inside(<<<<>>, d>>)
    BY DEF Inside
<1>2. CASE \E k \in DOMAIN c \cap MapFields : x = <<<<>> \o <<k>>, c[k]>>
    <2>1. PICK k \in DOMAIN c \cap MapFields : x = <<<<>> \o <<k>>, c[k]>> BY <1>2
    <2>2. x[1] = <<>> \o <<k>> BY <2>1
    <2>3. IsPath(x[1]) /\ x[1][1] = k BY <2>2, PathStarts
    <2> QED BY <2>1, <2>3, <1>1
<1>3. CASE \E k \in DOMAIN c \cap RowFields : \E i \in DOMAIN c[k] : x = <<<<>> \o <<k, i>>, c[k][i]>>
    <2>1. PICK k \in DOMAIN c \cap RowFields : \E i \in DOMAIN c[k] : x = <<<<>> \o <<k, i>>, c[k][i]>>
        BY <1>3
    <2>2. PICK i \in DOMAIN c[k] : x = <<<<>> \o <<k, i>>, c[k][i]>> BY <2>1
    <2>4. x[1] = <<>> \o <<k, i>> BY <2>2
    <2>3. IsPath(x[1]) /\ x[1][1] = k BY <2>4, PathStarts
    <2> QED BY <2>1, <2>2, <2>3, <1>1
<1> QED BY <1>1, <1>2, <1>3

\* A secret starts with a key of the config, and is one of every config that has the same
\* under that key.
LEMMA SecretStarts ==
    ASSUME NEW c, NEW secret \in Secrets(c)
    PROVE  /\ secret[1][1] \in DOMAIN c
           /\ \A d : secret[1][1] \in DOMAIN d /\ d[secret[1][1]] = c[secret[1][1]] => secret \in Secrets(d)
<1> DEFINE top == <<<<>>, c>>
<1>1. PICK x \in Maps(c) : secret \in SecretsAt(x) BY DEF Secrets
<1>2. PICK k \in DOMAIN x[2] \cap SecretFields : x[2][k] # "" /\ secret = <<x[1] \o <<k>>, x[2][k]>>
    BY <1>1 DEF SecretsAt
<1>3. secret[1] = x[1] \o <<k>> BY <1>2
<1>4. \A d : x \in Maps(d) => secret \in Secrets(d) BY <1>1 DEF Secrets
<1>5. CASE x = top
    <2>1. x[1] = <<>> /\ x[2] = c BY <1>5
    <2>2. secret = <<<<>> \o <<k>>, c[k]>> /\ k \in DOMAIN c /\ c[k] # ""
        BY <1>2, <2>1
    <2>3. secret[1][1] = k BY <1>3, <2>1, PathStarts
    <2>4. ASSUME NEW d, k \in DOMAIN d, d[k] = c[k] PROVE secret \in Secrets(d)
        <3> DEFINE t == <<<<>>, d>>
        <3>1. t \in Maps(d) /\ t[1] = <<>> /\ t[2] = d BY DEF Maps
        <3> HIDE DEF t
        <3>2. secret \in SecretsAt(t) BY <3>1, <2>2, <2>4, <1>2 DEF SecretsAt
        <3> QED BY <3>1, <3>2 DEF Secrets
    <2> QED BY <2>2, <2>3, <2>4
<1>6. CASE x # top
    <2>1. PICK y \in Inside(top) : x = y \/ x \in Inside(y) \/ \E z \in Inside(y) : x \in Inside(z)
        BY <1>6, MapsOf
    <2>2. IsPath(y[1]) /\ y[1][1] \in DOMAIN c BY <2>1, InsideConfig
    <2>3. \A z \in Inside(y) : IsPath(z[1]) /\ z[1][1] = y[1][1]
        BY <2>2, InsideGoesOn
    <2>4. IsPath(x[1]) /\ x[1][1] = y[1][1] BY <2>1, <2>2, <2>3, InsideGoesOn
    <2>5. secret[1][1] = y[1][1]
        <3> DEFINE p == x[1]
        <3>1. IsPath(p) /\ secret[1] = p \o <<k>> BY <2>4, <1>3
        <3> HIDE DEF p
        <3>2. (p \o <<k>>)[1] = p[1] BY <3>1, PathGoesOn
        <3>3. secret[1][1] = p[1] BY <3>1, <3>2
        <3> QED BY <3>3, <2>4 DEF p
    <2>6. ASSUME NEW d, y[1][1] \in DOMAIN d, d[y[1][1]] = c[y[1][1]] PROVE x \in Maps(d)
        <3>1. y \in Inside(<<<<>>, d>>) BY <2>6, InsideConfig
        <3> QED BY <3>1, <2>1 DEF Maps, Deeper
    <2> QED BY <2>2, <2>5, <2>6, <1>4
<1> QED BY <1>5, <1>6

\* The audit row of a change names the section of every secret it names.
LEMMA AuditCovers ==
    ASSUME NEW a, NEW b
    PROVE  Covers(Audited(a, b))
<1>1. ASSUME NEW c, NEW d, NEW secret \in Secrets(c) \ Secrets(d)
      PROVE  secret[1][1] \in DOMAIN c /\ Differs(c, d, secret[1][1]) /\ Differs(d, c, secret[1][1])
    BY <1>1, SecretStarts DEF Differs
<1>2. ASSUME NEW path \in Audited(a, b).secrets PROVE path[1] \in Audited(a, b).sections
    <2>1. PICK secret \in (Secrets(a) \ Secrets(b)) \cup (Secrets(b) \ Secrets(a)) : path = secret[1]
        BY <1>2 DEF Audited
    <2>2. path[1] \in DOMAIN a \cup DOMAIN b /\ Differs(a, b, path[1]) BY <2>1, <1>1
    <2> QED BY <2>2 DEF Audited
<1> QED BY <1>2 DEF Covers

-----------------------------------------------------------------------------
(* The Secret: each secret of the config, sealed where it is.              *)

\* No field is of two kinds.
LEMMA KindsApart == SecretFields \cap MapFields = {} /\ SecretFields \cap RowFields = {} /\ MapFields \cap RowFields = {}
BY DEF SecretFields, MapFields, RowFields, Sections

\* Sealing seals at every depth.
LEMMA SealingSeals == \A c : Sealed3(Sealed(c), c)
<1>1. \A m : Sealed0(SealedLeaf(m), m) BY DEF Sealed0, SealedLeaf
<1>2. \A m : Sealed1(SealedInner(m), m)
    <2> TAKE m
    <2> DEFINE w == SealedInner(m)
    <2>1. DOMAIN w = DOMAIN m BY DEF SealedInner, SealedOver
    <2>2. /\ \A k \in DOMAIN m \cap SecretFields : w[k] = SealedField(m, k)
          /\ \A k \in DOMAIN m \cap MapFields : w[k] = SealedLeaf(m[k])
          /\ \A k \in DOMAIN m \cap RowFields : w[k] = [i \in DOMAIN m[k] |-> SealedLeaf(m[k][i])]
        BY KindsApart DEF SealedInner, SealedOver, Map
    <2> HIDE DEF w
    <2> QED BY <2>1, <2>2, <1>1 DEF Sealed1, Sealed0, w
<1>3. \A m : Sealed2(SealedSection(m), m)
    <2> TAKE m
    <2> DEFINE w == SealedSection(m)
    <2>1. DOMAIN w = DOMAIN m BY DEF SealedSection, SealedOver
    <2>2. /\ \A k \in DOMAIN m \cap SecretFields : w[k] = SealedField(m, k)
          /\ \A k \in DOMAIN m \cap MapFields : w[k] = SealedInner(m[k])
          /\ \A k \in DOMAIN m \cap RowFields : w[k] = [i \in DOMAIN m[k] |-> SealedInner(m[k][i])]
        BY KindsApart DEF SealedSection, SealedOver, Map
    <2> HIDE DEF w
    <2> QED BY <2>1, <2>2, <1>2 DEF Sealed2, Sealed0, w
<1> TAKE m
<1> DEFINE w == Sealed(m)
<1>4. DOMAIN w = DOMAIN m BY DEF Sealed, SealedOver
<1>5. /\ \A k \in DOMAIN m \cap SecretFields : w[k] = SealedField(m, k)
      /\ \A k \in DOMAIN m \cap MapFields : w[k] = SealedSection(m[k])
      /\ \A k \in DOMAIN m \cap RowFields : w[k] = [i \in DOMAIN m[k] |-> SealedSection(m[k][i])]
    BY KindsApart DEF Sealed, SealedOver, Map
<1> HIDE DEF w
<1> QED BY <1>4, <1>5, <1>3 DEF Sealed3, Sealed0, w

\* What is in a sealed map is sealed, at the place it was.
LEMMA InsideSealed ==
    ASSUME NEW v, NEW n, v[1] = n[1], DOMAIN v[2] = DOMAIN n[2], NEW x \in Inside(v),
           \A k \in DOMAIN n[2] \cap RowFields : DOMAIN v[2][k] = DOMAIN n[2][k]
    PROVE  \E y \in Inside(n) : x[1] = y[1] /\ SamePlace(v[2], n[2], x[2], y[2])
<1>1. CASE \E k \in DOMAIN v[2] \cap MapFields : x = <<v[1] \o <<k>>, v[2][k]>>
    <2>1. PICK k \in DOMAIN v[2] \cap MapFields : x = <<v[1] \o <<k>>, v[2][k]>>
        BY <1>1
    <2> DEFINE y == <<n[1] \o <<k>>, n[2][k]>>
    <2>2. y \in Inside(n) BY <2>1 DEF Inside
    <2>3. x[1] = y[1] /\ x[2] = v[2][k] /\ y[2] = n[2][k] BY <2>1
    <2> HIDE DEF y
    <2>4. SamePlace(v[2], n[2], x[2], y[2]) BY <2>1, <2>3 DEF SamePlace
    <2> QED BY <2>2, <2>3, <2>4
<1>2. CASE \E k \in DOMAIN v[2] \cap RowFields : \E i \in DOMAIN v[2][k] : x = <<v[1] \o <<k, i>>, v[2][k][i]>>
    <2>1. PICK k \in DOMAIN v[2] \cap RowFields : \E i \in DOMAIN v[2][k] : x = <<v[1] \o <<k, i>>, v[2][k][i]>>
        BY <1>2
    <2>2. PICK i \in DOMAIN v[2][k] : x = <<v[1] \o <<k, i>>, v[2][k][i]>> BY <2>1
    <2> DEFINE y == <<n[1] \o <<k, i>>, n[2][k][i]>>
    <2>3. k \in DOMAIN n[2] \cap RowFields /\ i \in DOMAIN n[2][k] BY <2>1, <2>2
    <2>4. y \in Inside(n) BY <2>3 DEF Inside
    <2>5. x[1] = y[1] /\ x[2] = v[2][k][i] /\ y[2] = n[2][k][i] BY <2>2
    <2> HIDE DEF y
    <2>6. SamePlace(v[2], n[2], x[2], y[2]) BY <2>3, <2>5 DEF SamePlace
    <2> QED BY <2>4, <2>5, <2>6
<1> QED BY <1>1, <1>2, InsideOf

\* So depth by depth.
LEMMA SealedDown ==
    ASSUME NEW v, NEW n, v[1] = n[1], NEW x \in Inside(v)
    PROVE  /\ Sealed1(v[2], n[2]) => \E y \in Inside(n) : x[1] = y[1] /\ Sealed0(x[2], y[2])
           /\ Sealed2(v[2], n[2]) => \E y \in Inside(n) : x[1] = y[1] /\ Sealed1(x[2], y[2])
           /\ Sealed3(v[2], n[2]) => \E y \in Inside(n) : x[1] = y[1] /\ Sealed2(x[2], y[2])
<1>1. ASSUME Sealed1(v[2], n[2]) PROVE \E y \in Inside(n) : x[1] = y[1] /\ Sealed0(x[2], y[2])
    <2>1. DOMAIN v[2] = DOMAIN n[2] /\ \A k \in DOMAIN n[2] \cap RowFields : DOMAIN v[2][k] = DOMAIN n[2][k]
        BY <1>1 DEF Sealed1, Sealed0
    <2>2. PICK y \in Inside(n) : x[1] = y[1] /\ SamePlace(v[2], n[2], x[2], y[2])
        BY <2>1, InsideSealed
    <2>3. Sealed0(x[2], y[2]) BY <1>1, <2>2 DEF Sealed1, SamePlace
    <2> QED BY <2>2, <2>3
<1>2. ASSUME Sealed2(v[2], n[2]) PROVE \E y \in Inside(n) : x[1] = y[1] /\ Sealed1(x[2], y[2])
    <2>1. DOMAIN v[2] = DOMAIN n[2] /\ \A k \in DOMAIN n[2] \cap RowFields : DOMAIN v[2][k] = DOMAIN n[2][k]
        BY <1>2 DEF Sealed2, Sealed0
    <2>2. PICK y \in Inside(n) : x[1] = y[1] /\ SamePlace(v[2], n[2], x[2], y[2])
        BY <2>1, InsideSealed
    <2>3. Sealed1(x[2], y[2]) BY <1>2, <2>2 DEF Sealed2, SamePlace
    <2> QED BY <2>2, <2>3
<1>3. ASSUME Sealed3(v[2], n[2]) PROVE \E y \in Inside(n) : x[1] = y[1] /\ Sealed2(x[2], y[2])
    <2>1. DOMAIN v[2] = DOMAIN n[2] /\ \A k \in DOMAIN n[2] \cap RowFields : DOMAIN v[2][k] = DOMAIN n[2][k]
        BY <1>3 DEF Sealed3, Sealed0
    <2>2. PICK y \in Inside(n) : x[1] = y[1] /\ SamePlace(v[2], n[2], x[2], y[2])
        BY <2>1, InsideSealed
    <2>3. Sealed2(x[2], y[2]) BY <1>3, <2>2 DEF Sealed3, SamePlace
    <2> QED BY <2>2, <2>3
<1> QED BY <1>1, <1>2, <1>3

\* Every secret of the Secret is one that needs no sealing, or the sealing of the
\* config's at that place.
LEMMA SecretIsSealed ==
    ASSUME NEW c, NEW secret \in Secrets(Sealed(c))
    PROVE  secret[2] \in Covered \/ SealedFrom(secret, Secrets(c))
<1> DEFINE top == <<<<>>, Sealed(c)>>
           old == <<<<>>, c>>
<1>1. PICK x \in Maps(Sealed(c)) : secret \in SecretsAt(x) BY DEF Secrets
<1>2. top[1] = old[1] /\ top[2] = Sealed(c) /\ old[2] = c /\ old[1] = <<>>
    OBVIOUS
<1>3. \A w, m : (Sealed1(w, m) => Sealed0(w, m)) /\ (Sealed2(w, m) => Sealed0(w, m)) /\ (Sealed3(w, m) => Sealed0(w, m))
    BY DEF Sealed1, Sealed2, Sealed3
<1>4. /\ old \in Maps(c) /\ \A y \in Inside(old) : y \in Maps(c)
      /\ \A y \in Inside(old) : \A z \in Inside(y) : z \in Maps(c) /\ \A u \in Inside(z) : u \in Maps(c)
    BY DEF Maps, Deeper
<1> HIDE DEF top, old
<1>5. Sealed3(top[2], old[2]) BY <1>2, SealingSeals
<1>6. \A v \in Inside(top) : \E y \in Inside(old) : v[1] = y[1] /\ Sealed2(v[2], y[2])
    BY <1>2, <1>5, SealedDown
<1>7. \A v \in Inside(top) : \A w \in Inside(v) : \E y \in Inside(old) : \E z \in Inside(y) : w[1] = z[1] /\ Sealed1(w[2], z[2])
    <2> TAKE v \in Inside(top)
    <2> TAKE w \in Inside(v)
    <2>1. PICK y \in Inside(old) : v[1] = y[1] /\ Sealed2(v[2], y[2]) BY <1>6
    <2> QED BY <2>1, SealedDown
<1>8. \A v \in Inside(top) : \A w \in Inside(v) : \A t \in Inside(w) :
          \E y \in Inside(old) : \E z \in Inside(y) : \E u \in Inside(z) : t[1] = u[1] /\ Sealed0(t[2], u[2])
    <2> TAKE v \in Inside(top)
    <2> TAKE w \in Inside(v)
    <2> TAKE t \in Inside(w)
    <2>1. PICK y \in Inside(old) : \E z \in Inside(y) : w[1] = z[1] /\ Sealed1(w[2], z[2])
        BY <1>7
    <2>2. PICK z \in Inside(y) : w[1] = z[1] /\ Sealed1(w[2], z[2]) BY <2>1
    <2>3. \E u \in Inside(z) : t[1] = u[1] /\ Sealed0(t[2], u[2])
        BY <2>2, SealedDown
    <2> QED BY <2>2, <2>3
<1>9. \E y \in Maps(c) : x[1] = y[1] /\ Sealed0(x[2], y[2])
    <2>1. CASE x = top BY <2>1, <1>2, <1>3, <1>4, <1>5
    <2>2. CASE x \in Inside(top) BY <2>2, <1>3, <1>4, <1>6
    <2>3. CASE \E v \in Inside(top) : x \in Inside(v) BY <2>3, <1>3, <1>4, <1>7
    <2>4. CASE \E v \in Inside(top) : \E w \in Inside(v) : x \in Inside(w)
        BY <2>4, <1>4, <1>8
    <2> QED BY <2>1, <2>2, <2>3, <2>4, MapsOf DEF top
<1>10. PICK y \in Maps(c) : x[1] = y[1] /\ Sealed0(x[2], y[2]) BY <1>9
<1>11. PICK k \in DOMAIN x[2] \cap SecretFields : x[2][k] # "" /\ secret = <<x[1] \o <<k>>, x[2][k]>>
    BY <1>1 DEF SecretsAt
<1>12. k \in DOMAIN y[2] /\ x[2][k] = SealedField(y[2], k) /\ secret[1] = y[1] \o <<k>> /\ secret[2] = x[2][k]
    BY <1>10, <1>11 DEF Sealed0
<1>13. CASE Sealing(y[2][k])
    <2> DEFINE plain == <<y[1] \o <<k>>, y[2][k]>>
    <2>1. y[2][k] # "" /\ x[2][k] = Encrypted(y[2][k])
        BY <1>11, <1>12, <1>13 DEF Sealing, SealedField
    <2>2. plain \in SecretsAt(y) BY <2>1, <1>11, <1>12 DEF SecretsAt
    <2>3. plain \in Secrets(c) BY <2>2 DEF Secrets
    <2>4. plain[1] = secret[1] /\ plain[2] = y[2][k] BY <1>12
    <2> HIDE DEF plain
    <2> QED BY <2>1, <2>3, <2>4, <1>12 DEF SealedFrom
<1>14. CASE ~Sealing(y[2][k]) BY <1>11, <1>12, <1>14 DEF Sealing, SealedField
<1> QED BY <1>13, <1>14

-----------------------------------------------------------------------------
(* What the API answers with: a config without its secrets.                *)

\* A leaf without a secret has none below it.
LEMMA CleanLeaf ==
    ASSUME NEW m, Leaf(m), Clean0(m)
    PROVE  Clean1(m) /\ Clean2(m)
BY DEF Leaf, Clean1, Clean2

\* A row has no maps, and two fields that are secret.
LEMMA NamesApart ==
    /\ RowNames \cap (MapFields \cup RowFields) = {} /\ RowNames \cap SecretFields = {"password", "token"}
    /\ AwsRowNames \cap (MapFields \cup RowFields \cup SecretFields) = {}
<1>1. RowNames \cap (MapFields \cup RowFields) = {}
    BY DEF RowNames, FieldsOfKind, MapFields, RowFields, Sections
<1>2. RowNames \cap SecretFields = {"password", "token"}
    BY DEF RowNames, FieldsOfKind, SecretFields
<1>3. AwsRowNames \cap (MapFields \cup RowFields) = {}
    BY DEF AwsRowNames, MapFields, RowFields, Sections
<1>4. AwsRowNames \cap SecretFields = {} BY DEF AwsRowNames, SecretFields
<1> QED BY <1>1, <1>2, <1>3, <1>4

\* They are apart from the fields that may hold some.
LEMMA PresencesApart == Presences \cap (MapFields \cup RowFields \cup SecretFields) = {}
<1>1. Presences \cap (MapFields \cup RowFields) = {}
    BY DEF Presences, MapFields, RowFields, Sections
<1>2. Presences \cap SecretFields = {} BY DEF Presences, SecretFields
<1> QED BY <1>1, <1>2

\* A map of fields that are none of them is a leaf without a secret.
LEMMA PlainLeaf ==
    ASSUME NEW m, DOMAIN m \cap (MapFields \cup RowFields \cup SecretFields) = {}
    PROVE  Leaf(m) /\ Clean0(m) /\ Clean1(m) /\ Clean2(m)
<1>1. Leaf(m) /\ Clean0(m) BY DEF Leaf, Clean0
<1> QED BY <1>1, CleanLeaf

\* A row as it is answered with.
LEMMA PublicRowClean ==
    ASSUME NEW s, NEW r, DOMAIN r \subseteq RowNames
    PROVE  Clean1(PublicRow(s, r))
<1> DEFINE a == Present(r, "password", "password_present")
           b == IF s = "pgsql" THEN Nothing ELSE "token_present" :> TokenPresent(r)
           c == Without(r, {"password", "token", "api_token", "access_token"})
           p == PublicRow(s, r)
<1>1. p = (a @@ b) @@ c BY DEF PublicRow
<1>2. DOMAIN a \subseteq Presences /\ DOMAIN b \subseteq Presences
    BY DEF Present, Presences, Nothing, :>
<1>3. DOMAIN c \subseteq RowNames \ {"password", "token"} BY DEF Without
<1> HIDE DEF a, b, c, p
<1>4. DOMAIN p = DOMAIN a \cup DOMAIN b \cup DOMAIN c BY <1>1 DEF @@
<1>5. DOMAIN p \cap (MapFields \cup RowFields \cup SecretFields) = {}
    BY <1>2, <1>3, <1>4, NamesApart, PresencesApart
<1> QED BY <1>5, PlainLeaf DEF p

\* A service's section as it is answered with.
LEMMA PublicServiceClean ==
    ASSUME NEW s \in Services, NEW m, RowsNamed(Rows(m, "instances")),
           DOMAIN m \subseteq {"enabled", "default_instance", "instances", "access"} \cup SharedFields
    PROVE  Clean2(PublicSection(s, m))
<1> DEFINE rows == [i \in DOMAIN m["instances"] |-> PublicRow(s, m["instances"][i])]
           a == IF Has(m, "instances") THEN "instances" :> rows ELSE Nothing
           p == PublicSection(s, m)
<1>1. p = a @@ m
    <2>1. s \in {"jira", "confluence", "jenkins"} \cup Named /\ s \notin {"llm", "github", "aws", "mobile-auto", "proxy"}
        BY DEF Services, Named
    <2> QED BY <2>1 DEF PublicSection, Map
<1>2. DOMAIN m \cap MapFields = {} /\ DOMAIN m \cap SecretFields = {} /\ DOMAIN m \cap RowFields \subseteq {"instances"}
    <2>1. DOMAIN m \cap MapFields = {} BY DEF SharedFields, MapFields, Sections
    <2>2. DOMAIN m \cap SecretFields = {} BY DEF SharedFields, SecretFields
    <2>3. DOMAIN m \cap RowFields \subseteq {"instances"}
        BY DEF SharedFields, RowFields
    <2> QED BY <2>1, <2>2, <2>3
<1>3. DOMAIN a = DOMAIN m \cap {"instances"} BY DEF Has, Nothing, :>
<1>4. "instances" \in DOMAIN m => a["instances"] = rows /\ \A i \in DOMAIN rows : Clean1(rows[i])
    <2>1. "instances" \in DOMAIN m => \A i \in DOMAIN m["instances"] : DOMAIN m["instances"][i] \subseteq RowNames
        BY DEF RowsNamed, Rows, Has
    <2>2. "instances" \in DOMAIN m => \A i \in DOMAIN m["instances"] : Clean1(PublicRow(s, m["instances"][i]))
        BY <2>1, PublicRowClean
    <2> QED BY <2>2 DEF Has, :>
<1> HIDE DEF a, p, rows
<1>5. DOMAIN p = DOMAIN m /\ \A k \in DOMAIN a : p[k] = a[k] BY <1>1, <1>3 DEF @@
<1>6. Clean0(p) BY <1>2, <1>5 DEF Clean0
<1> QED BY <1>2, <1>3, <1>4, <1>5, <1>6 DEF Clean2, p

\* A proxy as it is answered with: no password, neither of its own nor in its address.
LEMMA PublicEntryClean ==
    ASSUME NEW r, DOMAIN r \subseteq {"name", "url", "username", "password", "no_proxy"}
    PROVE  Clean1(PublicProxyRow(r))
<1> DEFINE f == Present(r, "password", "password_present")
           g == PublicUrl(r)
           h == Without(r, {"password"})
           q == PublicProxyRow(r)
<1>1. q = (f @@ g) @@ h BY DEF PublicProxyRow
<1>2. DOMAIN f = {"password_present"} /\ DOMAIN g \subseteq {"url"} /\ DOMAIN h = DOMAIN r \ {"password"}
    BY DEF Present, PublicUrl, Has, Nothing, :>, Without
<1> HIDE DEF f, g, h, q
<1>3. DOMAIN q = DOMAIN f \cup DOMAIN g \cup DOMAIN h BY <1>1 DEF @@
<1>4. DOMAIN q \subseteq Presences \cup (RowNames \ {"password", "token"})
    BY <1>2, <1>3 DEF Presences, RowNames
<1>5. DOMAIN q \cap (MapFields \cup RowFields \cup SecretFields) = {}
    BY <1>4, NamesApart, PresencesApart
<1> QED BY <1>5, PlainLeaf DEF q

\* The address in it has no name and no password.
LEMMA WithoutUserHasNone == \A w : Parts(WithoutUser(w)).user = ""
<1> TAKE w
<1>1. CASE Parts(w)["user"] = "" BY <1>1 DEF WithoutUser
<1>2. CASE Parts(w)["user"] # ""
    <2>1. w \in DOMAIN Address
        <3>1. [scheme |-> "", user |-> "", host |-> "", port |-> "", path |-> ""]["user"] = ""
            OBVIOUS
        <3> QED BY <3>1, <1>2 DEF Parts
    <2> DEFINE a == Address[w]
               b == Anonymous(Address[w])
    <2>2. DOMAIN a = {"scheme", "user", "host", "port", "path"} /\ \E v \in DOMAIN Address : Address[v] = b
        BY <2>1, AddressAssumption
    <2>3. b["user"] = "" BY <2>2 DEF Anonymous
    <2>4. WithoutUser(w) = Written(b) BY <1>2 DEF WithoutUser
    <2> HIDE DEF b
    <2>5. Parts(Written(b)) = b BY <2>2, WrittenReads
    <2> QED BY <2>3, <2>4, <2>5
<1> QED BY <1>1, <1>2

\* The Proxy section as it is answered with.
LEMMA PublicProxyClean ==
    ASSUME NEW m, DOMAIN m \subseteq {"enabled", "proxies", "default", "assignments"},
           \A i \in DOMAIN Rows(m, "proxies") : /\ DOMAIN Rows(m, "proxies")[i] \subseteq {"name", "url", "username", "password", "no_proxy"}
                                                /\ "url" \in DOMAIN Rows(m, "proxies")[i]
    PROVE  /\ Clean2(PublicSection("proxy", m))
           /\ \A i \in DOMAIN Rows(m, "proxies") : Parts(PublicSection("proxy", m).proxies[i].url).user = ""
<1> DEFINE rows == Rows(m, "proxies")
           match == Where(rows, LAMBDA r : r.name = Text(m, "default"))
           default == FirstOf(rows, IF match = {} THEN DOMAIN rows ELSE match, Nothing)
           new == [i \in DOMAIN rows |-> PublicProxyRow(rows[i])]
           a == "password_present" :> IF Text(m, "password") # "" \/ Text(default, "password") # "" THEN "true" ELSE "false"
           b == PublicUrl(m)
           c == IF Has(m, "proxies") THEN "proxies" :> new ELSE Nothing
           d == Without(m, {"password"})
           p == PublicSection("proxy", m)
<1>1. p = ((a @@ b) @@ c) @@ d
    <2>1. p = PublicProxy(m) BY DEF PublicSection, Named
    <2>2. PublicProxy(m) = ((a @@ b) @@ c) @@ d BY DEF PublicProxy, Map
    <2> QED BY <2>1, <2>2
<1>2. DOMAIN a = {"password_present"} /\ DOMAIN b = {} /\ DOMAIN d = DOMAIN m
    BY DEF PublicUrl, Has, Nothing, :>, Without
<1>3. DOMAIN c = DOMAIN m \cap {"proxies"} /\ ("proxies" \in DOMAIN m => c["proxies"] = new)
    BY DEF Has, Nothing, :>
<1>4. \A i \in DOMAIN rows : Clean1(PublicProxyRow(rows[i])) BY PublicEntryClean
<1>5. \A i \in DOMAIN rows : PublicProxyRow(rows[i])["url"] = WithoutUser(rows[i]["url"])
    <2> TAKE i \in DOMAIN rows
    <2> DEFINE r == rows[i]
               f == Present(r, "password", "password_present")
               g == PublicUrl(r)
               h == Without(r, {"password"})
    <2>1. PublicProxyRow(r) = (f @@ g) @@ h BY DEF PublicProxyRow
    <2>2. "url" \in DOMAIN r
        OBVIOUS
    <2> HIDE DEF r
    <2>3. DOMAIN f = {"password_present"} /\ DOMAIN g = {"url"} /\ g["url"] = WithoutUser(r["url"])
        BY <2>2 DEF Present, PublicUrl, Has, :>
    <2> HIDE DEF f, g, h
    <2>4. ((f @@ g) @@ h)["url"] = g["url"] BY <2>3 DEF @@
    <2> QED BY <2>1, <2>3, <2>4 DEF r
<1>6. ("proxies" \in DOMAIN m => DOMAIN m["proxies"] = DOMAIN rows) /\ ("proxies" \notin DOMAIN m => DOMAIN rows = {})
    BY EmptyIsList DEF Rows, Has
<1>7. DOMAIN new = DOMAIN rows /\ \A i \in DOMAIN rows : new[i] = PublicProxyRow(rows[i])
    OBVIOUS
<1> HIDE DEF a, b, c, d, p, rows, new
<1>8. DOMAIN p = DOMAIN m \cup {"password_present"} /\ ("proxies" \in DOMAIN m => p["proxies"] = new)
    BY <1>1, <1>2, <1>3 DEF @@
<1>9. DOMAIN p \cap MapFields = {} /\ DOMAIN p \cap SecretFields = {} /\ DOMAIN p \cap RowFields \subseteq {"proxies"}
    <2>1. DOMAIN p \cap MapFields = {} BY <1>8 DEF MapFields, Sections
    <2>2. DOMAIN p \cap SecretFields = {} BY <1>8 DEF SecretFields
    <2>3. DOMAIN p \cap RowFields \subseteq {"proxies"} BY <1>8 DEF RowFields
    <2> QED BY <2>1, <2>2, <2>3
<1>10. Clean2(p)
    <2>1. Clean0(p) BY <1>9 DEF Clean0
    <2>2. "proxies" \in DOMAIN p => "proxies" \in DOMAIN m BY <1>8
    <2>3. "proxies" \in DOMAIN p => \A i \in DOMAIN p["proxies"] : Clean1(p["proxies"][i])
        BY <2>2, <1>4, <1>7, <1>8
    <2> QED BY <1>9, <2>1, <2>3 DEF Clean2
<1>11. ASSUME NEW i \in DOMAIN rows PROVE Parts(p["proxies"][i]["url"])["user"] = ""
    <2>1. p["proxies"][i]["url"] = WithoutUser(rows[i]["url"])
        BY <1>5, <1>6, <1>7, <1>8
    <2> QED BY <2>1, WithoutUserHasNone
<1> QED BY <1>10, <1>11 DEF p, rows

\* A section of plain fields that answers with whether its one secret is there.
LEMMA PublicPlainClean ==
    ASSUME NEW m, NEW secret, NEW present \in Presences,
           DOMAIN m \cap (MapFields \cup RowFields) = {}, DOMAIN m \cap SecretFields \subseteq {secret}
    PROVE  Clean2(Present(m, secret, present) @@ Without(m, {secret}))
<1> DEFINE a == Present(m, secret, present)
           b == Without(m, {secret})
           p == a @@ b
<1>1. DOMAIN a = {present} /\ DOMAIN b = DOMAIN m \ {secret}
    BY DEF Present, :>, Without
<1> HIDE DEF a, b
<1>2. DOMAIN p = DOMAIN a \cup DOMAIN b BY DEF @@
<1> HIDE DEF p
<1>3. DOMAIN p \cap (MapFields \cup RowFields \cup SecretFields) = {}
    BY <1>1, <1>2, PresencesApart
<1> QED BY <1>3, PlainLeaf DEF p, a, b

\* GitHub.
LEMMA PublicGitHubClean ==
    ASSUME NEW m, DOMAIN m \subseteq {"enabled", "api_token", "base_url"}
    PROVE  Clean2(PublicSection("github", m))
<1>1. PublicSection("github", m) = Present(m, "api_token", "api_token_present") @@ Without(m, {"api_token"})
    BY DEF PublicSection, Named
<1>2. DOMAIN m \cap (MapFields \cup RowFields) = {}
    BY DEF MapFields, RowFields, Sections
<1>3. DOMAIN m \cap SecretFields \subseteq {"api_token"} BY DEF SecretFields
<1>4. "api_token_present" \in Presences BY DEF Presences
<1> QED BY <1>1, <1>2, <1>3, <1>4, PublicPlainClean

\* AWS answers with no password, of the account or of a row.
LEMMA PublicAwsClean ==
    ASSUME NEW m, DOMAIN m \subseteq AwsFields,
           \A k \in {"accounts", "eks_clusters"} : \A i \in DOMAIN Rows(m, k) : DOMAIN Rows(m, k)[i] \subseteq AwsRowNames
    PROVE  Clean2(PublicSection("aws", m))
<1> DEFINE a == Present(m, "password", "password_present")
           b == Without(m, {"password"})
           p == PublicSection("aws", m)
<1>1. p = a @@ b BY DEF PublicSection, Named
<1>2. DOMAIN a = {"password_present"} /\ DOMAIN b = DOMAIN m \ {"password"} /\ \A k \in DOMAIN b : b[k] = m[k]
    BY DEF Present, :>, Without
<1> HIDE DEF a, b, p
<1>3. DOMAIN p = {"password_present"} \cup (DOMAIN m \ {"password"}) /\ \A k \in DOMAIN m \ {"password", "password_present"} : p[k] = m[k]
    BY <1>1, <1>2 DEF @@
<1>4. DOMAIN p \cap MapFields = {} /\ DOMAIN p \cap SecretFields = {} /\ DOMAIN p \cap RowFields \subseteq {"accounts", "eks_clusters"}
    <2>1. DOMAIN p \cap MapFields = {} BY <1>3 DEF AwsFields, MapFields, Sections
    <2>2. DOMAIN p \cap SecretFields = {} BY <1>3 DEF AwsFields, SecretFields
    <2>3. DOMAIN p \cap RowFields \subseteq {"accounts", "eks_clusters"}
        BY <1>3 DEF AwsFields, RowFields
    <2> QED BY <2>1, <2>2, <2>3
<1>5. ASSUME NEW k \in DOMAIN p \cap {"accounts", "eks_clusters"}, NEW i \in DOMAIN p[k] PROVE Clean1(p[k][i])
    <2>1. k \in DOMAIN m /\ p[k] = m[k] BY <1>3
    <2>2. Rows(m, k) = m[k] BY <2>1 DEF Rows, Has
    <2>3. DOMAIN p[k][i] \subseteq AwsRowNames BY <2>1, <2>2
    <2> QED BY <2>3, NamesApart, PlainLeaf
<1>6. Clean0(p) BY <1>4 DEF Clean0
<1> QED BY <1>4, <1>5, <1>6 DEF Clean2, p

\* The sections that have no secret.
LEMMA PublicOtherClean ==
    ASSUME NEW s \in {"git", "debug"}, NEW m,
           DOMAIN m \subseteq {"enabled", "log_level", "user"}, DOMAIN Sub(m, "user") \subseteq {"name", "email"}
    PROVE  Clean2(PublicSection(s, m))
<1>1. PublicSection(s, m) = m BY DEF PublicSection, Named
<1>2. DOMAIN m \cap SecretFields = {} /\ DOMAIN m \cap RowFields = {} /\ DOMAIN m \cap MapFields \subseteq {"user"}
    <2>1. DOMAIN m \cap SecretFields = {} /\ DOMAIN m \cap RowFields = {}
        BY DEF SecretFields, RowFields
    <2>2. DOMAIN m \cap MapFields \subseteq {"user"} BY DEF MapFields, Sections
    <2> QED BY <2>1, <2>2
<1>3. "user" \in DOMAIN m => Clean1(m["user"])
    <2> SUFFICES ASSUME "user" \in DOMAIN m PROVE Clean1(m["user"])
        OBVIOUS
    <2>1. DOMAIN m["user"] \subseteq {"name", "email"} BY DEF Sub, Has
    <2>2. {"name", "email"} \cap (MapFields \cup RowFields \cup SecretFields) = {}
        BY DEF MapFields, Sections, RowFields, SecretFields
    <2> QED BY <2>1, <2>2, PlainLeaf
<1>4. Clean0(m) BY <1>2 DEF Clean0
<1> QED BY <1>1, <1>2, <1>3, <1>4 DEF Clean2

\* Its fields, and where the secret is.
LEMMA MobileApart ==
    /\ (DeviceFields \cup TunnelFields) \cap (MapFields \cup RowFields \cup SecretFields) = {}
    /\ HubFields \cap MapFields = {"http_proxy", "local"} /\ HubFields \cap RowFields = {}
    /\ HubFields \cap SecretFields = {"access_key"}
    /\ MobileFields \cap MapFields = {"defaults", "browserstack"} /\ MobileFields \cap RowFields = {}
    /\ MobileFields \cap SecretFields = {}
<1>1. DeviceFields \cap (MapFields \cup RowFields) = {} /\ DeviceFields \cap SecretFields = {}
    <2>1. DeviceFields \cap (MapFields \cup RowFields) = {}
        BY DEF DeviceFields, MapFields, Sections, RowFields
    <2>2. DeviceFields \cap SecretFields = {} BY DEF DeviceFields, SecretFields
    <2> QED BY <2>1, <2>2
<1>2. TunnelFields \cap (MapFields \cup RowFields) = {} /\ TunnelFields \cap SecretFields = {}
    <2>1. TunnelFields \cap (MapFields \cup RowFields) = {}
        BY DEF TunnelFields, MapFields, Sections, RowFields
    <2>2. TunnelFields \cap SecretFields = {} BY DEF TunnelFields, SecretFields
    <2> QED BY <2>1, <2>2
<1>3. HubFields \cap MapFields = {"http_proxy", "local"}
    BY DEF HubFields, MapFields, Sections
<1>4. HubFields \cap RowFields = {} /\ HubFields \cap SecretFields = {"access_key"}
    BY DEF HubFields, RowFields, SecretFields
<1>5. MobileFields \cap MapFields = {"defaults", "browserstack"}
    BY DEF MobileFields, MapFields, Sections
<1>6. MobileFields \cap RowFields = {} /\ MobileFields \cap SecretFields = {}
    BY DEF MobileFields, RowFields, SecretFields
<1> QED BY <1>1, <1>2, <1>3, <1>4, <1>5, <1>6

\* The mobile section answers with no access key.
LEMMA PublicMobileClean ==
    ASSUME NEW m, MobileSection(m)
    PROVE  Clean2(PublicSection("mobile-auto", m))
<1> DEFINE hub == Sub(m, "browserstack")
           open == Present(hub, "access_key", "access_key_present") @@ Without(hub, {"access_key"})
           a == IF Has(m, "browserstack") THEN "browserstack" :> open ELSE Nothing
           p == PublicSection("mobile-auto", m)
<1>1. p = a @@ m
    <2>1. "browserstack" \in DOMAIN m => m["browserstack"] = hub BY DEF Sub, Has
    <2> HIDE DEF hub
    <2> QED BY <2>1 DEF PublicSection, Named, Has
<1>2. DOMAIN a = DOMAIN m \cap {"browserstack"} /\ ("browserstack" \in DOMAIN m => a["browserstack"] = open)
    BY DEF Has, Nothing, :>
<1>3. Clean1(open)
    <2> DEFINE f == Present(hub, "access_key", "access_key_present")
               g == Without(hub, {"access_key"})
    <2>1. DOMAIN f = {"access_key_present"} /\ DOMAIN g = DOMAIN hub \ {"access_key"} /\ \A k \in DOMAIN g : g[k] = hub[k]
        BY DEF Present, :>, Without
    <2>2. open = f @@ g
        OBVIOUS
    <2> HIDE DEF f, g, open
    <2>3. DOMAIN open = DOMAIN f \cup DOMAIN g /\ \A k \in DOMAIN g \ DOMAIN f : open[k] = g[k]
        BY <2>2 DEF @@
    <2>4. DOMAIN hub \subseteq HubFields /\ DOMAIN Sub(hub, "http_proxy") \subseteq TunnelFields /\ DOMAIN Sub(hub, "local") \subseteq TunnelFields
        BY DEF MobileSection
    <2> HIDE DEF hub
    <2>5. "access_key_present" \in Presences BY DEF Presences
    <2>6. DOMAIN open \cap SecretFields = {} /\ DOMAIN open \cap RowFields = {} /\ DOMAIN open \cap MapFields \subseteq {"http_proxy", "local"}
        BY <2>1, <2>3, <2>4, <2>5, MobileApart, PresencesApart
    <2>7. \A k \in DOMAIN open \cap {"http_proxy", "local"} : DOMAIN open[k] \subseteq TunnelFields
        BY <2>1, <2>3, <2>4 DEF Sub, Has
    <2>8. \A k \in DOMAIN open \cap {"http_proxy", "local"} : Clean0(open[k])
        BY <2>7, MobileApart, PlainLeaf
    <2>9. Clean0(open) BY <2>6 DEF Clean0
    <2> QED BY <2>6, <2>8, <2>9 DEF Clean1
<1>4. DOMAIN m \subseteq MobileFields /\ DOMAIN Sub(m, "defaults") \subseteq DeviceFields
    BY DEF MobileSection
<1> HIDE DEF a, open, p, hub
<1>5. DOMAIN p = DOMAIN m /\ ("browserstack" \in DOMAIN m => p["browserstack"] = open)
    BY <1>1, <1>2 DEF @@
<1>6. "defaults" \in DOMAIN m => Clean1(p["defaults"])
    <2> SUFFICES ASSUME "defaults" \in DOMAIN m PROVE Clean1(p["defaults"])
        OBVIOUS
    <2>1. p["defaults"] = m["defaults"] BY <1>1, <1>2 DEF @@
    <2>2. DOMAIN m["defaults"] \subseteq DeviceFields BY <1>4 DEF Sub, Has
    <2> QED BY <2>1, <2>2, MobileApart, PlainLeaf
<1>7. DOMAIN p \cap SecretFields = {} /\ DOMAIN p \cap RowFields = {} /\ DOMAIN p \cap MapFields \subseteq {"defaults", "browserstack"}
    BY <1>4, <1>5, MobileApart
<1>8. Clean0(p) BY <1>7 DEF Clean0
<1> QED BY <1>3, <1>5, <1>6, <1>7, <1>8 DEF Clean2, p

\* Its fields, and where the secrets are.
LEMMA LlmApart ==
    /\ LlmFields \cap MapFields = {"ai_platform"} /\ LlmFields \cap RowFields = {} /\ LlmFields \cap SecretFields = {"api_key"}
    /\ {"username", "usercase"} \cap (MapFields \cup RowFields \cup SecretFields) = {} /\ {"auth"} \cap (RowFields \cup SecretFields) = {}
<1>1. LlmFields \cap MapFields = {"ai_platform"}
    BY DEF LlmFields, MapFields, Sections
<1>2. LlmFields \cap RowFields = {} /\ LlmFields \cap SecretFields = {"api_key"}
    BY DEF LlmFields, RowFields, SecretFields
<1>3. {"username", "usercase"} \cap (MapFields \cup RowFields \cup SecretFields) = {}
    BY DEF MapFields, Sections, RowFields, SecretFields
<1>4. {"auth"} \cap (RowFields \cup SecretFields) = {}
    BY DEF RowFields, SecretFields
<1> QED BY <1>1, <1>2, <1>3, <1>4

\* The model provider answers with no key, and no password of its account.
LEMMA PublicLlmClean ==
    ASSUME NEW m, LlmSection(m)
    PROVE  Clean2(PublicSection("llm", m))
<1> DEFINE ai == Sub(m, "ai_platform")
           auth == Sub(ai, "auth")
           f == Present(auth, "password", "password_present")
           g == Present(auth, "token", "token_present")
           h == Without(auth, {"password", "token"})
           open == (f @@ g) @@ h
           inner == "auth" :> open
           a == Present(m, "api_key", "api_key_present")
           b == IF Has(ai, "auth") THEN "ai_platform" :> inner ELSE Nothing
           c == Without(m, {"api_key"})
           p == PublicSection("llm", m)
<1>1. p = (a @@ b) @@ c
    <2>1. Has(ai, "auth") => m.ai_platform.auth = auth
        <3>1. CASE "ai_platform" \in DOMAIN m BY <3>1 DEF Sub, Has
        <3>2. CASE "ai_platform" \notin DOMAIN m BY <3>2 DEF Sub, Has, Nothing
        <3> QED BY <3>1, <3>2
    <2>2. CASE Has(ai, "auth")
        <3>1. m.ai_platform.auth = auth BY <2>1, <2>2
        <3> HIDE DEF auth
        <3> QED BY <2>2, <3>1 DEF PublicSection, Named
    <2>3. CASE ~Has(ai, "auth")
        <3> HIDE DEF auth
        <3> QED BY <2>3 DEF PublicSection, Named
    <2> QED BY <2>2, <2>3
<1>2. Clean1(inner)
    <2>1. DOMAIN f = {"password_present"} /\ DOMAIN g = {"token_present"} /\ DOMAIN h = DOMAIN auth \ {"password", "token"}
        BY DEF Present, :>, Without
    <2>2. DOMAIN auth \subseteq {"username", "password", "usercase"}
        BY DEF LlmSection
    <2>3. DOMAIN inner = {"auth"} /\ inner["auth"] = open BY DEF :>
    <2> HIDE DEF f, g, h, auth, inner
    <2>4. DOMAIN open = DOMAIN f \cup DOMAIN g \cup DOMAIN h BY DEF @@
    <2>5. DOMAIN open \subseteq Presences \cup {"username", "usercase"}
        BY <2>1, <2>2, <2>4 DEF Presences
    <2>6. Clean0(open)
        <3> HIDE DEF open
        <3> QED BY <2>5, LlmApart, PresencesApart, PlainLeaf
    <2> QED BY <2>3, <2>6, LlmApart DEF Clean1, Clean0
<1>3. DOMAIN a = {"api_key_present"} /\ DOMAIN c = DOMAIN m \ {"api_key"} /\ \A k \in DOMAIN c : c[k] = m[k]
    BY DEF Present, :>, Without
<1>4. IF "auth" \in DOMAIN ai THEN DOMAIN b = {"ai_platform"} /\ b["ai_platform"] = inner ELSE DOMAIN b = {}
    BY DEF Has, Nothing, :>
<1>5. "auth" \notin DOMAIN ai => DOMAIN ai = {} BY DEF LlmSection
<1>6. "ai_platform" \in DOMAIN m => m["ai_platform"] = ai BY DEF Sub, Has
<1>7. DOMAIN m \subseteq LlmFields BY DEF LlmSection
<1>10. "ai_platform" \notin DOMAIN m => DOMAIN ai = {} BY DEF Sub, Has, Nothing
<1> HIDE DEF a, b, c, p, inner, ai
<1>8. DOMAIN p = DOMAIN a \cup DOMAIN b \cup DOMAIN c BY <1>1 DEF @@
<1>9. ASSUME "ai_platform" \in DOMAIN p PROVE Clean1(p["ai_platform"])
    <2>1. CASE "auth" \in DOMAIN ai
        <3>1. p["ai_platform"] = inner BY <1>1, <1>3, <1>4, <1>8, <2>1 DEF @@
        <3> QED BY <3>1, <1>2
    <2>2. CASE "auth" \notin DOMAIN ai
        <3>1. "ai_platform" \in DOMAIN m /\ p["ai_platform"] = m["ai_platform"]
            BY <1>1, <1>3, <1>4, <1>8, <2>2, <1>9 DEF @@
        <3>2. DOMAIN p["ai_platform"] = {} BY <3>1, <2>2, <1>5, <1>6
        <3> QED BY <3>2, PlainLeaf
    <2> QED BY <2>1, <2>2
<1>11. DOMAIN p \subseteq {"api_key_present"} \cup (LlmFields \ {"api_key"})
    <2>1. "ai_platform" \in LlmFields \ {"api_key"} BY DEF LlmFields
    <2> QED BY <1>3, <1>4, <1>7, <1>8, <2>1
<1>12. "api_key_present" \in Presences BY DEF Presences
<1>13. DOMAIN p \cap SecretFields = {} /\ DOMAIN p \cap RowFields = {} /\ DOMAIN p \cap MapFields \subseteq {"ai_platform"}
    BY <1>11, <1>12, PresencesApart, LlmApart
<1>14. Clean0(p) BY <1>13 DEF Clean0
<1> QED BY <1>9, <1>13, <1>14 DEF Clean2, p

-----------------------------------------------------------------------------
(* What each section that was read holds.                                  *)

\* A choice and a range keep their field.
LEMMA FieldsKept ==
    ASSUME NEW m, NEW k
    PROVE  /\ \A ws : DOMAIN OneOf(m, k, ws) \subseteq {k}
           /\ \A lo, hi : DOMAIN Within(m, k, lo, hi) \subseteq {k}
           /\ \A w : DOMAIN Kept(k, w) \subseteq {k}
           /\ \A v : DOMAIN KeptMap(k, v) \subseteq {k} /\ (DOMAIN v = {} => Sub(KeptMap(k, v), k) = Nothing)
                     /\ (DOMAIN v # {} => Sub(KeptMap(k, v), k) = v)
<1>1. \A w : DOMAIN Kept(k, w) \subseteq {k} BY DEF Kept, Nothing, :>
<1>2. \A ws : DOMAIN OneOf(m, k, ws) \subseteq {k} BY <1>1 DEF OneOf
<1>3. \A lo, hi : DOMAIN Within(m, k, lo, hi) \subseteq {k}
    BY DEF Within, Nothing, :>
<1>4. \A v : DOMAIN KeptMap(k, v) \subseteq {k} /\ (DOMAIN v = {} => Sub(KeptMap(k, v), k) = Nothing)
                     /\ (DOMAIN v # {} => Sub(KeptMap(k, v), k) = v)
    BY DEF KeptMap, Sub, Has, Nothing, :>
<1> QED BY <1>1, <1>2, <1>3, <1>4

\* Words, flags and positive numbers keep some of the fields they are asked for.
LEMMA SomeKept ==
    ASSUME NEW m, NEW ks
    PROVE  DOMAIN Texts(m, ks) \subseteq ks /\ DOMAIN Flags(m, ks) \subseteq ks /\ DOMAIN Positive(m, ks) \subseteq ks
           /\ DOMAIN Only(m, ks) \subseteq ks
<1>1. DOMAIN Texts(m, ks) \subseteq ks /\ DOMAIN Flags(m, ks) \subseteq ks /\ DOMAIN Only(m, ks) \subseteq ks
    BY DEF Texts, Flags, Only
<1>2. DOMAIN Positive(m, ks) \subseteq ks BY DEF Positive
<1> QED BY <1>1, <1>2

\* What one map lays over another.
LEMMA OverSub ==
    ASSUME NEW f, NEW g, NEW k
    PROVE  Sub(f @@ g, k) = IF k \in DOMAIN f THEN Sub(f, k) ELSE Sub(g, k)
BY DEF @@, Sub, Has

\* The rows of a service.
LEMMA ServiceRows ==
    ASSUME NEW s \in Services, NEW m, ServiceSection(s, m)
    PROVE  RowsNamed(Rows(m, "instances"))
<1> DEFINE rows == Rows(m, "instances")
<1>1. \A r : DOMAIN Database(r) \subseteq RowNames
    <2> TAKE r
    <2>1. DOMAIN Database(r) \subseteq {"name", "host", "database", "username", "port", "password", "enabled"}
        BY DatabaseShape
    <2> QED BY <2>1 DEF RowNames
<1>2. \A r : DOMAIN SiteRow(s, r) \subseteq RowNames
    <2> TAKE r
    <2>1. DOMAIN SiteRow(s, r) \subseteq {"name", "password", "url", "username", "token", "enabled"} \cup FieldsOfKind
        BY SiteRowShape
    <2> QED BY <2>1 DEF RowNames
<1>3. \A i \in DOMAIN rows : \E r : rows[i] = SiteRow(s, r) \/ rows[i] = Database(r)
    BY DEF ServiceSection, AreSites, AreDatabases
<1> QED BY <1>1, <1>2, <1>3 DEF RowsNamed

\* The proxies.
LEMMA EntryRows ==
    ASSUME NEW m, ProxySection(m)
    PROVE  \A i \in DOMAIN Rows(m, "proxies") : /\ DOMAIN Rows(m, "proxies")[i] \subseteq {"name", "url", "username", "password", "no_proxy"}
                                                /\ "url" \in DOMAIN Rows(m, "proxies")[i]
<1> DEFINE rows == Rows(m, "proxies")
<1>1. AreEntries(rows) BY DEF ProxySection
<1> HIDE DEF rows
<1>2. ASSUME NEW i \in DOMAIN rows
      PROVE  DOMAIN rows[i] \subseteq {"name", "url", "username", "password", "no_proxy"} /\ "url" \in DOMAIN rows[i]
    <2>1. PICK r : rows[i] = ProxyEntry(r, rows[i].name) BY <1>1 DEF AreEntries
    <2>2. \A name : DOMAIN ProxyEntry(r, name) = EntryFields(r) /\ "url" \in DOMAIN ProxyEntry(r, name)
        BY EntryShape
    <2>3. EntryFields(r) \subseteq {"name", "url", "username", "password", "no_proxy"}
        BY DEF EntryFields
    <2> QED BY <2>1, <2>2, <2>3
<1> QED BY <1>2 DEF rows

\* GitHub.
LEMMA GitHubFields == \A x : DOMAIN GitHub(x) \subseteq {"enabled", "api_token", "base_url"}
<1> TAKE x
<1> DEFINE a == Flags(x, {"enabled"})
           b == Kept("api_token", FirstText(x, <<"api_token", "token", "access_token">>))
           c == Kept("base_url", Site(FirstText(x, <<"base_url", "api_base_url">>)))
<1>1. GitHub(x) = (a @@ b) @@ c BY DEF GitHub
<1>2. DOMAIN a \subseteq {"enabled"} /\ DOMAIN b \subseteq {"api_token"} /\ DOMAIN c \subseteq {"base_url"}
    <2>1. DOMAIN a \subseteq {"enabled"} BY SomeKept
    <2>2. DOMAIN b \subseteq {"api_token"} /\ DOMAIN c \subseteq {"base_url"}
        BY KeptField
    <2> QED BY <2>1, <2>2
<1> HIDE DEF a, b, c
<1> QED BY <1>1, <1>2 DEF @@

\* The identity of commits, and the switch of the debug log.
LEMMA OtherFields ==
    ASSUME NEW s \in {"git", "debug"}, NEW x
    PROVE  DOMAIN Section(s, x) \subseteq {"enabled", "log_level", "user"} /\ DOMAIN Sub(Section(s, x), "user") \subseteq {"name", "email"}
<1>1. DOMAIN Nothing = {} BY DEF Nothing
<1>2. CASE s = "git"
    <2> DEFINE user == Texts(Sub(x, "user"), {"name", "email"})
    <2>1. Section(s, x) = KeptMap("user", user) BY <1>2 DEF Section, Git, Named
    <2>2. DOMAIN user \subseteq {"name", "email"} BY SomeKept
    <2> HIDE DEF user
    <2>3. DOMAIN KeptMap("user", user) \subseteq {"user"} /\ (Sub(KeptMap("user", user), "user") = Nothing \/ Sub(KeptMap("user", user), "user") = user)
        BY FieldsKept
    <2> QED BY <2>1, <2>2, <2>3, <1>1
<1>3. CASE s = "debug"
    <2> DEFINE a == Flags(x, {"enabled"})
               b == OneOf(x, "log_level", {"debug", "info", "warning", "error"})
    <2>1. Section(s, x) = a @@ b BY <1>3 DEF Section, Debug, Named
    <2>2. DOMAIN a \subseteq {"enabled"} /\ DOMAIN b \subseteq {"log_level"}
        BY SomeKept, FieldsKept
    <2> HIDE DEF a, b
    <2>3. DOMAIN (a @@ b) \subseteq {"enabled", "log_level"} BY <2>2 DEF @@
    <2>4. Sub(a @@ b, "user") = Nothing BY <2>3 DEF Sub, Has
    <2> QED BY <2>1, <2>3, <2>4, <1>1
<1> QED BY <1>2, <1>3

\* BrowserStack.
LEMMA TunnelHas == \A x : DOMAIN Tunnel(x) \subseteq TunnelFields /\ DOMAIN HubProxy(x) \subseteq TunnelFields
<1> TAKE x
<1>1. DOMAIN Tunnel(x) \subseteq TunnelFields
    <2> DEFINE a == OneOf(x, "mode", {"managed", "external"})
               b == Texts(x, {"binary", "binary_env", "proxy_host", "proxy_user_env", "proxy_pass_env"})
               c == Positive(x, {"default_hold_minutes", "max_hold_minutes", "ready_timeout_seconds",
                                 "heartbeat_seconds", "proxy_port"})
               d == Flags(x, {"force_local", "disable_proxy_discovery", "force_proxy", "only_automate", "force"})
    <2>1. Tunnel(x) = ((a @@ b) @@ c) @@ d BY DEF Tunnel
    <2>2. /\ DOMAIN a \subseteq {"mode"}
          /\ DOMAIN b \subseteq {"binary", "binary_env", "proxy_host", "proxy_user_env", "proxy_pass_env"}
          /\ DOMAIN c \subseteq {"default_hold_minutes", "max_hold_minutes", "ready_timeout_seconds",
                                 "heartbeat_seconds", "proxy_port"}
          /\ DOMAIN d \subseteq {"force_local", "disable_proxy_discovery", "force_proxy", "only_automate", "force"}
        BY SomeKept, FieldsKept
    <2> HIDE DEF a, b, c, d
    <2>3. DOMAIN Tunnel(x) = DOMAIN a \cup DOMAIN b \cup DOMAIN c \cup DOMAIN d
        BY <2>1 DEF @@
    <2> QED BY <2>2, <2>3 DEF TunnelFields
<1>2. DOMAIN HubProxy(x) \subseteq TunnelFields
    <2> DEFINE a == Texts(x, {"proxy_host", "proxy_user_env", "proxy_pass_env"})
               b == Positive(x, {"proxy_port"})
               c == Flags(x, {"disable_proxy_discovery", "force_proxy"})
    <2>1. HubProxy(x) = (a @@ b) @@ c BY DEF HubProxy
    <2>2. /\ DOMAIN a \subseteq {"proxy_host", "proxy_user_env", "proxy_pass_env"}
          /\ DOMAIN b \subseteq {"proxy_port"} /\ DOMAIN c \subseteq {"disable_proxy_discovery", "force_proxy"}
        BY SomeKept
    <2> HIDE DEF a, b, c
    <2>3. DOMAIN HubProxy(x) = DOMAIN a \cup DOMAIN b \cup DOMAIN c BY <2>1 DEF @@
    <2> QED BY <2>2, <2>3 DEF TunnelFields
<1> QED BY <1>1, <1>2

\* The devices of BrowserStack.
LEMMA DeviceHas == \A x : DOMAIN Device(x) \subseteq DeviceFields
<1> TAKE x
<1> DEFINE a == OneOf(x, "platform", {"android", "ios"})
           b == OneOf(x, "network_mode", {"public", "private-managed", "private-external"})
           c == Positive(x, {"idle_timeout_seconds", "new_command_timeout_seconds"})
           d == IF Text(x, "appium_version") \in Versions THEN Only(x, {"appium_version"}) ELSE Nothing
           e == Flags(x, {"interactive_debugging", "video"})
<1>1. Device(x) = (((a @@ b) @@ c) @@ d) @@ e BY DEF Device
<1>2. DOMAIN a \subseteq {"platform"} /\ DOMAIN b \subseteq {"network_mode"}
    BY FieldsKept
<1>3. DOMAIN c \subseteq {"idle_timeout_seconds", "new_command_timeout_seconds"} /\ DOMAIN e \subseteq {"interactive_debugging", "video"}
    BY SomeKept
<1>4. DOMAIN d \subseteq {"appium_version"} BY SomeKept DEF Nothing
<1> HIDE DEF a, b, c, d, e
<1>5. DOMAIN Device(x) = DOMAIN a \cup DOMAIN b \cup DOMAIN c \cup DOMAIN d \cup DOMAIN e
    BY <1>1 DEF @@
<1> QED BY <1>2, <1>3, <1>4, <1>5 DEF DeviceFields

\* The account of BrowserStack, its proxy and its tunnel.
LEMMA HubHas ==
    ASSUME NEW x
    PROVE  /\ DOMAIN BrowserStack(x) \subseteq HubFields
           /\ DOMAIN Sub(BrowserStack(x), "http_proxy") \subseteq TunnelFields
           /\ DOMAIN Sub(BrowserStack(x), "local") \subseteq TunnelFields
<1> DEFINE hub == HubProxy(Sub(x, "http_proxy"))
           tunnel == Tunnel(Sub(x, "local"))
           a == Texts(x, {"username_env", "access_key_env", "username", "access_key", "ca_cert"})
           b == Kept("api_base_url", Site(Text(x, "api_base_url")))
           c == Kept("appium_base_url", Site(Text(x, "appium_base_url")))
           d == Flags(x, {"verify_ssl"})
           e == KeptMap("http_proxy", hub)
           f == KeptMap("local", tunnel)
           p == BrowserStack(x)
<1>1. p = ((((a @@ b) @@ c) @@ d) @@ e) @@ f BY DEF BrowserStack
<1>2. /\ DOMAIN a \subseteq {"username_env", "access_key_env", "username", "access_key", "ca_cert"}
      /\ DOMAIN b \subseteq {"api_base_url"} /\ DOMAIN c \subseteq {"appium_base_url"} /\ DOMAIN d \subseteq {"verify_ssl"}
    BY SomeKept, FieldsKept
<1>3. DOMAIN hub \subseteq TunnelFields /\ DOMAIN tunnel \subseteq TunnelFields
    BY TunnelHas
<1> HIDE DEF hub, tunnel
<1>4. /\ DOMAIN e \subseteq {"http_proxy"} /\ (Sub(e, "http_proxy") = Nothing \/ Sub(e, "http_proxy") = hub)
      /\ DOMAIN f \subseteq {"local"} /\ (Sub(f, "local") = Nothing \/ Sub(f, "local") = tunnel)
    BY FieldsKept
<1> HIDE DEF a, b, c, d, e, f, p
<1>5. DOMAIN Nothing = {} BY DEF Nothing
<1>6. DOMAIN p = DOMAIN a \cup DOMAIN b \cup DOMAIN c \cup DOMAIN d \cup DOMAIN e \cup DOMAIN f
    BY <1>1 DEF @@
<1> DEFINE y == ((a @@ b) @@ c) @@ d
<1>7. DOMAIN y = DOMAIN a \cup DOMAIN b \cup DOMAIN c \cup DOMAIN d /\ p = (y @@ e) @@ f
    BY <1>1 DEF @@
<1> HIDE DEF y
<1>8. ~("http_proxy" \in DOMAIN y) /\ ~("local" \in DOMAIN y) BY <1>2, <1>7
<1>9. Sub(p, "http_proxy") = Sub(e, "http_proxy") \/ Sub(p, "http_proxy") = Nothing
    <2>1. "http_proxy" \notin DOMAIN f BY <1>4
    <2> DEFINE z == y @@ e
    <2>2. p = z @@ f /\ DOMAIN z = DOMAIN y \cup DOMAIN e BY <1>7 DEF @@
    <2>3. Sub(z, "http_proxy") = Sub(e, "http_proxy") BY <1>8, OverSub
    <2> HIDE DEF z
    <2>4. Sub(p, "http_proxy") = IF "http_proxy" \in DOMAIN z THEN Sub(z, "http_proxy") ELSE Sub(f, "http_proxy")
        BY <2>2, OverSub
    <2>5. Sub(f, "http_proxy") = Nothing BY <2>1 DEF Sub, Has
    <2> QED BY <2>3, <2>4, <2>5
<1>10. Sub(p, "local") = Sub(f, "local")
    <2>1. "local" \notin DOMAIN e BY <1>4
    <2> DEFINE z == y @@ e
    <2>2. p = z @@ f /\ DOMAIN z = DOMAIN y \cup DOMAIN e BY <1>7 DEF @@
    <2> HIDE DEF z
    <2>3. "local" \notin DOMAIN z BY <1>8, <2>1, <2>2
    <2> QED BY <2>2, <2>3, OverSub
<1> QED BY <1>2, <1>3, <1>4, <1>5, <1>6, <1>9, <1>10 DEF HubFields, p

\* What the mobile section keeps.
LEMMA MobileHas == \A x : MobileSection(Mobile(x))
<1> TAKE x
<1> DEFINE device == Device(Sub(x, "defaults"))
           hub == BrowserStack(Sub(x, "browserstack"))
           a == Flags(x, {"enabled"})
           b == Kept("default_provider", Lower(Text(x, "default_provider")))
           c == Texts(x, {"state_dir", "artifacts_dir"})
           d == Positive(x, {"retention_hours"})
           e == KeptMap("defaults", device)
           f == KeptMap("browserstack", hub)
           p == Mobile(x)
<1>1. p = ((((a @@ b) @@ c) @@ d) @@ e) @@ f BY DEF Mobile
<1>2. /\ DOMAIN a \subseteq {"enabled"} /\ DOMAIN b \subseteq {"default_provider"}
      /\ DOMAIN c \subseteq {"state_dir", "artifacts_dir"} /\ DOMAIN d \subseteq {"retention_hours"}
    BY SomeKept, FieldsKept
<1>3. DOMAIN device \subseteq DeviceFields /\ DOMAIN hub \subseteq HubFields
      /\ DOMAIN Sub(hub, "http_proxy") \subseteq TunnelFields /\ DOMAIN Sub(hub, "local") \subseteq TunnelFields
    BY DeviceHas, HubHas
<1> HIDE DEF device, hub
<1>4. /\ DOMAIN e \subseteq {"defaults"} /\ (Sub(e, "defaults") = Nothing \/ Sub(e, "defaults") = device)
      /\ DOMAIN f \subseteq {"browserstack"} /\ (Sub(f, "browserstack") = Nothing \/ Sub(f, "browserstack") = hub)
    BY FieldsKept
<1> HIDE DEF a, b, c, d, e, f, p
<1>5. DOMAIN Nothing = {} /\ \A k : Sub(Nothing, k) = Nothing
    BY NothingHas DEF Nothing
<1>6. DOMAIN p = DOMAIN a \cup DOMAIN b \cup DOMAIN c \cup DOMAIN d \cup DOMAIN e \cup DOMAIN f
    BY <1>1 DEF @@
<1> DEFINE y == ((a @@ b) @@ c) @@ d
<1>7. DOMAIN y = DOMAIN a \cup DOMAIN b \cup DOMAIN c \cup DOMAIN d /\ p = (y @@ e) @@ f
    BY <1>1 DEF @@
<1> HIDE DEF y
<1>8. ~("defaults" \in DOMAIN y) /\ ~("browserstack" \in DOMAIN y) BY <1>2, <1>7
<1>9. Sub(p, "defaults") = Sub(e, "defaults") \/ Sub(p, "defaults") = Nothing
    <2>1. "defaults" \notin DOMAIN f BY <1>4
    <2> DEFINE z == y @@ e
    <2>2. p = z @@ f /\ DOMAIN z = DOMAIN y \cup DOMAIN e BY <1>7 DEF @@
    <2>3. Sub(z, "defaults") = Sub(e, "defaults") BY <1>8, OverSub
    <2> HIDE DEF z
    <2>4. Sub(p, "defaults") = IF "defaults" \in DOMAIN z THEN Sub(z, "defaults") ELSE Sub(f, "defaults")
        BY <2>2, OverSub
    <2>5. Sub(f, "defaults") = Nothing BY <2>1 DEF Sub, Has
    <2> QED BY <2>3, <2>4, <2>5
<1>10. Sub(p, "browserstack") = Sub(f, "browserstack")
    <2>1. "browserstack" \notin DOMAIN e BY <1>4
    <2> DEFINE z == y @@ e
    <2>2. p = z @@ f /\ DOMAIN z = DOMAIN y \cup DOMAIN e BY <1>7 DEF @@
    <2> HIDE DEF z
    <2>3. "browserstack" \notin DOMAIN z BY <1>8, <2>1, <2>2
    <2> QED BY <2>2, <2>3, OverSub
<1>11. DOMAIN p \subseteq MobileFields BY <1>2, <1>4, <1>6 DEF MobileFields
<1>12. DOMAIN Sub(p, "defaults") \subseteq DeviceFields BY <1>3, <1>4, <1>5, <1>9
<1>13. Sub(p, "browserstack") = Nothing \/ Sub(p, "browserstack") = hub
    BY <1>4, <1>10
<1> QED BY <1>3, <1>5, <1>11, <1>12, <1>13 DEF MobileSection, p

\* An account and a cluster.
LEMMA AwsRowHas == \A r : DOMAIN Account(r) \subseteq AwsRowNames /\ DOMAIN Cluster(r) \subseteq AwsRowNames
<1> TAKE r
<1>1. DOMAIN Account(r) \subseteq AwsRowNames
    <2> DEFINE chosen == FirstPerKey(LAMBDA w : w, Filtered(Map(Lower, Rows(r, "regions")), LAMBDA w : w \in Regions))
               a == Texts(r, {"name", "account_id", "role", "role_arn", "profile"})
               b == Flags(r, {"enabled"})
               c == IF Empty(chosen) THEN Nothing ELSE "regions" :> chosen
    <2>1. Account(r) = (a @@ b) @@ c BY DEF Account
    <2>2. DOMAIN a \subseteq {"name", "account_id", "role", "role_arn", "profile"} /\ DOMAIN b \subseteq {"enabled"}
        BY SomeKept
    <2> HIDE DEF chosen
    <2>3. DOMAIN c \subseteq {"regions"} BY DEF Nothing, :>
    <2> HIDE DEF a, b, c
    <2>4. DOMAIN Account(r) = DOMAIN a \cup DOMAIN b \cup DOMAIN c BY <2>1 DEF @@
    <2> QED BY <2>2, <2>3, <2>4 DEF AwsRowNames
<1>2. DOMAIN Cluster(r) \subseteq AwsRowNames
    <2> DEFINE a == Texts(r, {"account", "cluster", "tls_server_name"})
               b == "private_endpoint" :> PrivateEndpoint(Text(r, "private_endpoint"))
               c == OneOf(r, "region", Regions)
               d == OneOf(r, "server_ca", {"cluster", "system"})
               e == Flags(r, {"enabled"})
    <2>1. Cluster(r) = (((a @@ b) @@ c) @@ d) @@ e BY DEF Cluster
    <2>2. DOMAIN a \subseteq {"account", "cluster", "tls_server_name"} /\ DOMAIN e \subseteq {"enabled"}
        BY SomeKept
    <2>3. DOMAIN c \subseteq {"region"} /\ DOMAIN d \subseteq {"server_ca"}
        BY FieldsKept
    <2>4. DOMAIN b = {"private_endpoint"} BY DEF :>
    <2> HIDE DEF a, b, c, d, e
    <2>5. DOMAIN Cluster(r) = DOMAIN a \cup DOMAIN b \cup DOMAIN c \cup DOMAIN d \cup DOMAIN e
        BY <2>1 DEF @@
    <2> QED BY <2>2, <2>3, <2>4, <2>5 DEF AwsRowNames
<1> QED BY <1>1, <1>2

\* The accounts and clusters that are kept.
LEMMA AwsRowsHave ==
    ASSUME NEW rows, IsList(rows)
    PROVE  /\ \A n \in DOMAIN Accounts(rows) : DOMAIN Accounts(rows)[n] \subseteq AwsRowNames
           /\ \A n \in DOMAIN Clusters(rows) : DOMAIN Clusters(rows)[n] \subseteq AwsRowNames
<1>1. ASSUME NEW n \in DOMAIN Clusters(rows) PROVE DOMAIN Clusters(rows)[n] \subseteq AwsRowNames
    <2> DEFINE one == FirstPerKey(ClusterKey, Filtered(rows, UsableCluster))
    <2>1. Clusters(rows) = [i \in DOMAIN one |-> Cluster(one[i])]
        BY DEF Clusters, Map
    <2> HIDE DEF one
    <2>2. Clusters(rows)[n] = Cluster(one[n]) BY <1>1, <2>1
    <2> QED BY <2>2, AwsRowHas
<1> DEFINE is     == {i \in DOMAIN rows : Text(rows[i], "name") # "" /\ Text(rows[i], "account_id") \in AccountIds}
           kept   == At(rows, is)
           mapped == [i \in DOMAIN kept |-> Account(kept[i])]
           js     == {i \in DOMAIN mapped : \A j \in DOMAIN mapped : j < i => FoldedName(mapped[j]) # FoldedName(mapped[i])}
<1>2. Accounts(rows) = At(mapped, js)
    BY DEF Accounts, FirstPerKey, Filtered, Where, Map
<1>3. is \in SUBSET DOMAIN rows /\ js \in SUBSET DOMAIN mapped
    OBVIOUS
<1> HIDE DEF is, js
<1>4. IsList(kept) BY <1>3, AtIsList
<1> HIDE DEF kept
<1>5. IsList(mapped) /\ \A i \in DOMAIN mapped : mapped[i] = Account(kept[i])
    BY <1>4, MapIsList
<1> HIDE DEF mapped
<1>6. \A n \in DOMAIN At(mapped, js) : \E i \in js : At(mapped, js)[n] = mapped[i]
    BY <1>3, <1>5, AtFromRows
<1>7. ASSUME NEW n \in DOMAIN Accounts(rows) PROVE DOMAIN Accounts(rows)[n] \subseteq AwsRowNames
    <2>1. PICK i \in js : Accounts(rows)[n] = mapped[i] BY <1>2, <1>6, <1>7
    <2>2. Accounts(rows)[n] = Account(kept[i]) BY <2>1, <1>3, <1>5
    <2> QED BY <2>2, AwsRowHas
<1> QED BY <1>1, <1>7

\* What AWS keeps.
LEMMA AwsHas ==
    ASSUME NEW x, ListsHold("aws", x)
    PROVE  AwsSection(Aws(x))
<1> DEFINE a == Flags(x, {"enabled"})
           b == OneOf(x, "provider", AwsProviders)
           c == OneOf(x, "default_region", Regions)
           d == Texts(x, {"domain", "username", "password", "idp_url", "source_profile", "default_account",
                          "kubeconfig_path"})
           e == Within(x, "session_duration_seconds", 900, 43200)
           f == IF Has(x, "accounts") THEN "accounts" :> Accounts(x.accounts) ELSE Nothing
           g == IF Has(x, "eks_clusters") THEN "eks_clusters" :> Clusters(x.eks_clusters) ELSE Nothing
           p == Aws(x)
<1>1. p = (((((a @@ b) @@ c) @@ d) @@ e) @@ f) @@ g BY DEF Aws
<1>2. /\ DOMAIN a \subseteq {"enabled"}
      /\ DOMAIN d \subseteq {"domain", "username", "password", "idp_url", "source_profile", "default_account",
                          "kubeconfig_path"}
    BY SomeKept
<1>3. DOMAIN b \subseteq {"provider"} /\ DOMAIN c \subseteq {"default_region"} /\ DOMAIN e \subseteq {"session_duration_seconds"}
    <2>1. DOMAIN b \subseteq {"provider"} BY FieldsKept
    <2>2. DOMAIN c \subseteq {"default_region"} BY FieldsKept
    <2>3. \A lo, hi : DOMAIN Within(x, "session_duration_seconds", lo, hi) \subseteq {"session_duration_seconds"}
        BY FieldsKept
    <2>4. DOMAIN e \subseteq {"session_duration_seconds"} BY <2>3, SMT
    <2> QED BY <2>1, <2>2, <2>4
<1>4. IsList(Rows(x, "accounts")) /\ IsList(Rows(x, "eks_clusters"))
    BY ListsByService
<1>5. /\ DOMAIN f \subseteq {"accounts"}
      /\ "accounts" \in DOMAIN f => \A i \in DOMAIN f["accounts"] : DOMAIN f["accounts"][i] \subseteq AwsRowNames
    <2>1. DOMAIN f \subseteq {"accounts"} /\ ("accounts" \in DOMAIN f => Has(x, "accounts") /\ f["accounts"] = Accounts(x["accounts"]))
        BY DEF Nothing, :>
    <2>2. Has(x, "accounts") => IsList(x["accounts"]) BY <1>4 DEF Rows
    <2> HIDE DEF f
    <2> QED BY <2>1, <2>2, AwsRowsHave
<1>6. /\ DOMAIN g \subseteq {"eks_clusters"}
      /\ "eks_clusters" \in DOMAIN g => \A i \in DOMAIN g["eks_clusters"] : DOMAIN g["eks_clusters"][i] \subseteq AwsRowNames
    <2>1. DOMAIN g \subseteq {"eks_clusters"} /\ ("eks_clusters" \in DOMAIN g => Has(x, "eks_clusters") /\ g["eks_clusters"] = Clusters(x["eks_clusters"]))
        BY DEF Nothing, :>
    <2>2. Has(x, "eks_clusters") => IsList(x["eks_clusters"])
        BY <1>4, SMTT(30) DEF Rows
    <2> HIDE DEF g
    <2> QED BY <2>1, <2>2, AwsRowsHave
<1> HIDE DEF a, b, c, d, e, f, g, p
<1> DEFINE y == (((a @@ b) @@ c) @@ d) @@ e
<1>7. p = (y @@ f) @@ g /\ DOMAIN y = DOMAIN a \cup DOMAIN b \cup DOMAIN c \cup DOMAIN d \cup DOMAIN e
    BY <1>1, ZenonT(40) DEF @@
<1> HIDE DEF y
<1>8. DOMAIN p = DOMAIN y \cup DOMAIN f \cup DOMAIN g BY <1>7 DEF @@
<1>9. DOMAIN p \subseteq AwsFields
    BY <1>2, <1>3, <1>5, <1>6, <1>7, <1>8 DEF AwsFields
<1>10. "accounts" \notin DOMAIN y /\ "eks_clusters" \notin DOMAIN y /\ "accounts" \notin DOMAIN g /\ "eks_clusters" \notin DOMAIN f
    BY <1>2, <1>3, <1>5, <1>6, <1>7
<1>11. /\ "accounts" \in DOMAIN p => "accounts" \in DOMAIN f /\ p["accounts"] = f["accounts"]
       /\ "eks_clusters" \in DOMAIN p => "eks_clusters" \in DOMAIN g /\ p["eks_clusters"] = g["eks_clusters"]
    BY <1>7, <1>8, <1>10 DEF @@
<1>12. \A k \in {"accounts", "eks_clusters"} : \A i \in DOMAIN Rows(p, k) : DOMAIN Rows(p, k)[i] \subseteq AwsRowNames
    BY <1>5, <1>6, <1>11, EmptyIsList DEF Rows, Has
<1> QED BY <1>9, <1>12 DEF AwsSection, p

\* The model provider, as it is read.
LEMMA LlmTreeHas == \A x : LlmSection(LlmTree(x))
<1> TAKE x
<1> DEFINE inner == [k \in DOMAIN x.ai_platform \cap {"auth"} |-> Only(x.ai_platform.auth, {"username", "password", "usercase"})]
           a == Only(x, {"provider", "model", "max_tokens"})
           b == Texts(x, {"api_key", "base_url", "api_base", "baseURL", "endpoint"})
           c == OneOf(x, "reasoning_effort", AllEfforts)
           d == Within(x, "max_context_tokens", 1, 1000000)
           e == IF Has(x, "ai_platform") THEN "ai_platform" :> inner ELSE Nothing
           p == LlmTree(x)
<1>1. p = (((a @@ b) @@ c) @@ d) @@ e BY DEF LlmTree
<1>2. DOMAIN a \subseteq {"provider", "model", "max_tokens"} /\ DOMAIN b \subseteq {"api_key", "base_url", "api_base", "baseURL", "endpoint"}
    BY SomeKept
<1>3. DOMAIN c \subseteq {"reasoning_effort"} /\ DOMAIN d \subseteq {"max_context_tokens"}
    <2>1. DOMAIN c \subseteq {"reasoning_effort"} BY FieldsKept
    <2>2. \A lo, hi : DOMAIN Within(x, "max_context_tokens", lo, hi) \subseteq {"max_context_tokens"}
        BY FieldsKept
    <2>3. DOMAIN d \subseteq {"max_context_tokens"} BY <2>2, SMT
    <2> QED BY <2>1, <2>3
<1>4. DOMAIN inner \subseteq {"auth"} /\ DOMAIN Sub(inner, "auth") \subseteq {"username", "password", "usercase"}
    <2>1. DOMAIN inner \subseteq {"auth"}
        OBVIOUS
    <2>2. "auth" \in DOMAIN inner => Sub(inner, "auth") = Only(x.ai_platform.auth, {"username", "password", "usercase"})
        BY DEF Sub, Has
    <2>3. "auth" \notin DOMAIN inner => Sub(inner, "auth") = Nothing BY DEF Sub, Has
    <2>4. DOMAIN Only(x.ai_platform.auth, {"username", "password", "usercase"}) \subseteq {"username", "password", "usercase"}
        BY SomeKept
    <2>5. DOMAIN Nothing = {} BY DEF Nothing
    <2> QED BY <2>1, <2>2, <2>3, <2>4, <2>5
<1> HIDE DEF inner
<1>5. DOMAIN e \subseteq {"ai_platform"} /\ (Sub(e, "ai_platform") = inner \/ Sub(e, "ai_platform") = Nothing)
    BY DEF Sub, Has, Nothing, :>
<1> HIDE DEF a, b, c, d, e, p
<1> DEFINE y == ((a @@ b) @@ c) @@ d
<1>6. p = y @@ e /\ DOMAIN y = DOMAIN a \cup DOMAIN b \cup DOMAIN c \cup DOMAIN d
    BY <1>1 DEF @@
<1> HIDE DEF y
<1>7. DOMAIN p = DOMAIN y \cup DOMAIN e BY <1>6 DEF @@
<1>8. DOMAIN p \subseteq LlmFields BY <1>2, <1>3, <1>5, <1>6, <1>7 DEF LlmFields
<1>9. "ai_platform" \notin DOMAIN y BY <1>2, <1>3, <1>6
<1>10. Sub(p, "ai_platform") = Sub(e, "ai_platform") BY <1>6, <1>9, OverSub
<1>11. DOMAIN Nothing = {} /\ \A k : Sub(Nothing, k) = Nothing
    BY NothingHas DEF Nothing
<1> QED BY <1>4, <1>5, <1>8, <1>10, <1>11 DEF LlmSection, p

\* The same after the model was set right.
LEMMA CanonicalLlmHas ==
    ASSUME NEW cat, NEW m, LlmSection(m)
    PROVE  LlmSection(CanonicalLlm(cat, m))
<1> DEFINE q == Provider(Lower(Text(m, "provider")))
           auth == Texts(Sub(Sub(m, "ai_platform"), "auth"), {"username", "password", "usercase"})
           inner == "auth" :> auth
           a == "provider" :> q
           b == IF Has(m, "model") THEN "model" :> Coerced(cat, q, m.model) ELSE Nothing
           c == IF q = AiPlatform /\ DOMAIN auth # {} THEN "ai_platform" :> inner ELSE Nothing
           d == Without(m, {"ai_platform"})
           p == CanonicalLlm(cat, m)
<1>1. p = m \/ p = ((a @@ b) @@ c) @@ d BY DEF CanonicalLlm
<1>2. DOMAIN a = {"provider"} /\ DOMAIN b \subseteq {"model"} /\ DOMAIN d = DOMAIN m \ {"ai_platform"}
    BY DEF Nothing, :>, Without
<1>3. DOMAIN inner = {"auth"} /\ Sub(inner, "auth") = auth BY DEF :>, Sub, Has
<1>4. DOMAIN auth \subseteq {"username", "password", "usercase"} BY SomeKept
<1> HIDE DEF auth, inner
<1>5. DOMAIN c \subseteq {"ai_platform"} /\ (Sub(c, "ai_platform") = inner \/ Sub(c, "ai_platform") = Nothing)
    BY DEF Sub, Has, Nothing, :>
<1>6. DOMAIN Nothing = {} /\ \A k : Sub(Nothing, k) = Nothing
    BY NothingHas DEF Nothing
<1>7. DOMAIN m \subseteq LlmFields BY DEF LlmSection
<1> HIDE DEF a, b, c, d, p
<1>8. CASE p = ((a @@ b) @@ c) @@ d
    <2>1. DOMAIN p = DOMAIN a \cup DOMAIN b \cup DOMAIN c \cup DOMAIN d
        BY <1>8 DEF @@
    <2>2. DOMAIN p \subseteq LlmFields BY <1>2, <1>5, <1>7, <2>1 DEF LlmFields
    <2> DEFINE y == a @@ b
    <2>3. DOMAIN y = DOMAIN a \cup DOMAIN b /\ p = (y @@ c) @@ d BY <1>8 DEF @@
    <2> HIDE DEF y
    <2>4. "ai_platform" \notin DOMAIN y /\ "ai_platform" \notin DOMAIN d
        BY <1>2, <2>3
    <2>5. Sub(p, "ai_platform") = Sub(c, "ai_platform") \/ Sub(p, "ai_platform") = Nothing
        <3> DEFINE z == y @@ c
        <3>1. p = z @@ d BY <2>3
        <3>2. Sub(z, "ai_platform") = Sub(c, "ai_platform") BY <2>4, OverSub
        <3> HIDE DEF z
        <3>3. Sub(p, "ai_platform") = IF "ai_platform" \in DOMAIN z THEN Sub(z, "ai_platform") ELSE Sub(d, "ai_platform")
            BY <3>1, OverSub
        <3>4. Sub(d, "ai_platform") = Nothing BY <2>4 DEF Sub, Has
        <3> QED BY <3>2, <3>3, <3>4
    <2> QED BY <1>3, <1>4, <1>5, <1>6, <2>2, <2>5 DEF LlmSection, p
<1> QED BY <1>1, <1>8 DEF p

-----------------------------------------------------------------------------
(* What a row holds besides: no section the program does not know, and of  *)
(* the model provider only its fields.                                     *)

\* What is saved fits.
LEMMA SavedFits == \A cat, x : RowFits(Canonical(cat, Sanitized(x)))
<1> TAKE cat, x
<1> DEFINE z == Sanitized(x)
           l == CanonicalLlm(cat, z.llm)
           a == KeptMap("llm", l)
           b == Without(z, {"llm"})
           c == Canonical(cat, z)
<1>1. DOMAIN z \subseteq Sections /\ ("llm" \in DOMAIN z => z["llm"] = LlmTree(x["llm"]))
    <2>1. Section("llm", x["llm"]) = LlmTree(x["llm"]) BY DEF Section
    <2> QED BY <2>1 DEF Sanitized, Filled
<1>2. LlmSection(Nothing)
    <2>1. DOMAIN Nothing = {} /\ \A k : Sub(Nothing, k) = Nothing
        BY NothingHas DEF Nothing
    <2> QED BY <2>1 DEF LlmSection
<1> HIDE DEF z
<1>3. CASE "llm" \notin DOMAIN z
    <2>1. c = z BY <1>3 DEF Canonical
    <2>2. Sub(z, "llm") = Nothing BY <1>3 DEF Sub, Has
    <2> QED BY <1>1, <1>2, <2>1, <2>2 DEF RowFits, z
<1>4. CASE "llm" \in DOMAIN z
    <2>1. c = a @@ b BY <1>4 DEF Canonical
    <2>2. LlmSection(l) BY <1>1, <1>4, LlmTreeHas, CanonicalLlmHas
    <2> HIDE DEF l
    <2>3. DOMAIN a \subseteq {"llm"} /\ (Sub(a, "llm") = Nothing \/ Sub(a, "llm") = l)
        BY FieldsKept
    <2>4. DOMAIN b = DOMAIN z \ {"llm"} BY DEF Without
    <2> HIDE DEF a, b, c
    <2>5. DOMAIN c = DOMAIN a \cup DOMAIN b BY <2>1 DEF @@
    <2>6. Sub(c, "llm") = Sub(a, "llm")
        <3>1. "llm" \notin DOMAIN a => Sub(a, "llm") = Nothing /\ Sub(b, "llm") = Nothing
            BY <2>4 DEF Sub, Has
        <3> QED BY <2>1, <3>1, OverSub
    <2>7. "llm" \in Sections BY DEF Sections
    <2> QED BY <1>1, <1>2, <2>2, <2>3, <2>4, <2>5, <2>6, <2>7 DEF RowFits, c, z
<1> QED BY <1>3, <1>4

\* Every step leaves a row that fits.
LEMMA AllFits == Spec => []ConfigFits
<1>1. Init => ConfigFits
    <2>1. DOMAIN Nothing = {} /\ \A k : Sub(Nothing, k) = Nothing
        BY NothingHas DEF Nothing
    <2> QED BY <2>1 DEF Init, FormInit, ConfigFits, RowFits, LlmSection
<1>2. ConfigFits /\ [Next]_<<formVars, catVars, part>> => ConfigFits'
    <2> SUFFICES ASSUME ConfigFits, [Next]_<<formVars, catVars, part>> PROVE RowFits(config')
        BY DEF ConfigFits
    <2>1. \A form \in Forms : Post(form) => RowFits(config')
        BY SavedFits DEF Post, Saved
    <2>2. \A given \in Given : Replace(given) => RowFits(config')
        BY SavedFits DEF Replace
    <2>3. config' = config => RowFits(config') BY DEF ConfigFits
    <2>4. (\E form \in Forms : Refuse(form)) \/ (\E cat \in Catalogs : Registered(cat)) => config' = config
        BY DEF Refuse, Registered, formVars
    <2>5. FormNext => RowFits(config') BY <2>1, <2>2, <2>3, <2>4 DEF FormNext
    <2> QED BY <2>3, <2>5 DEF Next, formVars
<1> QED BY <1>1, <1>2, PTL DEF Spec

\* A proxy section that was read answers with no secret.
LEMMA ProxyIsClean ==
    ASSUME NEW m, ProxySection(m)
    PROVE  /\ Clean2(PublicSection("proxy", m))
           /\ \A i \in DOMAIN Rows(m, "proxies") : Parts(PublicSection("proxy", m).proxies[i].url).user = ""
<1>1. DOMAIN m \subseteq {"enabled", "proxies", "default", "assignments"}
    BY DEF ProxySection
<1>2. \A i \in DOMAIN Rows(m, "proxies") : /\ DOMAIN Rows(m, "proxies")[i] \subseteq {"name", "url", "username", "password", "no_proxy"}
                                          /\ "url" \in DOMAIN Rows(m, "proxies")[i]
    BY EntryRows
<1> QED BY <1>1, <1>2, PublicProxyClean

\* Whatever a row holds that was read and fits, the API answers with none of its secrets.
LEMMA PublicIsClean ==
    ASSUME NEW row, RowRead(row), RowFits(row)
    PROVE  /\ Secrets(Public(row)) = {}
           /\ \A s \in DOMAIN row : \A i \in DOMAIN Rows(row[s], "proxies") : Parts(Public(row)[s].proxies[i].url).user = ""
<1> DEFINE p == Public(row)
<1>1. DOMAIN p = DOMAIN row /\ \A s \in DOMAIN row : p[s] = PublicSection(s, row[s]) /\ Sub(row, s) = row[s]
    BY DEF Public, Sub, Has
<1>2. DOMAIN row \subseteq Sections /\ \A s \in DOMAIN row : s # "llm" => SectionRead(s, row[s])
    BY <1>1 DEF RowFits, RowRead
<1>3. DOMAIN Nothing = {} /\ (\A k : Sub(Nothing, k) = Nothing) /\ \A k : Rows(Nothing, k) = <<>>
    BY NothingHas DEF Nothing
<1> HIDE DEF p
<1>4. ASSUME NEW s \in DOMAIN row, s \in Services
      PROVE  Clean2(p[s]) /\ Rows(row[s], "proxies") = <<>>
    <2>1. ServiceSection(s, row[s]) BY <1>2, <1>4, ServiceRead DEF Services, Named
    <2>2. RowsNamed(Rows(row[s], "instances")) BY <1>4, <2>1, ServiceRows
    <2>3. DOMAIN row[s] \subseteq {"enabled", "default_instance", "instances", "access"} \cup SharedFields
        BY <2>1 DEF ServiceSection
    <2>4. "proxies" \notin DOMAIN row[s] BY <2>3 DEF SharedFields
    <2> QED BY <1>1, <1>4, <2>2, <2>3, <2>4, PublicServiceClean DEF Rows, Has
<1>5. ASSUME NEW s \in DOMAIN row, s = "proxy"
      PROVE  Clean2(p[s]) /\ \A i \in DOMAIN Rows(row[s], "proxies") : Parts(p[s].proxies[i].url).user = ""
    <2>1. ProxySection(row[s]) BY <1>2, <1>5, ProxyRead
    <2>2. /\ Clean2(PublicSection("proxy", row[s]))
          /\ \A i \in DOMAIN Rows(row[s], "proxies") : Parts(PublicSection("proxy", row[s]).proxies[i].url).user = ""
        BY <2>1, ProxyIsClean
    <2>3. p[s] = PublicSection("proxy", row[s]) BY <1>1, <1>5
    <2> QED BY <2>2, <2>3
<1>6. ASSUME NEW s \in DOMAIN row, s = "aws"
      PROVE  Clean2(p[s]) /\ Rows(row[s], "proxies") = <<>>
    <2>1. AwsSection(row[s])
        <3>1. CASE row[s] = Nothing BY <3>1, <1>3, EmptyIsList DEF AwsSection
        <3>2. CASE row[s] # Nothing
            <4>1. PICK x : ListsHold("aws", x) /\ row[s] = Section("aws", x)
                BY <1>2, <1>6, <3>2 DEF SectionRead
            <4>2. Section("aws", x) = Aws(x) BY SectionOf
            <4> QED BY <4>1, <4>2, AwsHas
        <3> QED BY <3>1, <3>2
    <2>2. "proxies" \notin DOMAIN row[s] BY <2>1 DEF AwsSection, AwsFields
    <2> QED BY <1>1, <1>6, <2>1, <2>2, PublicAwsClean DEF AwsSection, Rows, Has
<1>7. ASSUME NEW s \in DOMAIN row, s = "github"
      PROVE  Clean2(p[s]) /\ Rows(row[s], "proxies") = <<>>
    <2>1. DOMAIN row[s] \subseteq {"enabled", "api_token", "base_url"}
        <3>1. \A x : Section("github", x) = GitHub(x) BY DEF Section, Named
        <3> QED BY <1>2, <1>3, <1>7, <3>1, GitHubFields DEF SectionRead
    <2> QED BY <1>1, <1>7, <2>1, PublicGitHubClean DEF Rows, Has
<1>8. ASSUME NEW s \in DOMAIN row, s = "mobile-auto"
      PROVE  Clean2(p[s]) /\ Rows(row[s], "proxies") = <<>>
    <2>1. MobileSection(row[s])
        <3>1. \A x : Section("mobile-auto", x) = Mobile(x) BY DEF Section, Named
        <3>2. MobileSection(Nothing) BY <1>3 DEF MobileSection
        <3> QED BY <1>2, <1>8, <3>1, <3>2, MobileHas DEF SectionRead
    <2>2. "proxies" \notin DOMAIN row[s] BY <2>1 DEF MobileSection, MobileFields
    <2> QED BY <1>1, <1>8, <2>1, <2>2, PublicMobileClean DEF Rows, Has
<1>9. ASSUME NEW s \in DOMAIN row, s \in {"git", "debug"}
      PROVE  Clean2(p[s]) /\ Rows(row[s], "proxies") = <<>>
    <2>1. DOMAIN row[s] \subseteq {"enabled", "log_level", "user"} /\ DOMAIN Sub(row[s], "user") \subseteq {"name", "email"}
        <3>1. s # "llm" BY <1>9
        <3> QED BY <1>2, <1>3, <1>9, <3>1, OtherFields DEF SectionRead
    <2> QED BY <1>1, <1>9, <2>1, PublicOtherClean DEF Rows, Has
<1>10. ASSUME NEW s \in DOMAIN row, s = "llm"
       PROVE  Clean2(p[s]) /\ Rows(row[s], "proxies") = <<>>
    <2>1. LlmSection(row[s]) BY <1>1, <1>10 DEF RowFits
    <2>2. "proxies" \notin DOMAIN row[s] BY <2>1 DEF LlmSection, LlmFields
    <2> QED BY <1>1, <1>10, <2>1, <2>2, PublicLlmClean DEF Rows, Has
<1>11. ASSUME NEW s \in DOMAIN row
       PROVE  Clean2(p[s]) /\ \A i \in DOMAIN Rows(row[s], "proxies") : Parts(p[s].proxies[i].url).user = ""
    <2>1. s \in Services \cup {"proxy", "aws", "github", "mobile-auto", "git", "debug", "llm"}
        BY <1>2 DEF Sections, Services, Named
    <2>2. DOMAIN <<>> = {} BY EmptyIsList
    <2> QED BY <2>1, <2>2, <1>4, <1>5, <1>6, <1>7, <1>8, <1>9, <1>10
<1>12. Clean3(p)
    <2>1. Sections \cap SecretFields = {} /\ Sections \cap RowFields = {}
        BY DEF Sections, SecretFields, RowFields
    <2> QED BY <1>1, <1>2, <1>11, <2>1 DEF Clean3, Clean0
<1> QED BY <1>1, <1>11, <1>12, CleanHasNone DEF p

\* FormsHide holds of every behaviour: no answer of the API, no Secret and no audit row
\* gives a secret away (public_sections of runtime_profile.py, encrypt_sensitive_fields
\* and the audit of runtime_profile_service.py).
THEOREM SecretsAreHidden == Spec => []FormsHide
<1>1. ConfigRead /\ ConfigFits => FormsHide
    <2> SUFFICES ASSUME RowRead(config), RowFits(config) PROVE SecretsHidden
        BY DEF FormsHide, ConfigRead, ConfigFits
    <2>1. /\ Secrets(Public(config)) = {}
          /\ \A s \in DOMAIN config : \A i \in DOMAIN Rows(config[s], "proxies") : Parts(Public(config)[s].proxies[i].url).user = ""
        BY PublicIsClean
    <2>2. \A s \in Secrets(Sealed(config)) : s[2] \in Covered \/ SealedFrom(s, Secrets(config))
        BY SecretIsSealed
    <2>3. \A other \in Given : Covers(Audited(config, Canonical(catalog, Sanitized(other))))
        BY AuditCovers
    <2> QED BY <2>1, <2>2, <2>3 DEF SecretsHidden
<1> QED BY <1>1, RowsAreRead, AllFits, PTL

-----------------------------------------------------------------------------
(* Reading what was read: each part of a section, read again of the        *)
(* section it is a part of, is what it was.                                *)

\* Two maps with the same fields are one.
LEMMA SameFields ==
    ASSUME NEW f, NEW g, IsFcn(f), IsFcn(g), DOMAIN f = DOMAIN g, \A k \in DOMAIN f : f[k] = g[k]
    PROVE  f = g
BY DEF IsFcn

\* A word that was folded stays.
LEMMA LowerTwice == \A w : Lower(Lower(w)) = Lower(w)
BY WordsAssumption DEF Lower

\* A flag that was read stays.
LEMMA TruthTwice == \A w : Truth(Truth(w)) = Truth(w)
<1>1. Lower("true") = "true" /\ Lower("false") = "false" BY PlainWords DEF Plain
<1> QED BY <1>1 DEF Truth

\* Words, flags, numbers and whatever is let through.
LEMMA TextsTwice ==
    ASSUME NEW x, NEW ks, NEW y, Agrees(y, Texts(x, ks), ks)
    PROVE  Texts(y, ks) = Texts(x, ks)
<1> DEFINE t == Texts(x, ks)
           u == Texts(y, ks)
<1>1. DOMAIN t \subseteq ks /\ \A k \in DOMAIN t : t[k] # "" BY DEF Texts
<1>2. IsFcn(t) /\ IsFcn(u) BY DEF Texts, IsFcn
<1>3. DOMAIN u = {k \in DOMAIN y \cap ks : y[k] # ""} /\ \A k \in DOMAIN u : u[k] = y[k]
    BY DEF Texts
<1> HIDE DEF t, u
<1>4. \A k \in ks : (k \in DOMAIN y <=> k \in DOMAIN t) /\ (k \in DOMAIN t => y[k] = t[k])
    BY DEF Agrees, Has, t
<1> QED BY <1>1, <1>2, <1>3, <1>4, SameFields DEF t, u

\* Flags that were read stay.
LEMMA FlagsTwice ==
    ASSUME NEW x, NEW ks, NEW y, Agrees(y, Flags(x, ks), ks)
    PROVE  Flags(y, ks) = Flags(x, ks)
<1> DEFINE t == Flags(x, ks)
           u == Flags(y, ks)
<1>1. DOMAIN t \subseteq ks /\ \A k \in DOMAIN t : Truth(t[k]) = t[k]
    BY TruthTwice DEF Flags
<1>2. IsFcn(t) /\ IsFcn(u) BY DEF Flags, IsFcn
<1>3. DOMAIN u = DOMAIN y \cap ks /\ \A k \in DOMAIN u : u[k] = Truth(y[k])
    BY DEF Flags
<1> HIDE DEF t, u
<1>4. \A k \in ks : (k \in DOMAIN y <=> k \in DOMAIN t) /\ (k \in DOMAIN t => y[k] = t[k])
    BY DEF Agrees, Has, t
<1>5. DOMAIN u = DOMAIN t /\ \A k \in DOMAIN u : u[k] = t[k] BY <1>1, <1>3, <1>4
<1> QED BY <1>2, <1>5, SameFields DEF t, u

\* Numbers that were let through stay.
LEMMA PositiveTwice ==
    ASSUME NEW x, NEW ks, NEW y, Agrees(y, Positive(x, ks), ks)
    PROVE  Positive(y, ks) = Positive(x, ks)
<1> DEFINE Fits(w) == w \in DOMAIN Number /\ Number[w] > 0
           t == Positive(x, ks)
           u == Positive(y, ks)
<1>1. DOMAIN t \subseteq ks /\ \A k \in DOMAIN t : Fits(t[k]) BY DEF Positive
<1>2. IsFcn(t) /\ IsFcn(u) BY DEF Positive, IsFcn
<1>3. DOMAIN u = {k \in DOMAIN y \cap ks : Fits(y[k])} /\ \A k \in DOMAIN u : u[k] = y[k]
    BY DEF Positive
<1> HIDE DEF t, u, Fits
<1>4. \A k \in ks : (k \in DOMAIN y <=> k \in DOMAIN t) /\ (k \in DOMAIN t => y[k] = t[k])
    BY DEF Agrees, Has, t
<1>5. DOMAIN u = DOMAIN t /\ \A k \in DOMAIN u : u[k] = t[k] BY <1>1, <1>3, <1>4
<1> QED BY <1>2, <1>5, SameFields DEF t, u

\* A field that was kept reads as the word it was kept for.
LEMMA KeptTwice ==
    ASSUME NEW k, NEW w, NEW y, Agrees(y, Kept(k, w), {k})
    PROVE  Text(y, k) = w
<1>1. Has(Kept(k, w), k) <=> w # "" BY KeptField, ZenonT(40) DEF Has
<1>2. w # "" => Kept(k, w)[k] = w BY KeptField
<1> QED BY <1>1, <1>2 DEF Agrees, Text

\* A choice.
LEMMA OneOfTwice ==
    ASSUME NEW x, NEW k, NEW ws, NEW y, Agrees(y, OneOf(x, k, ws), {k})
    PROVE  OneOf(y, k, ws) = OneOf(x, k, ws)
<1> DEFINE Folding(w) == IF Lower(w) \in ws THEN Lower(w) ELSE ""
           w == Folding(Text(x, k))
<1>1. Text(y, k) = w BY KeptTwice DEF OneOf
<1>2. Lower("") = "" BY PlainWords DEF Plain
<1>3. Folding(w) = w BY <1>2, LowerTwice
<1> QED BY <1>1, <1>3 DEF OneOf

\* A number in its range.
LEMMA WithinTwice ==
    ASSUME NEW x, NEW k, NEW lo, NEW hi, NEW y, Agrees(y, Within(x, k, lo, hi), {k})
    PROVE  Within(y, k, lo, hi) = Within(x, k, lo, hi)
<1>1. CASE InRange(Text(x, k), lo, hi)
    <2>1. k \in DOMAIN x BY <1>1, WordsAssumption DEF Text, Has, InRange
    <2>2. Within(x, k, lo, hi) = k :> x[k] /\ Text(x, k) = x[k]
        BY <1>1, <2>1 DEF Within, Text, Has
    <2>3. Has(k :> x[k], k) /\ (k :> x[k])[k] = x[k] BY DEF Has, :>
    <2>4. Has(y, k) /\ y[k] = x[k] BY <2>2, <2>3 DEF Agrees
    <2> QED BY <1>1, <2>2, <2>4 DEF Within, Text
<1>2. CASE ~InRange(Text(x, k), lo, hi)
    <2>1. Within(x, k, lo, hi) = Nothing BY <1>2 DEF Within
    <2>2. ~Has(y, k) BY <2>1, NothingHas DEF Agrees
    <2>3. ~InRange(Text(y, k), lo, hi) BY <2>2, WordsAssumption DEF Text, InRange
    <2> QED BY <2>1, <2>3 DEF Within
<1> QED BY <1>1, <1>2

\* A map of its own.
LEMMA MapTwice ==
    ASSUME NEW k, NEW v, IsFcn(v), NEW y, Agrees(y, KeptMap(k, v), {k})
    PROVE  Sub(y, k) = v
<1>1. CASE DOMAIN v = {}
    <2>1. KeptMap(k, v) = Nothing BY <1>1 DEF KeptMap
    <2>2. ~Has(y, k) BY <2>1, NothingHas DEF Agrees
    <2>3. v = Nothing
        <3>1. IsFcn(Nothing) /\ DOMAIN Nothing = {} BY DEF Nothing, IsFcn
        <3> QED BY <1>1, <3>1, SameFields
    <2> QED BY <2>2, <2>3 DEF Sub
<1>2. CASE DOMAIN v # {}
    <2>1. Has(KeptMap(k, v), k) /\ KeptMap(k, v)[k] = v BY <1>2 DEF KeptMap, Has, :>
    <2> QED BY <2>1 DEF Agrees, Sub
<1> QED BY <1>1, <1>2

\* A field under its first name, when none of its other names is there.
LEMMA FirstAlone ==
    ASSUME NEW y, NEW a, NEW b, NEW c, NEW d
    PROVE  /\ ~Has(y, b) => FirstText(y, <<a, b>>) = Text(y, a)
           /\ ~Has(y, b) /\ ~Has(y, c) => FirstText(y, <<a, b, c>>) = Text(y, a)
           /\ ~Has(y, b) /\ ~Has(y, c) /\ ~Has(y, d) => FirstText(y, <<a, b, c, d>>) = Text(y, a)
<1>1. ASSUME ~Has(y, b) PROVE FirstText(y, <<a, b>>) = Text(y, a)
    <2> DEFINE ks == <<a, b>>
    <2>1. IsList(ks) /\ DOMAIN ks = {1, 2} /\ ks[1] = a /\ ks[2] = b BY Tuples
    <2> HIDE DEF ks
    <2>2. \A i \in DOMAIN ks : i # 1 => Text(y, ks[i]) = "" BY <1>1, <2>1 DEF Text
    <2>3. FirstText(y, ks) = Text(y, ks[1]) BY <2>1, <2>2, FirstTextIs
    <2> QED BY <2>1, <2>3 DEF ks
<1>2. ASSUME ~Has(y, b), ~Has(y, c) PROVE FirstText(y, <<a, b, c>>) = Text(y, a)
    <2> DEFINE ks == <<a, b, c>>
    <2>3. IsList(ks) BY Tuples
    <2>4. DOMAIN ks = 1..3 /\ 1..3 = {1, 2, 3} /\ ks[1] = a /\ ks[2] = b /\ ks[3] = c
        OBVIOUS
    <2> HIDE DEF ks
    <2>1. IsList(ks) /\ DOMAIN ks = {1, 2, 3} /\ ks[1] = a /\ ks[2] = b /\ ks[3] = c
        BY <2>3, <2>4
    <2>2. \A i \in DOMAIN ks : i # 1 => Text(y, ks[i]) = "" BY <1>2, <2>1 DEF Text
    <2>5. FirstText(y, ks) = Text(y, ks[1]) BY <2>1, <2>2, FirstTextIs
    <2> QED BY <2>1, <2>5 DEF ks
<1>3. ASSUME ~Has(y, b), ~Has(y, c), ~Has(y, d) PROVE FirstText(y, <<a, b, c, d>>) = Text(y, a)
    <2> DEFINE ks == <<a, b, c, d>>
    <2>3. IsList(ks) BY Tuples
    <2>4. DOMAIN ks = 1..4 /\ 1..4 = {1, 2, 3, 4} /\ ks[1] = a /\ ks[2] = b /\ ks[3] = c /\ ks[4] = d
        OBVIOUS
    <2> HIDE DEF ks
    <2>1. IsList(ks) /\ DOMAIN ks = {1, 2, 3, 4} /\ ks[1] = a /\ ks[2] = b /\ ks[3] = c /\ ks[4] = d
        BY <2>3, <2>4
    <2>2. \A i \in DOMAIN ks : i # 1 => Text(y, ks[i]) = "" BY <1>3, <2>1 DEF Text
    <2>5. FirstText(y, ks) = Text(y, ks[1]) BY <2>1, <2>2, FirstTextIs
    <2> QED BY <2>1, <2>5 DEF ks
<1> QED BY <1>1, <1>2, <1>3

\* A service's address that was cut stays, and is not blank unless it was.
LEMMA SiteTwice == \A w : Site(Site(w)) = Site(w) /\ (Site(w) = "" <=> w = "")
<1> TAKE w
<1>1. CASE w \in DOMAIN Address
    <2> DEFINE a == AsSite(Address[w])
    <2>1. \E v \in DOMAIN Address : Address[v] = a BY <1>1, AddressAssumption
    <2>2. Written(a) \in DOMAIN Address /\ Address[Written(a)] = a /\ Written(a) # ""
        BY <2>1, WrittenReads DEF Written
    <2>3. AsSite(a) = a
        <3>1. "path" \in DOMAIN Address[w] BY <1>1, AddressAssumption
        <3>2. Slashless(Slashless(Address[w].path)) = Slashless(Address[w].path)
            BY DEF Slashless
        <3>3. DOMAIN a = DOMAIN Address[w] /\ a.path = Slashless(Address[w].path) /\ IsFcn(a)
            BY <3>1 DEF AsSite, IsFcn
        <3> HIDE DEF a
        <3>4. AsSite(a) = [a EXCEPT !.path = Slashless(a.path)] BY DEF AsSite
        <3> QED BY <3>2, <3>3, <3>4 DEF IsFcn
    <2>4. Site(w) = Written(a) BY <1>1 DEF Site
    <2> HIDE DEF a
    <2>5. Site(Written(a)) = Written(AsSite(a)) BY <2>2 DEF Site
    <2> QED BY <1>1, <2>2, <2>3, <2>4, <2>5, WordsAssumption
<1>2. CASE w \notin DOMAIN Address BY <1>2 DEF Site
<1> QED BY <1>1, <1>2

\* GitHub.
LEMMA GitHubTwice == \A x : GitHub(GitHub(x)) = GitHub(x) /\ IsFcn(GitHub(x))
<1> TAKE x
<1> DEFINE ka == {"enabled"}
           kb == {"api_token"}
           kc == {"base_url"}
           a(z) == Flags(z, ka)
           b(z) == Kept("api_token", FirstText(z, <<"api_token", "token", "access_token">>))
           c(z) == Kept("base_url", Site(FirstText(z, <<"base_url", "api_base_url">>)))
           y == GitHub(x)
<1>1. \A z : GitHub(z) = (a(z) @@ b(z)) @@ c(z) BY DEF GitHub
<1>2a. DOMAIN a(x) \subseteq ka BY SomeKept
<1>2b. DOMAIN b(x) \subseteq kb BY FieldsKept
<1>2c. DOMAIN c(x) \subseteq kc BY FieldsKept
<1>3. /\ ka \cap kb = {} /\ ka \cap kc = {}
      /\ kb \cap kc = {}
    OBVIOUS
<1> HIDE DEF ka, kb, kc, a, b, c, y
<1>4. y = (a(x) @@ b(x)) @@ c(x) BY <1>1 DEF y
<1>5. /\ Agrees(y, a(x), ka)
      /\ Agrees(y, b(x), kb)
      /\ Agrees(y, c(x), kc)
    BY <1>3, <1>4, <1>2a, <1>2b, <1>2c DEF Agrees, Has, @@
<1>6. DOMAIN y \subseteq ka \cup kb \cup kc
    BY <1>3, <1>4, <1>2a, <1>2b, <1>2c DEF @@
<1>7a. a(y) = a(x) BY <1>5, FlagsTwice DEF a
<1>7b. b(y) = b(x)
    <2>1. ~Has(y, "token") /\ ~Has(y, "access_token") BY <1>6 DEF Has, ka, kb, kc
    <2>2. FirstText(y, <<"api_token", "token", "access_token">>) = Text(y, "api_token")
        BY <2>1, FirstAlone
    <2>3. Text(y, "api_token") = FirstText(x, <<"api_token", "token", "access_token">>)
        BY <1>5, KeptTwice DEF b, kb
    <2> QED BY <2>2, <2>3 DEF b
<1>7c. c(y) = c(x)
    <2>1. ~Has(y, "api_base_url") BY <1>6 DEF Has, ka, kb, kc
    <2>2. FirstText(y, <<"base_url", "api_base_url">>) = Text(y, "base_url")
        BY <2>1, FirstAlone
    <2>3. Text(y, "base_url") = Site(FirstText(x, <<"base_url", "api_base_url">>))
        BY <1>5, KeptTwice DEF c, kc
    <2> QED BY <2>2, <2>3, SiteTwice DEF c
<1>8. IsFcn(y) BY <1>4 DEF @@, IsFcn
<1> QED BY <1>1, <1>4, <1>8, <1>7a, <1>7b, <1>7c DEF y

\* A tunnel of BrowserStack, and its proxy.
LEMMA TunnelTwice == \A x : Tunnel(Tunnel(x)) = Tunnel(x) /\ IsFcn(Tunnel(x))
<1> TAKE x
<1> DEFINE ka == {"mode"}
           kb == {"binary", "binary_env", "proxy_host", "proxy_user_env", "proxy_pass_env"}
           kc == {"default_hold_minutes", "max_hold_minutes", "ready_timeout_seconds", "heartbeat_seconds", "proxy_port"}
           kd == {"force_local", "disable_proxy_discovery", "force_proxy", "only_automate", "force"}
           a(z) == OneOf(z, "mode", {"managed", "external"})
           b(z) == Texts(z, kb)
           c(z) == Positive(z, kc)
           d(z) == Flags(z, kd)
           y == Tunnel(x)
<1>1. \A z : Tunnel(z) = ((a(z) @@ b(z)) @@ c(z)) @@ d(z) BY DEF Tunnel
<1>2a. DOMAIN a(x) \subseteq ka BY FieldsKept
<1>2b. DOMAIN b(x) \subseteq kb BY SomeKept
<1>2c. DOMAIN c(x) \subseteq kc BY SomeKept
<1>2d. DOMAIN d(x) \subseteq kd BY SomeKept
<1>3. /\ ka \cap kb = {} /\ ka \cap kc = {} /\ ka \cap kd = {}
      /\ kb \cap kc = {} /\ kb \cap kd = {}
      /\ kc \cap kd = {}
    OBVIOUS
<1> HIDE DEF ka, kb, kc, kd, a, b, c, d, y
<1>4. y = ((a(x) @@ b(x)) @@ c(x)) @@ d(x) BY <1>1 DEF y
<1>5. /\ Agrees(y, a(x), ka)
      /\ Agrees(y, b(x), kb)
      /\ Agrees(y, c(x), kc)
      /\ Agrees(y, d(x), kd)
    BY <1>3, <1>4, <1>2a, <1>2b, <1>2c, <1>2d DEF Agrees, Has, @@
<1>6. DOMAIN y \subseteq ka \cup kb \cup kc \cup kd
    BY <1>3, <1>4, <1>2a, <1>2b, <1>2c, <1>2d DEF @@
<1>7a. a(y) = a(x) BY <1>5, OneOfTwice DEF a, ka
<1>7b. b(y) = b(x) BY <1>5, TextsTwice DEF b
<1>7c. c(y) = c(x) BY <1>5, PositiveTwice DEF c
<1>7d. d(y) = d(x) BY <1>5, FlagsTwice DEF d
<1>8. IsFcn(y) BY <1>4 DEF @@, IsFcn
<1> QED BY <1>1, <1>4, <1>8, <1>7a, <1>7b, <1>7c, <1>7d DEF y

\* The proxy of BrowserStack.
LEMMA HubProxyTwice == \A x : HubProxy(HubProxy(x)) = HubProxy(x) /\ IsFcn(HubProxy(x))
<1> TAKE x
<1> DEFINE ka == {"proxy_host", "proxy_user_env", "proxy_pass_env"}
           kb == {"proxy_port"}
           kc == {"disable_proxy_discovery", "force_proxy"}
           a(z) == Texts(z, ka)
           b(z) == Positive(z, kb)
           c(z) == Flags(z, kc)
           y == HubProxy(x)
<1>1. \A z : HubProxy(z) = (a(z) @@ b(z)) @@ c(z) BY DEF HubProxy
<1>2a. DOMAIN a(x) \subseteq ka BY SomeKept
<1>2b. DOMAIN b(x) \subseteq kb BY SomeKept
<1>2c. DOMAIN c(x) \subseteq kc BY SomeKept
<1>3. /\ ka \cap kb = {} /\ ka \cap kc = {}
      /\ kb \cap kc = {}
    OBVIOUS
<1> HIDE DEF ka, kb, kc, a, b, c, y
<1>4. y = (a(x) @@ b(x)) @@ c(x) BY <1>1 DEF y
<1>5. /\ Agrees(y, a(x), ka)
      /\ Agrees(y, b(x), kb)
      /\ Agrees(y, c(x), kc)
    BY <1>3, <1>4, <1>2a, <1>2b, <1>2c DEF Agrees, Has, @@
<1>6. DOMAIN y \subseteq ka \cup kb \cup kc
    BY <1>3, <1>4, <1>2a, <1>2b, <1>2c DEF @@
<1>7a. a(y) = a(x) BY <1>5, TextsTwice DEF a
<1>7b. b(y) = b(x) BY <1>5, PositiveTwice DEF b
<1>7c. c(y) = c(x) BY <1>5, FlagsTwice DEF c
<1>8. IsFcn(y) BY <1>4 DEF @@, IsFcn
<1> QED BY <1>1, <1>4, <1>8, <1>7a, <1>7b, <1>7c DEF y

\* The devices of BrowserStack.
LEMMA DeviceTwice == \A x : Device(Device(x)) = Device(x) /\ IsFcn(Device(x))
<1> TAKE x
<1> DEFINE ka == {"platform"}
           kb == {"network_mode"}
           kc == {"idle_timeout_seconds", "new_command_timeout_seconds"}
           kd == {"appium_version"}
           ke == {"interactive_debugging", "video"}
           a(z) == OneOf(z, "platform", {"android", "ios"})
           b(z) == OneOf(z, "network_mode", {"public", "private-managed", "private-external"})
           c(z) == Positive(z, kc)
           d(z) == IF Text(z, "appium_version") \in Versions THEN Only(z, kd) ELSE Nothing
           e(z) == Flags(z, ke)
           y == Device(x)
<1>1. \A z : Device(z) = (((a(z) @@ b(z)) @@ c(z)) @@ d(z)) @@ e(z) BY DEF Device
<1>2a. DOMAIN a(x) \subseteq ka BY FieldsKept
<1>2b. DOMAIN b(x) \subseteq kb BY FieldsKept
<1>2c. DOMAIN c(x) \subseteq kc BY SomeKept
<1>2d. DOMAIN d(x) \subseteq kd BY SomeKept DEF Nothing
<1>2e. DOMAIN e(x) \subseteq ke BY SomeKept
<1>3. /\ ka \cap kb = {} /\ ka \cap kc = {} /\ ka \cap kd = {} /\ ka \cap ke = {}
      /\ kb \cap kc = {} /\ kb \cap kd = {} /\ kb \cap ke = {}
      /\ kc \cap kd = {} /\ kc \cap ke = {}
      /\ kd \cap ke = {}
    OBVIOUS
<1> HIDE DEF ka, kb, kc, kd, ke, a, b, c, d, e, y
<1>4. y = (((a(x) @@ b(x)) @@ c(x)) @@ d(x)) @@ e(x) BY <1>1 DEF y
<1>5. /\ Agrees(y, a(x), ka)
      /\ Agrees(y, b(x), kb)
      /\ Agrees(y, c(x), kc)
      /\ Agrees(y, d(x), kd)
      /\ Agrees(y, e(x), ke)
    BY <1>3, <1>4, <1>2a, <1>2b, <1>2c, <1>2d, <1>2e DEF Agrees, Has, @@
<1>6. DOMAIN y \subseteq ka \cup kb \cup kc \cup kd \cup ke
    BY <1>3, <1>4, <1>2a, <1>2b, <1>2c, <1>2d, <1>2e DEF @@
<1>7a. a(y) = a(x) BY <1>5, OneOfTwice DEF a, ka
<1>7b. b(y) = b(x) BY <1>5, OneOfTwice DEF b, kb
<1>7c. c(y) = c(x) BY <1>5, PositiveTwice DEF c
<1>7d. d(y) = d(x)
    <2>1. "" \notin Versions BY DEF Versions
    <2>2. CASE Text(x, "appium_version") \in Versions
        <3>1. Has(x, "appium_version") BY <2>1, <2>2 DEF Text
        <3>2. d(x) = Only(x, kd) /\ Has(Only(x, kd), "appium_version") /\ Only(x, kd)["appium_version"] = x["appium_version"]
            BY <2>2, <3>1 DEF d, Only, Has, kd
        <3>3. Has(y, "appium_version") /\ y["appium_version"] = x["appium_version"]
            BY <1>5, <3>2 DEF Agrees, kd
        <3>4. Only(y, kd) = Only(x, kd) BY <3>1, <3>3 DEF Only, Has, kd
        <3>5. Text(y, "appium_version") = Text(x, "appium_version")
            BY <3>1, <3>3 DEF Text
        <3> QED BY <2>2, <3>2, <3>4, <3>5 DEF d
    <2>3. CASE Text(x, "appium_version") \notin Versions
        <3>1. d(x) = Nothing BY <2>3 DEF d
        <3>2. ~Has(y, "appium_version") BY <1>5, <3>1, NothingHas DEF Agrees, kd
        <3> QED BY <2>1, <3>1, <3>2 DEF d, Text
    <2> QED BY <2>2, <2>3
<1>7e. e(y) = e(x) BY <1>5, FlagsTwice DEF e
<1>8. IsFcn(y) BY <1>4 DEF @@, IsFcn
<1> QED BY <1>1, <1>4, <1>8, <1>7a, <1>7b, <1>7c, <1>7d, <1>7e DEF y

\* The account of BrowserStack.
LEMMA BrowserStackTwice == \A x : BrowserStack(BrowserStack(x)) = BrowserStack(x) /\ IsFcn(BrowserStack(x))
<1> TAKE x
<1> DEFINE ka == {"username_env", "access_key_env", "username", "access_key", "ca_cert"}
           kb == {"api_base_url"}
           kc == {"appium_base_url"}
           kd == {"verify_ssl"}
           ke == {"http_proxy"}
           kf == {"local"}
           a(z) == Texts(z, ka)
           b(z) == Kept("api_base_url", Site(Text(z, "api_base_url")))
           c(z) == Kept("appium_base_url", Site(Text(z, "appium_base_url")))
           d(z) == Flags(z, kd)
           e(z) == KeptMap("http_proxy", HubProxy(Sub(z, "http_proxy")))
           f(z) == KeptMap("local", Tunnel(Sub(z, "local")))
           y == BrowserStack(x)
<1>1. \A z : BrowserStack(z) = ((((a(z) @@ b(z)) @@ c(z)) @@ d(z)) @@ e(z)) @@ f(z)
    BY DEF BrowserStack
<1>2a. DOMAIN a(x) \subseteq ka BY SomeKept
<1>2b. DOMAIN b(x) \subseteq kb BY FieldsKept
<1>2c. DOMAIN c(x) \subseteq kc BY FieldsKept
<1>2d. DOMAIN d(x) \subseteq kd BY SomeKept
<1>2e. DOMAIN e(x) \subseteq ke BY FieldsKept
<1>2f. DOMAIN f(x) \subseteq kf BY FieldsKept
<1>3. /\ ka \cap kb = {} /\ ka \cap kc = {} /\ ka \cap kd = {} /\ ka \cap ke = {} /\ ka \cap kf = {}
      /\ kb \cap kc = {} /\ kb \cap kd = {} /\ kb \cap ke = {} /\ kb \cap kf = {}
      /\ kc \cap kd = {} /\ kc \cap ke = {} /\ kc \cap kf = {}
      /\ kd \cap ke = {} /\ kd \cap kf = {}
      /\ ke \cap kf = {}
    OBVIOUS
<1> HIDE DEF ka, kb, kc, kd, ke, kf, a, b, c, d, e, f, y
<1>4. y = ((((a(x) @@ b(x)) @@ c(x)) @@ d(x)) @@ e(x)) @@ f(x)
    BY <1>1, SMTT(30) DEF y
<1>5. /\ Agrees(y, a(x), ka)
      /\ Agrees(y, b(x), kb)
      /\ Agrees(y, c(x), kc)
      /\ Agrees(y, d(x), kd)
      /\ Agrees(y, e(x), ke)
      /\ Agrees(y, f(x), kf)
    BY <1>3, <1>4, <1>2a, <1>2b, <1>2c, <1>2d, <1>2e, <1>2f, ZenonT(40) DEF Agrees, Has, @@
<1>6. DOMAIN y \subseteq ka \cup kb \cup kc \cup kd \cup ke \cup kf
    BY <1>3, <1>4, <1>2a, <1>2b, <1>2c, <1>2d, <1>2e, <1>2f DEF @@
<1>7a. a(y) = a(x) BY <1>5, TextsTwice DEF a
<1>7b. b(y) = b(x)
    <2>1. Text(y, "api_base_url") = Site(Text(x, "api_base_url"))
        BY <1>5, KeptTwice DEF b, kb
    <2> QED BY <2>1, SiteTwice DEF b
<1>7c. c(y) = c(x)
    <2>1. Text(y, "appium_base_url") = Site(Text(x, "appium_base_url"))
        BY <1>5, KeptTwice DEF c, kc
    <2> QED BY <2>1, SiteTwice DEF c
<1>7d. d(y) = d(x) BY <1>5, FlagsTwice DEF d
<1>7e. e(y) = e(x)
    <2>1. IsFcn(HubProxy(Sub(x, "http_proxy"))) BY HubProxyTwice
    <2>2. Sub(y, "http_proxy") = HubProxy(Sub(x, "http_proxy"))
        BY <1>5, <2>1, MapTwice DEF e, ke
    <2> QED BY <2>2, HubProxyTwice DEF e
<1>7f. f(y) = f(x)
    <2>1. IsFcn(Tunnel(Sub(x, "local"))) BY TunnelTwice
    <2>2. Sub(y, "local") = Tunnel(Sub(x, "local"))
        BY <1>5, <2>1, MapTwice, SMTT(30) DEF f, kf
    <2> QED BY <2>2, TunnelTwice DEF f
<1>8. IsFcn(y) BY <1>4 DEF @@, IsFcn
<1> QED BY <1>1, <1>4, <1>8, <1>7a, <1>7b, <1>7c, <1>7d, <1>7e, <1>7f DEF y

\* The mobile section.
LEMMA MobileTwice == \A x : Mobile(Mobile(x)) = Mobile(x) /\ IsFcn(Mobile(x))
<1> TAKE x
<1> DEFINE ka == {"enabled"}
           kb == {"default_provider"}
           kc == {"state_dir", "artifacts_dir"}
           kd == {"retention_hours"}
           ke == {"defaults"}
           kf == {"browserstack"}
           a(z) == Flags(z, ka)
           b(z) == Kept("default_provider", Lower(Text(z, "default_provider")))
           c(z) == Texts(z, kc)
           d(z) == Positive(z, kd)
           e(z) == KeptMap("defaults", Device(Sub(z, "defaults")))
           f(z) == KeptMap("browserstack", BrowserStack(Sub(z, "browserstack")))
           y == Mobile(x)
<1>1. \A z : Mobile(z) = ((((a(z) @@ b(z)) @@ c(z)) @@ d(z)) @@ e(z)) @@ f(z)
    BY DEF Mobile
<1>2a. DOMAIN a(x) \subseteq ka BY SomeKept
<1>2b. DOMAIN b(x) \subseteq kb BY FieldsKept
<1>2c. DOMAIN c(x) \subseteq kc BY SomeKept
<1>2d. DOMAIN d(x) \subseteq kd BY SomeKept
<1>2e. DOMAIN e(x) \subseteq ke BY FieldsKept
<1>2f. DOMAIN f(x) \subseteq kf BY FieldsKept
<1>3. /\ ka \cap kb = {} /\ ka \cap kc = {} /\ ka \cap kd = {} /\ ka \cap ke = {} /\ ka \cap kf = {}
      /\ kb \cap kc = {} /\ kb \cap kd = {} /\ kb \cap ke = {} /\ kb \cap kf = {}
      /\ kc \cap kd = {} /\ kc \cap ke = {} /\ kc \cap kf = {}
      /\ kd \cap ke = {} /\ kd \cap kf = {}
      /\ ke \cap kf = {}
    OBVIOUS
<1> HIDE DEF ka, kb, kc, kd, ke, kf, a, b, c, d, e, f, y
<1>4. y = ((((a(x) @@ b(x)) @@ c(x)) @@ d(x)) @@ e(x)) @@ f(x) BY <1>1 DEF y
<1>5. /\ Agrees(y, a(x), ka)
      /\ Agrees(y, b(x), kb)
      /\ Agrees(y, c(x), kc)
      /\ Agrees(y, d(x), kd)
      /\ Agrees(y, e(x), ke)
      /\ Agrees(y, f(x), kf)
    BY <1>3, <1>4, <1>2a, <1>2b, <1>2c, <1>2d, <1>2e, <1>2f DEF Agrees, Has, @@
<1>6. DOMAIN y \subseteq ka \cup kb \cup kc \cup kd \cup ke \cup kf
    BY <1>3, <1>4, <1>2a, <1>2b, <1>2c, <1>2d, <1>2e, <1>2f DEF @@
<1>7a. a(y) = a(x) BY <1>5, FlagsTwice DEF a
<1>7b. b(y) = b(x)
    <2>1. Text(y, "default_provider") = Lower(Text(x, "default_provider"))
        BY <1>5, KeptTwice DEF b, kb
    <2> QED BY <2>1, LowerTwice DEF b
<1>7c. c(y) = c(x) BY <1>5, TextsTwice DEF c
<1>7d. d(y) = d(x) BY <1>5, PositiveTwice DEF d
<1>7e. e(y) = e(x)
    <2>1. IsFcn(Device(Sub(x, "defaults"))) BY DeviceTwice
    <2>2. Sub(y, "defaults") = Device(Sub(x, "defaults"))
        BY <1>5, <2>1, MapTwice DEF e, ke
    <2> QED BY <2>2, DeviceTwice DEF e
<1>7f. f(y) = f(x)
    <2>1. IsFcn(BrowserStack(Sub(x, "browserstack"))) BY BrowserStackTwice
    <2>2. Sub(y, "browserstack") = BrowserStack(Sub(x, "browserstack"))
        BY <1>5, <2>1, MapTwice DEF f, kf
    <2> QED BY <2>2, BrowserStackTwice DEF f
<1>8. IsFcn(y) BY <1>4 DEF @@, IsFcn
<1> QED BY <1>1, <1>4, <1>8, <1>7a, <1>7b, <1>7c, <1>7d, <1>7e, <1>7f DEF y

\* The debug log.
LEMMA DebugTwice == \A x : Debug(Debug(x)) = Debug(x) /\ IsFcn(Debug(x))
<1> TAKE x
<1> DEFINE ka == {"enabled"}
           kb == {"log_level"}
           a(z) == Flags(z, ka)
           b(z) == OneOf(z, "log_level", {"debug", "info", "warning", "error"})
           y == Debug(x)
<1>1. \A z : Debug(z) = a(z) @@ b(z) BY DEF Debug
<1>2a. DOMAIN a(x) \subseteq ka BY SomeKept
<1>2b. DOMAIN b(x) \subseteq kb BY FieldsKept
<1>3. /\ ka \cap kb = {}
    OBVIOUS
<1> HIDE DEF ka, kb, a, b, y
<1>4. y = a(x) @@ b(x) BY <1>1 DEF y
<1>5. /\ Agrees(y, a(x), ka)
      /\ Agrees(y, b(x), kb)
    BY <1>3, <1>4, <1>2a, <1>2b DEF Agrees, Has, @@
<1>6. DOMAIN y \subseteq ka \cup kb BY <1>3, <1>4, <1>2a, <1>2b DEF @@
<1>7a. a(y) = a(x) BY <1>5, FlagsTwice DEF a
<1>7b. b(y) = b(x) BY <1>5, OneOfTwice DEF b, kb
<1>8. IsFcn(y) BY <1>4 DEF @@, IsFcn
<1> QED BY <1>1, <1>4, <1>8, <1>7a, <1>7b DEF y

\* The identity of commits.
LEMMA GitTwice == \A x : Git(Git(x)) = Git(x) /\ IsFcn(Git(x))
<1> TAKE x
<1> DEFINE ks == {"name", "email"}
           v  == Texts(Sub(x, "user"), ks)
           y  == Git(x)
<1>1. \A z : Git(z) = KeptMap("user", Texts(Sub(z, "user"), ks)) BY DEF Git
<1>2. IsFcn(v) /\ \A k \in DOMAIN v : k \in ks /\ v[k] # "" BY DEF Texts, IsFcn
<1> HIDE DEF ks
<1>3. y = KeptMap("user", v) BY <1>1
<1> HIDE DEF v, y
<1>4. Agrees(y, KeptMap("user", v), {"user"}) BY <1>3 DEF Agrees
<1>5. Sub(y, "user") = v BY <1>2, <1>4, MapTwice
<1>6. Texts(v, ks) = v
    <2>1. DOMAIN v = {k \in DOMAIN v \cap ks : v[k] # ""} BY <1>2
    <2> QED BY <1>2, <2>1 DEF Texts, IsFcn
<1>7. IsFcn(y) BY <1>3 DEF KeptMap, Nothing, :>, IsFcn
<1> QED BY <1>1, <1>3, <1>5, <1>6, <1>7 DEF y

-----------------------------------------------------------------------------
(* Instances, read again.                                                  *)

\* What Jira keeps of its own.
LEMMA JiraTwice ==
    ASSUME NEW x, NEW y, Agrees(y, KindFields("jira", x), FieldsOfKind), ~Has(y, "project_key")
    PROVE  KindFields("jira", y) = KindFields("jira", x)
<1> DEFINE ka == {"project"}
           kb == {"api_version"}
           a(z) == Kept("project", FirstText(z, <<"project", "project_key">>))
           b(z) == OneOf(z, "api_version", {"2", "3"})
           p == KindFields("jira", x)
<1>1. \A z : KindFields("jira", z) = a(z) @@ b(z) BY DEF KindFields
<1>2a. DOMAIN a(x) \subseteq ka BY FieldsKept
<1>2b. DOMAIN b(x) \subseteq kb BY FieldsKept
<1>3. /\ ka \cap kb = {}
    OBVIOUS
<1>3k. ka \subseteq FieldsOfKind /\ kb \subseteq FieldsOfKind BY DEF FieldsOfKind
<1> HIDE DEF ka, kb, a, b, p
<1>4. p = a(x) @@ b(x) BY <1>1 DEF p
<1>5p. /\ Agrees(p, a(x), ka)
      /\ Agrees(p, b(x), kb)
    BY <1>3, <1>4, <1>2a, <1>2b DEF Agrees, Has, @@
<1>5. /\ Agrees(y, a(x), ka)
      /\ Agrees(y, b(x), kb)
    BY <1>3k, <1>5p DEF Agrees, p
<1>7a. a(y) = a(x)
    <2>1. ~Has(y, "project_key")
        OBVIOUS
    <2>2. FirstText(y, <<"project", "project_key">>) = Text(y, "project")
        BY <2>1, FirstAlone
    <2>3. Text(y, "project") = FirstText(x, <<"project", "project_key">>)
        BY <1>5, KeptTwice DEF a, ka
    <2> QED BY <2>2, <2>3 DEF a
<1>7b. b(y) = b(x) BY <1>5, OneOfTwice DEF b, kb
<1> QED BY <1>1, <1>7a, <1>7b

\* What Confluence keeps of its own.
LEMMA ConfluenceTwice ==
    ASSUME NEW x, NEW y, Agrees(y, KindFields("confluence", x), FieldsOfKind), ~Has(y, "space_key")
    PROVE  KindFields("confluence", y) = KindFields("confluence", x)
<1>1. \A z : KindFields("confluence", z) = Kept("space", FirstText(z, <<"space", "space_key">>))
    BY DEF KindFields
<1>2. Agrees(y, Kept("space", FirstText(x, <<"space", "space_key">>)), {"space"})
    BY <1>1 DEF Agrees, FieldsOfKind
<1>3. Text(y, "space") = FirstText(x, <<"space", "space_key">>) BY <1>2, KeptTwice
<1>4. FirstText(y, <<"space", "space_key">>) = Text(y, "space") BY FirstAlone
<1> QED BY <1>1, <1>3, <1>4

\* Words that are there are words.
LEMMA TextsAgain ==
    ASSUME NEW ks, NEW t, IsFcn(t), DOMAIN t \subseteq ks, \A k \in DOMAIN t : t[k] # "",
           NEW y, Agrees(y, t, ks)
    PROVE  Texts(y, ks) = t
<1> DEFINE u == Texts(y, ks)
<1>2. IsFcn(u) BY DEF Texts, IsFcn
<1>3. DOMAIN u = {k \in DOMAIN y \cap ks : y[k] # ""} /\ \A k \in DOMAIN u : u[k] = y[k]
    BY DEF Texts
<1> HIDE DEF u
<1>4. \A k \in ks : (k \in DOMAIN y <=> k \in DOMAIN t) /\ (k \in DOMAIN t => y[k] = t[k])
    BY DEF Agrees, Has
<1>5. DOMAIN u = DOMAIN t /\ \A k \in DOMAIN u : u[k] = t[k] BY <1>3, <1>4
<1> QED BY <1>2, <1>5, SameFields DEF u

\* What Splunk keeps of its own, the owner only with an app.
LEMMA OwnedTwice ==
    ASSUME NEW all, IsFcn(all), NEW t, t = IF Has(all, "app") THEN all ELSE Without(all, {"owner"})
    PROVE  (IF Has(t, "app") THEN t ELSE Without(t, {"owner"})) = t
<1>1. CASE Has(all, "app") BY <1>1
<1>2. CASE ~Has(all, "app")
    <2>1. t = Without(all, {"owner"}) BY <1>2
    <2>2. ~Has(t, "app") BY <2>1, <1>2 DEF Without, Has
    <2>3. DOMAIN t \ {"owner"} = DOMAIN t /\ IsFcn(t) BY <2>1 DEF Without, IsFcn
    <2>4. Without(t, {"owner"}) = t BY <2>3 DEF Without, IsFcn
    <2> QED BY <2>2, <2>4
<1> QED BY <1>1, <1>2

\* What Splunk keeps of its own.
LEMMA SplunkTwice ==
    ASSUME NEW x, NEW y, Agrees(y, KindFields("splunk", x), FieldsOfKind)
    PROVE  KindFields("splunk", y) = KindFields("splunk", x)
<1> DEFINE Owned(all) == IF Has(all, "app") THEN all ELSE Without(all, {"owner"})
           ka == {"default_index", "default_earliest", "app", "owner"}
           kb == {"max_results"}
           a(z) == Owned(Texts(z, ka))
           b(z) == Within(z, "max_results", 1, 10000)
           p == KindFields("splunk", x)
<1>1. \A z : KindFields("splunk", z) = a(z) @@ b(z) BY DEF KindFields
<1>2a. DOMAIN a(x) \subseteq ka BY SomeKept DEF Owned, Without, Texts
<1>2b. DOMAIN b(x) \subseteq kb
    <2>1. \A lo, hi : DOMAIN Within(x, "max_results", lo, hi) \subseteq {"max_results"}
        BY FieldsKept
    <2> QED BY <2>1, SMT
<1>3. /\ ka \cap kb = {}
    OBVIOUS
<1>3k. ka \subseteq FieldsOfKind /\ kb \subseteq FieldsOfKind BY DEF FieldsOfKind
<1> HIDE DEF Owned, ka, kb, a, b, p
<1>4. p = a(x) @@ b(x) BY <1>1 DEF p
<1>5p. /\ Agrees(p, a(x), ka)
      /\ Agrees(p, b(x), kb)
    BY <1>3, <1>4, <1>2a, <1>2b DEF Agrees, Has, @@
<1>5. /\ Agrees(y, a(x), ka)
      /\ Agrees(y, b(x), kb)
    BY <1>3k, <1>5p DEF Agrees, p
<1>7a. a(y) = a(x)
    <2> DEFINE all == Texts(x, ka)
               t   == Owned(all)
    <2>1. IsFcn(all) /\ DOMAIN all \subseteq ka /\ \A k \in DOMAIN all : all[k] # ""
        BY DEF Texts, IsFcn
    <2> HIDE DEF all
    <2>2. IsFcn(t) /\ DOMAIN t \subseteq ka /\ \A k \in DOMAIN t : t[k] # ""
        BY <2>1 DEF Owned, Without, IsFcn
    <2>3. Owned(t) = t BY <2>1, OwnedTwice DEF Owned
    <2>4. a(x) = t BY DEF a, all
    <2> HIDE DEF t
    <2>5. Texts(y, ka) = t BY <1>5, <2>2, <2>4, TextsAgain
    <2> QED BY <2>3, <2>4, <2>5 DEF a
<1>7b. b(y) = b(x)
    <2>1. \A lo, hi : Agrees(y, Within(x, "max_results", lo, hi), {"max_results"}) => Within(y, "max_results", lo, hi) = Within(x, "max_results", lo, hi)
        BY WithinTwice
    <2> QED BY <1>5, <2>1, SMT DEF b, kb
<1> QED BY <1>1, <1>7a, <1>7b

\* What any service keeps of its own.
LEMMA KindFieldsTwice ==
    ASSUME NEW kind, NEW x, NEW y, Agrees(y, KindFields(kind, x), FieldsOfKind),
           ~Has(y, "project_key"), ~Has(y, "space_key")
    PROVE  KindFields(kind, y) = KindFields(kind, x)
<1>1. CASE kind = "jira" BY <1>1, JiraTwice
<1>2. CASE kind = "confluence" BY <1>2, ConfluenceTwice
<1>3. CASE kind = "splunk" BY <1>3, SplunkTwice
<1>4. CASE kind \notin {"jira", "confluence", "splunk"} BY <1>4 DEF KindFields
<1> QED BY <1>1, <1>2, <1>3, <1>4

\* An instance.
LEMMA SiteRowTwice ==
    ASSUME NEW kind, NEW x
    PROVE  SiteRow(kind, SiteRow(kind, x)) = SiteRow(kind, x) /\ IsFcn(SiteRow(kind, x))
<1> DEFINE ka == {"name", "password"}
           kb == {"url"}
           kc == {"username"}
           kd == {"token"}
           ke == {"enabled"}
           kf == FieldsOfKind
           a(z) == Texts(z, ka)
           b(z) == "url" :> SiteOf(z)
           c(z) == Kept("username", FirstText(z, <<"username", "email">>))
           d(z) == Kept("token", FirstText(z, <<"token", "api_token", "access_token">>))
           e(z) == Flags(z, ke)
           f(z) == KindFields(kind, z)
           y == SiteRow(kind, x)
<1>1. \A z : SiteRow(kind, z) = ((((a(z) @@ b(z)) @@ c(z)) @@ d(z)) @@ e(z)) @@ f(z)
    BY DEF SiteRow
<1>2a. DOMAIN a(x) \subseteq ka BY SomeKept
<1>2b. DOMAIN b(x) \subseteq kb BY DEF :>
<1>2c. DOMAIN c(x) \subseteq kc BY FieldsKept
<1>2d. DOMAIN d(x) \subseteq kd BY FieldsKept
<1>2e. DOMAIN e(x) \subseteq ke BY SomeKept
<1>2f. DOMAIN f(x) \subseteq kf BY KindFieldsShape
<1>3. /\ ka \cap kb = {} /\ ka \cap kc = {} /\ ka \cap kd = {} /\ ka \cap ke = {} /\ ka \cap kf = {}
      /\ kb \cap kc = {} /\ kb \cap kd = {} /\ kb \cap ke = {} /\ kb \cap kf = {}
      /\ kc \cap kd = {} /\ kc \cap ke = {} /\ kc \cap kf = {}
      /\ kd \cap ke = {} /\ kd \cap kf = {}
      /\ ke \cap kf = {}
    BY DEF FieldsOfKind
<1> HIDE DEF ka, kb, kc, kd, ke, kf, a, b, c, d, e, f, y
<1>4. y = ((((a(x) @@ b(x)) @@ c(x)) @@ d(x)) @@ e(x)) @@ f(x) BY <1>1 DEF y
<1>5. /\ Agrees(y, a(x), ka)
      /\ Agrees(y, b(x), kb)
      /\ Agrees(y, c(x), kc)
      /\ Agrees(y, d(x), kd)
      /\ Agrees(y, e(x), ke)
      /\ Agrees(y, f(x), kf)
    BY <1>3, <1>4, <1>2a, <1>2b, <1>2c, <1>2d, <1>2e, <1>2f DEF Agrees, Has, @@
<1>6. DOMAIN y \subseteq ka \cup kb \cup kc \cup kd \cup ke \cup kf
    BY <1>3, <1>4, <1>2a, <1>2b, <1>2c, <1>2d, <1>2e, <1>2f DEF @@
<1>7a. a(y) = a(x) BY <1>5, TextsTwice DEF a
<1>7b. b(y) = b(x)
    <2>1. ~Has(y, "base_url") /\ ~Has(y, "baseUrl") /\ ~Has(y, "uri")
        BY <1>6 DEF Has, ka, kb, kc, kd, ke, kf, FieldsOfKind
    <2>2. FirstText(y, <<"url", "base_url", "baseUrl", "uri">>) = Text(y, "url")
        BY <2>1, FirstAlone
    <2>3. Text(y, "url") = SiteOf(x) BY <1>5, OnlyHas DEF b, kb, Agrees, Text, :>
    <2> QED BY <2>2, <2>3, SiteTwice DEF b, SiteOf
<1>7c. c(y) = c(x)
    <2>1. ~Has(y, "email") BY <1>6 DEF Has, ka, kb, kc, kd, ke, kf, FieldsOfKind
    <2>2. FirstText(y, <<"username", "email">>) = Text(y, "username")
        BY <2>1, FirstAlone
    <2>3. Text(y, "username") = FirstText(x, <<"username", "email">>)
        BY <1>5, KeptTwice DEF c, kc
    <2> QED BY <2>2, <2>3 DEF c
<1>7d. d(y) = d(x)
    <2>1. ~Has(y, "api_token") /\ ~Has(y, "access_token")
        BY <1>6 DEF Has, ka, kb, kc, kd, ke, kf, FieldsOfKind
    <2>2. FirstText(y, <<"token", "api_token", "access_token">>) = Text(y, "token")
        BY <2>1, FirstAlone
    <2>3. Text(y, "token") = FirstText(x, <<"token", "api_token", "access_token">>)
        BY <1>5, KeptTwice DEF d, kd
    <2> QED BY <2>2, <2>3 DEF d
<1>7e. e(y) = e(x) BY <1>5, FlagsTwice DEF e
<1>7f. f(y) = f(x)
    <2>1. ~Has(y, "project_key") /\ ~Has(y, "space_key")
        BY <1>6 DEF Has, ka, kb, kc, kd, ke, kf, FieldsOfKind
    <2>2. Agrees(y, KindFields(kind, x), FieldsOfKind) BY <1>5 DEF f, kf
    <2> QED BY <2>1, <2>2, KindFieldsTwice DEF f
<1>8. IsFcn(y) BY <1>4 DEF @@, IsFcn
<1> QED BY <1>1, <1>4, <1>8, <1>7a, <1>7b, <1>7c, <1>7d, <1>7e, <1>7f DEF y

-----------------------------------------------------------------------------
(* Lists, read again: nothing is left out a second time.                   *)

\* Rows with keys of their own are kept.
LEMMA FirstsAll ==
    ASSUME NEW rows, IsList(rows), IsFcn(rows), NEW key, DOMAIN key = DOMAIN rows, AllApart(key)
    PROVE  Firsts(rows, key) = rows
<1>1. DOMAIN rows \in SUBSET Nat BY ListStart
<1>2. \A i, j \in DOMAIN rows : j < i => key[j] # key[i] BY <1>1 DEF AllApart
<1>3. {i \in DOMAIN rows : \A j \in DOMAIN rows : j < i => key[j] # key[i]} = DOMAIN rows
    BY <1>2
<1> QED BY <1>3, AtAll DEF Firsts

\* Those that are kept have keys of their own.
LEMMA FirstsApart ==
    ASSUME NEW rows, IsList(rows), NEW key, DOMAIN key = DOMAIN rows
    PROVE  LET picked == Firsts(rows, key)
           IN  /\ IsList(picked) /\ IsFcn(picked)
               /\ \A n \in DOMAIN picked : \E i \in DOMAIN rows : picked[n] = rows[i]
               /\ \A m, n \in DOMAIN picked :
                     m # n => \E i, j \in DOMAIN rows : picked[m] = rows[i] /\ picked[n] = rows[j] /\ key[i] # key[j]
<1> DEFINE is     == {i \in DOMAIN rows : \A j \in DOMAIN rows : j < i => key[j] # key[i]}
           picked == Firsts(rows, key)
<1>1. picked = At(rows, is) /\ is \in SUBSET DOMAIN rows BY DEF Firsts
<1>2. \A m, n \in DOMAIN At(rows, is) : m # n => key[Place(is, m)] # key[Place(is, n)]
    BY FirstOnes
<1> HIDE DEF is, picked
<1>3. IsList(picked) /\ IsFcn(picked) /\ \A n \in DOMAIN picked : Place(is, n) \in is /\ picked[n] = rows[Place(is, n)]
    BY <1>1, AtIsList, AtIsFcn
<1>4. \A m, n \in DOMAIN picked :
         m # n => \E i, j \in DOMAIN rows : picked[m] = rows[i] /\ picked[n] = rows[j] /\ key[i] # key[j]
    BY <1>1, <1>2, <1>3
<1>5. \A n \in DOMAIN picked : \E i \in DOMAIN rows : picked[n] = rows[i]
    BY <1>1, <1>3
<1> QED BY <1>3, <1>4, <1>5 DEF picked

\* The first row of each name.
LEMMA OnesAre ==
    ASSUME NEW rows, IsList(rows)
    PROVE  LET ones == At(rows, {i \in DOMAIN rows : \A j \in DOMAIN rows : j < i => FoldedName(rows[j]) # FoldedName(rows[i])})
           IN  /\ OneEach(ones) /\ \A n \in DOMAIN ones : \E i \in DOMAIN rows : ones[n] = rows[i]
               /\ OneEach(rows) => ones = rows
<1> DEFINE ones == At(rows, {i \in DOMAIN rows : \A j \in DOMAIN rows : j < i => FoldedName(rows[j]) # FoldedName(rows[i])})
           key  == Names(rows)
<1>1. DOMAIN key = DOMAIN rows /\ \A i \in DOMAIN rows : key[i] = FoldedName(rows[i])
    BY DEF Names
<1>2. {i \in DOMAIN rows : \A j \in DOMAIN rows : j < i => FoldedName(rows[j]) # FoldedName(rows[i])}
        = {i \in DOMAIN rows : \A j \in DOMAIN rows : j < i => key[j] # key[i]}
    BY <1>1
<1>3. ones = Firsts(rows, key) BY <1>2 DEF Firsts
<1> HIDE DEF ones, key
<1>4. /\ IsList(ones) /\ IsFcn(ones)
      /\ \A n \in DOMAIN ones : \E i \in DOMAIN rows : ones[n] = rows[i]
      /\ \A m, n \in DOMAIN ones :
            m # n => \E i, j \in DOMAIN rows : ones[m] = rows[i] /\ ones[n] = rows[j] /\ key[i] # key[j]
    BY <1>1, <1>3, FirstsApart
<1>5. AllApart(Names(ones))
    <2>1. ASSUME NEW m \in DOMAIN ones, NEW n \in DOMAIN ones, m # n PROVE FoldedName(ones[m]) # FoldedName(ones[n])
        <3>1. PICK i \in DOMAIN rows, j \in DOMAIN rows : ones[m] = rows[i] /\ ones[n] = rows[j] /\ key[i] # key[j]
            BY <1>4, <2>1
        <3> QED BY <1>1, <3>1
    <2> QED BY <2>1 DEF AllApart, Names
<1>6. OneEach(rows) => ones = rows BY <1>1, <1>3, FirstsAll DEF OneEach, key
<1> QED BY <1>4, <1>5, <1>6 DEF OneEach, ones

\* Instances with an address are read as they are.
LEMMA SitesTwice ==
    ASSUME NEW kind, NEW rows, AreSites(kind, rows)
    PROVE  SiteRows(kind, rows) = rows
<1> DEFINE is   == {i \in DOMAIN rows : SiteOf(rows[i]) # ""}
           kept == At(rows, is)
           new  == [i \in DOMAIN kept |-> SiteRow(kind, kept[i])]
<1>1. SiteRows(kind, rows) = new BY DEF SiteRows, Map, Filtered, Where
<1>2. ASSUME NEW i \in DOMAIN rows PROVE SiteOf(rows[i]) # "" /\ SiteRow(kind, rows[i]) = rows[i]
    <2>1. PICK r : rows[i] = SiteRow(kind, r) /\ SiteOf(r) # "" BY DEF AreSites
    <2>2. SiteRow(kind, rows[i]) = rows[i] BY <2>1, SiteRowTwice
    <2>3. rows[i]["url"] = SiteOf(r) BY <2>1, SiteRowShape
    <2>4. rows[i]["url"] = SiteOf(rows[i]) BY <2>2, SiteRowShape
    <2> QED BY <2>1, <2>2, <2>3, <2>4
<1>3. is = DOMAIN rows BY <1>2
<1> HIDE DEF is
<1>4. kept = rows BY <1>3, AtAll DEF AreSites
<1> HIDE DEF kept
<1>5. new = [i \in DOMAIN rows |-> rows[i]] BY <1>2, <1>4
<1> QED BY <1>1, <1>5 DEF AreSites, IsFcn

\* Those with a name of their own too.
LEMMA AddressableTwice ==
    ASSUME NEW kind, NEW rows, AreSites(kind, rows)
    PROVE  Addressable(Addressable(rows)) = Addressable(rows)
<1> DEFINE Called(l) == {i \in DOMAIN l : Text(l[i], "name") # ""}
           Ones(l) == At(l, {i \in DOMAIN l : \A j \in DOMAIN l : j < i => FoldedName(l[j]) # FoldedName(l[i])})
           is   == Called(rows)
           kept == At(rows, is)
           a    == Addressable(rows)
<1>1. \A l : Addressable(l) = Ones(At(l, Called(l)))
    BY DEF Addressable, FirstPerKey, Filtered, Where
<1>2. is \in SUBSET DOMAIN rows /\ \A i \in is : Text(rows[i], "name") # ""
    OBVIOUS
<1>3. a = Ones(kept) BY <1>1
<1> HIDE DEF is
<1>4. IsList(kept) /\ \A n \in DOMAIN kept : \E i \in is : kept[n] = rows[i]
    BY <1>2, AtIsList, AtFromRows DEF AreSites
<1>5. \A n \in DOMAIN kept : Text(kept[n], "name") # "" BY <1>2, <1>4
<1> HIDE DEF kept, a
<1>6. OneEach(a) /\ \A n \in DOMAIN a : \E i \in DOMAIN kept : a[n] = kept[i]
    BY <1>3, <1>4, OnesAre
<1>7. Called(a) = DOMAIN a BY <1>5, <1>6
<1> HIDE DEF Called
<1>8. At(a, Called(a)) = a BY <1>6, <1>7, AtAll DEF OneEach
<1>9. Ones(a) = a BY <1>6, OnesAre DEF OneEach
<1> QED BY <1>1, <1>8, <1>9 DEF a

\* Rows are listed again when they were.
LEMMA ListedTwice ==
    ASSUME NEW x, NEW rows, NEW y, Agrees(y, Listed(x, rows), {"instances"}),
           NEW again, Has(x, "instances") /\ Rows(y, "instances") = rows => again = rows
    PROVE  Listed(y, again) = Listed(x, rows)
<1>1. CASE Has(x, "instances")
    <2>1. Has(y, "instances") /\ y["instances"] = rows
        BY <1>1 DEF Agrees, Listed, Has, :>
    <2> QED BY <1>1, <2>1 DEF Listed, Rows
<1>2. CASE ~Has(x, "instances")
    <2>1. ~Has(y, "instances") BY <1>2, ListedShape DEF Agrees
    <2> QED BY <1>2, <2>1 DEF Listed
<1> QED BY <1>1, <1>2

\* A tracker.
LEMMA TrackerTwice ==
    ASSUME NEW kind, NEW x, IsList(Rows(x, "instances"))
    PROVE  Tracker(kind, Tracker(kind, x)) = Tracker(kind, x) /\ IsFcn(Tracker(kind, x))
<1> DEFINE ka == {"enabled"}
           kb == {"instances"}
           a(z) == Flags(z, ka)
           b(z) == Listed(z, SiteRows(kind, Rows(z, "instances")))
           y == Tracker(kind, x)
<1>1. \A z : Tracker(kind, z) = a(z) @@ b(z) BY DEF Tracker
<1>2a. DOMAIN a(x) \subseteq ka BY SomeKept
<1>2b. DOMAIN b(x) \subseteq kb BY ListedShape
<1>3. /\ ka \cap kb = {}
    OBVIOUS
<1> HIDE DEF ka, kb, a, b, y
<1>4. y = a(x) @@ b(x) BY <1>1 DEF y
<1>5. /\ Agrees(y, a(x), ka)
      /\ Agrees(y, b(x), kb)
    BY <1>3, <1>4, <1>2a, <1>2b DEF Agrees, Has, @@
<1>6. DOMAIN y \subseteq ka \cup kb BY <1>3, <1>4, <1>2a, <1>2b DEF @@
<1>7a. a(y) = a(x) BY <1>5, FlagsTwice DEF a
<1>7b. b(y) = b(x)
    <2> DEFINE old == Rows(x, "instances")
               rows == SiteRows(kind, old)
               next == Rows(y, "instances")
               again == SiteRows(kind, next)
    <2>1. ASSUME next = rows PROVE again = rows
        <3>1. AreSites(kind, rows) BY SiteRowsAre
        <3> QED BY <2>1, <3>1, SitesTwice
    <2>2. b(x) = Listed(x, rows) /\ b(y) = Listed(y, again) BY DEF b
    <2>3. Agrees(y, Listed(x, rows), {"instances"}) BY <1>5, <2>2 DEF kb
    <2>4. Rows(y, "instances") = rows => again = rows BY <2>1
    <2> HIDE DEF rows, again, next
    <2> QED BY <2>2, <2>3, <2>4, ListedTwice
<1>8. IsFcn(y) BY <1>4 DEF @@, IsFcn
<1> QED BY <1>1, <1>4, <1>8, <1>7a, <1>7b DEF y

\* A repository.
LEMMA RepositoryTwice ==
    ASSUME NEW kind, NEW x, IsList(Rows(x, "instances"))
    PROVE  Repository(kind, Repository(kind, x)) = Repository(kind, x) /\ IsFcn(Repository(kind, x))
<1> DEFINE ka == {"enabled"}
           kb == {"default_instance"}
           kc == {"instances"}
           a(z) == Flags(z, ka)
           b(z) == Texts(z, kb)
           c(z) == Listed(z, Addressable(SiteRows(kind, Rows(z, "instances"))))
           y == Repository(kind, x)
<1>1. \A z : Repository(kind, z) = (a(z) @@ b(z)) @@ c(z)
    BY DEF Repository, SwitchAndDefault
<1>2a. DOMAIN a(x) \subseteq ka BY SomeKept
<1>2b. DOMAIN b(x) \subseteq kb BY SomeKept
<1>2c. DOMAIN c(x) \subseteq kc BY ListedShape
<1>3. /\ ka \cap kb = {} /\ ka \cap kc = {}
      /\ kb \cap kc = {}
    OBVIOUS
<1> HIDE DEF ka, kb, kc, a, b, c, y
<1>4. y = (a(x) @@ b(x)) @@ c(x) BY <1>1 DEF y
<1>5. /\ Agrees(y, a(x), ka)
      /\ Agrees(y, b(x), kb)
      /\ Agrees(y, c(x), kc)
    BY <1>3, <1>4, <1>2a, <1>2b, <1>2c DEF Agrees, Has, @@
<1>6. DOMAIN y \subseteq ka \cup kb \cup kc
    BY <1>3, <1>4, <1>2a, <1>2b, <1>2c DEF @@
<1>7a. a(y) = a(x) BY <1>5, FlagsTwice DEF a
<1>7b. b(y) = b(x) BY <1>5, TextsTwice DEF b
<1>7c. c(y) = c(x)
    <2> DEFINE old == Rows(x, "instances")
               rows == Addressable(SiteRows(kind, old))
               next == Rows(y, "instances")
               again == Addressable(SiteRows(kind, next))
    <2>1. ASSUME next = rows PROVE again = rows
        <3> DEFINE sites == SiteRows(kind, old)
        <3>1. AreSites(kind, sites) BY SiteRowsAre
        <3> HIDE DEF sites
        <3>2. rows = Addressable(sites) BY DEF sites
        <3>3. AreSites(kind, rows) BY <3>1, <3>2, AddressableAre
        <3>4. SiteRows(kind, rows) = rows BY <3>3, SitesTwice
        <3>5. Addressable(rows) = rows BY <3>1, <3>2, AddressableTwice
        <3> QED BY <2>1, <3>4, <3>5
    <2>2. c(x) = Listed(x, rows) /\ c(y) = Listed(y, again) BY DEF c
    <2>3. Agrees(y, Listed(x, rows), {"instances"}) BY <1>5, <2>2 DEF kc
    <2>4. Rows(y, "instances") = rows => again = rows BY <2>1
    <2> HIDE DEF rows, again, next
    <2> QED BY <2>2, <2>3, <2>4, ListedTwice
<1>8. IsFcn(y) BY <1>4 DEF @@, IsFcn
<1> QED BY <1>1, <1>4, <1>8, <1>7a, <1>7b, <1>7c DEF y

\* Jenkins.
LEMMA JenkinsTwice ==
    ASSUME NEW x, IsList(Rows(x, "instances"))
    PROVE  Jenkins(Jenkins(x)) = Jenkins(x) /\ IsFcn(Jenkins(x))
<1> DEFINE ka == {"enabled"}
           kb == {"default_instance"}
           kc == {"instances"}
           a(z) == Flags(z, ka)
           b(z) == Texts(z, kb)
           c(z) == IF ~Empty(JenkinsRows(z)) \/ Has(z, "instances") THEN "instances" :> SiteRows("jenkins", JenkinsRows(z)) ELSE Nothing
           y == Jenkins(x)
<1>1. \A z : Jenkins(z) = (a(z) @@ b(z)) @@ c(z) BY DEF Jenkins, SwitchAndDefault
<1>2a. DOMAIN a(x) \subseteq ka BY SomeKept
<1>2b. DOMAIN b(x) \subseteq kb BY SomeKept
<1>2c. DOMAIN c(x) \subseteq kc BY DEF Nothing, :>
<1>3. /\ ka \cap kb = {} /\ ka \cap kc = {}
      /\ kb \cap kc = {}
    OBVIOUS
<1> HIDE DEF ka, kb, kc, a, b, c, y
<1>4. y = (a(x) @@ b(x)) @@ c(x) BY <1>1 DEF y
<1>5. /\ Agrees(y, a(x), ka)
      /\ Agrees(y, b(x), kb)
      /\ Agrees(y, c(x), kc)
    BY <1>3, <1>4, <1>2a, <1>2b, <1>2c DEF Agrees, Has, @@
<1>6. DOMAIN y \subseteq ka \cup kb \cup kc
    BY <1>3, <1>4, <1>2a, <1>2b, <1>2c DEF @@
<1>7a. a(y) = a(x) BY <1>5, FlagsTwice DEF a
<1>7b. b(y) = b(x) BY <1>5, TextsTwice DEF b
<1>7c. c(y) = c(x)
    <2> DEFINE rows == SiteRows("jenkins", JenkinsRows(x))
    <2>1. CASE ~Empty(JenkinsRows(x)) \/ Has(x, "instances")
        <3>1. c(x) = "instances" :> rows BY <2>1 DEF c
        <3>2. AreSites("jenkins", rows) BY JenkinsRowsAreList, SiteRowsAre
        <3> HIDE DEF rows
        <3>3. SiteRows("jenkins", rows) = rows BY <3>2, SitesTwice
        <3>4. Has(y, "instances") /\ y["instances"] = rows
            BY <1>5, <3>1 DEF Agrees, Has, :>, kc
        <3>5. JenkinsRows(y) = rows BY <3>4 DEF JenkinsRows
        <3> QED BY <3>1, <3>3, <3>4, <3>5 DEF c
    <2>2. CASE Empty(JenkinsRows(x)) /\ ~Has(x, "instances")
        <3> DEFINE flat == Without(y, {"enabled", "default_instance"})
        <3>1. c(x) = Nothing BY <2>2 DEF c
        <3>2. ~Has(y, "instances") BY <1>5, <3>1, NothingHas DEF Agrees, kc
        <3>3. DOMAIN flat = {} BY <1>6, <3>2 DEF Without, Has, ka, kb, kc
        <3>4. Text(flat, "url") = "" /\ Text(flat, "base_url") = "" /\ Text(flat, "baseUrl") = "" /\ Text(flat, "uri") = ""
            BY <3>3 DEF Text, Has
        <3>5. SiteOf(flat) = ""
            <4> HIDE DEF flat
            <4>1. FirstText(flat, <<"url", "base_url", "baseUrl", "uri">>) = ""
                BY <3>4, FourBlank
            <4> QED BY <4>1, SiteTwice DEF SiteOf
        <3>6. JenkinsRows(y) = <<>> BY <3>2, <3>5 DEF JenkinsRows
        <3> QED BY <3>1, <3>2, <3>6, EmptyIsList DEF c, Empty
    <2> QED BY <2>1, <2>2
<1>8. IsFcn(y) BY <1>4 DEF @@, IsFcn
<1> QED BY <1>1, <1>4, <1>8, <1>7a, <1>7b, <1>7c DEF y

-----------------------------------------------------------------------------
(* PostgreSQL, read again.                                                 *)

\* A database.
LEMMA DatabaseTwice == \A x : Database(Database(x)) = Database(x) /\ IsFcn(Database(x))
<1> TAKE x
<1> DEFINE ka == {"name", "host", "database", "username"}
           kb == {"port"}
           kc == {"password"}
           kd == {"enabled"}
           a(z) == [name |-> Text(z, "name"), host |-> FirstText(z, <<"host", "hostname">>), database |-> FirstText(z, <<"database", "dbname">>), username |-> FirstText(z, <<"username", "user">>)]
           b(z) == Within(z, "port", 1, 65535)
           c(z) == Texts(z, kc)
           d(z) == Flags(z, kd)
           y == Database(x)
<1>1. \A z : Database(z) = ((a(z) @@ b(z)) @@ c(z)) @@ d(z) BY DEF Database
<1>2a. DOMAIN a(x) \subseteq ka
    OBVIOUS
<1>2b. DOMAIN b(x) \subseteq kb
    <2>1. \A lo, hi : DOMAIN Within(x, "port", lo, hi) \subseteq {"port"}
        BY FieldsKept
    <2> QED BY <2>1, SMT
<1>2c. DOMAIN c(x) \subseteq kc BY SomeKept
<1>2d. DOMAIN d(x) \subseteq kd BY SomeKept
<1>3. /\ ka \cap kb = {} /\ ka \cap kc = {} /\ ka \cap kd = {}
      /\ kb \cap kc = {} /\ kb \cap kd = {}
      /\ kc \cap kd = {}
    OBVIOUS
<1> HIDE DEF ka, kb, kc, kd, a, b, c, d, y
<1>4. y = ((a(x) @@ b(x)) @@ c(x)) @@ d(x) BY <1>1 DEF y
<1>5. /\ Agrees(y, a(x), ka)
      /\ Agrees(y, b(x), kb)
      /\ Agrees(y, c(x), kc)
      /\ Agrees(y, d(x), kd)
    BY <1>3, <1>4, <1>2a, <1>2b, <1>2c, <1>2d DEF Agrees, Has, @@
<1>6. DOMAIN y \subseteq ka \cup kb \cup kc \cup kd
    BY <1>3, <1>4, <1>2a, <1>2b, <1>2c, <1>2d DEF @@
<1>7a. a(y) = a(x)
    <2> DEFINE old == a(x)
    <2>1. DOMAIN old = ka /\ \A z : /\ DOMAIN a(z) = ka /\ IsFcn(a(z)) /\ a(z)["name"] = Text(z, "name")
                                   /\ a(z)["host"] = FirstText(z, <<"host", "hostname">>)
                                   /\ a(z)["database"] = FirstText(z, <<"database", "dbname">>)
                                   /\ a(z)["username"] = FirstText(z, <<"username", "user">>)
        BY DEF a, ka, IsFcn
    <2> HIDE DEF old
    <2>2. \A k \in ka : Has(y, k) /\ y[k] = old[k]
        BY <1>5, <2>1 DEF Agrees, Has, old
    <2>3. \A k \in ka : Text(y, k) = old[k] BY <2>2 DEF Text
    <2>4. ~Has(y, "hostname") /\ ~Has(y, "dbname") /\ ~Has(y, "user")
        BY <1>6 DEF Has, ka, kb, kc, kd
    <2>5. /\ FirstText(y, <<"host", "hostname">>) = Text(y, "host")
          /\ FirstText(y, <<"database", "dbname">>) = Text(y, "database")
          /\ FirstText(y, <<"username", "user">>) = Text(y, "username")
        BY <2>4, FirstAlone
    <2>6. \A k \in ka : a(y)[k] = old[k] BY <2>1, <2>3, <2>5 DEF ka
    <2> QED BY <2>1, <2>6, SameFields DEF old
<1>7b. b(y) = b(x)
    <2>1. \A lo, hi : Agrees(y, Within(x, "port", lo, hi), {"port"}) => Within(y, "port", lo, hi) = Within(x, "port", lo, hi)
        BY WithinTwice
    <2> QED BY <1>5, <2>1, SMT DEF b, kb
<1>7c. c(y) = c(x) BY <1>5, TextsTwice DEF c
<1>7d. d(y) = d(x) BY <1>5, FlagsTwice DEF d
<1>8. IsFcn(y) BY <1>4 DEF @@, IsFcn
<1> QED BY <1>1, <1>4, <1>8, <1>7a, <1>7b, <1>7c, <1>7d DEF y

\* Databases with names of their own are read as they are.
LEMMA DatabasesTwice ==
    ASSUME NEW rows, IsList(rows)
    PROVE  Databases(Databases(rows)) = Databases(rows)
<1> DEFINE Complete(d) == "" \notin {d.name, d.host, d.database, d.username}
           Made(l) == [i \in DOMAIN l |-> Database(l[i])]
           Whole(l) == At(l, {i \in DOMAIN l : Complete(l[i])})
           Ones(l) == At(l, {i \in DOMAIN l : \A j \in DOMAIN l : j < i => FoldedName(l[j]) # FoldedName(l[i])})
           kept == Whole(Made(rows))
           y == Databases(rows)
<1>1. \A l : Databases(l) = Ones(Whole(Made(l)))
    BY DEF Databases, FirstPerKey, Filtered, Where, Map
<1>2. AreDatabases(y) BY DatabasesAre
<1>3. OneEach(y)
    <2> DEFINE made == Made(rows)
               is   == {i \in DOMAIN made : Complete(made[i])}
    <2>1. IsList(made) /\ is \in SUBSET DOMAIN made BY MapIsList
    <2>2. kept = At(made, is)
        OBVIOUS
    <2> HIDE DEF made, is
    <2>3. IsList(kept) BY <2>1, <2>2, AtIsList
    <2>4. y = Ones(kept) BY <1>1
    <2> HIDE DEF kept, y
    <2> QED BY <2>3, <2>4, OnesAre
<1> HIDE DEF kept, y
<1>4. \A i \in DOMAIN y : Complete(y[i]) /\ Database(y[i]) = y[i]
    BY <1>2, DatabaseTwice DEF AreDatabases
<1>5. Made(y) = y BY <1>3, <1>4 DEF OneEach, IsFcn
<1>6. Whole(y) = y
    <2>1. {i \in DOMAIN y : Complete(y[i])} = DOMAIN y BY <1>4
    <2> QED BY <1>3, <2>1, AtAll DEF OneEach
<1>7. Ones(y) = y BY <1>3, OnesAre DEF OneEach
<1> HIDE DEF Made, Whole, Ones
<1> QED BY <1>1, <1>5, <1>6, <1>7 DEF y

\* A shared setting that was read stays, and there is none in a blank.
LEMMA SharedTwice ==
    ASSUME NEW f \in SharedFields, NEW w
    PROVE  Shared(f, Shared(f, w)) = Shared(f, w) /\ Shared(f, "") = ""
<1>1. CASE f = "sslmode"
    <2> DEFINE modes == {"require", "verify-ca", "verify-full", "prefer"}
    <2>1. \A v : Shared(f, v) = IF Lower(v) \in modes THEN Lower(v) ELSE ""
        BY <1>1 DEF Shared
    <2>2. "" \notin modes /\ Lower("") = "" BY PlainWords DEF Plain
    <2> HIDE DEF modes
    <2> QED BY <2>1, <2>2, LowerTwice
<1>2. CASE f = "statement_timeout_seconds"
    <2> DEFINE lo == 1
               hi == 300
    <2>1. \A v : Shared(f, v) = IF InRange(v, lo, hi) THEN v ELSE ""
        BY <1>2, SMT DEF Shared
    <2>2. ~InRange("", lo, hi) BY WordsAssumption DEF InRange
    <2> HIDE DEF lo, hi
    <2> QED BY <2>1, <2>2
<1>3. CASE f # "sslmode" /\ f # "statement_timeout_seconds"
    <2> DEFINE lo == 1
               hi == MostRows
    <2>1. \A v : Shared(f, v) = IF InRange(v, lo, hi) THEN v ELSE ""
        BY <1>3 DEF Shared
    <2>2. ~InRange("", lo, hi) BY WordsAssumption DEF InRange
    <2> HIDE DEF lo, hi
    <2> QED BY <2>1, <2>2
<1> QED BY <1>1, <1>2, <1>3

\* The way in that was read stays.
LEMMA AccessTwice == \A w : Access(Access(w)) = Access(w)
<1> TAKE w
<1>1. Lower("read_only") = "read_only" /\ Lower("read_write") = "read_write" /\ Lower("") = ""
    BY PlainWords DEF Plain
<1>2. Access("read_only") = "read_only" /\ Access("read_write") = "read_write" /\ Access("") = ""
    BY <1>1 DEF Access
<1>3. Access(w) \in {"read_only", "read_write", ""} BY DEF Access
<1> QED BY <1>2, <1>3

\* What a database has no more is not lifted from it.
LEMMA NothingLifted ==
    ASSUME NEW f \in SharedFields, NEW m, \A i \in DOMAIN Rows(m, "instances") : ~Has(Rows(m, "instances")[i], f)
    PROVE  Lifted(f, m) = ""
<1> DEFINE rows   == Rows(m, "instances")
           having == {i \in DOMAIN rows : Shared(f, Text(rows[i], f)) # ""}
           ofDefault == {i \in having : Text(rows[i], "name") = Text(m, "default_instance")}
<1>1. Lifted(f, m) = Shared(f, Text(FirstOf(rows, IF ofDefault = {} THEN having ELSE ofDefault, Nothing), f))
    BY DEF Lifted, Where
<1>2. Shared(f, "") = "" BY SharedTwice
<1>3. having = {} BY <1>2 DEF Text
<1>4. ofDefault = {} BY <1>3
<1> HIDE DEF having, ofDefault, rows
<1>5. FirstOf(rows, IF ofDefault = {} THEN having ELSE ofDefault, Nothing) = Nothing
    BY <1>3, <1>4 DEF FirstOf
<1> QED BY <1>1, <1>2, <1>5, NothingHas

\* PostgreSQL.
LEMMA PostgresTwice ==
    ASSUME NEW x, IsList(Rows(x, "instances"))
    PROVE  Postgres(Postgres(x)) = Postgres(x) /\ IsFcn(Postgres(x))
<1> DEFINE ka == {"enabled"}
           kb == {"default_instance"}
           kc == {"access"}
           kd == SharedFields
           ke == {"instances"}
           a(z) == Flags(z, ka)
           b(z) == Texts(z, kb)
           c(z) == Kept("access", Access(Text(z, "access")))
           d(z) == Texts([f \in SharedFields |-> IF Has(z, f) THEN Shared(f, z[f]) ELSE Lifted(f, z)], SharedFields)
           e(z) == Listed(z, Databases(Rows(z, "instances")))
           y == Postgres(x)
<1>1. \A z : Postgres(z) = (((a(z) @@ b(z)) @@ c(z)) @@ d(z)) @@ e(z)
    BY DEF Postgres, SwitchAndDefault
<1>2a. DOMAIN a(x) \subseteq ka BY SomeKept
<1>2b. DOMAIN b(x) \subseteq kb BY SomeKept
<1>2c. DOMAIN c(x) \subseteq kc BY FieldsKept
<1>2d. DOMAIN d(x) \subseteq kd BY DEF Texts
<1>2e. DOMAIN e(x) \subseteq ke BY ListedShape
<1>3. /\ ka \cap kb = {} /\ ka \cap kc = {} /\ ka \cap kd = {} /\ ka \cap ke = {}
      /\ kb \cap kc = {} /\ kb \cap kd = {} /\ kb \cap ke = {}
      /\ kc \cap kd = {} /\ kc \cap ke = {}
      /\ kd \cap ke = {}
    BY DEF SharedFields
<1> HIDE DEF ka, kb, kc, kd, ke, a, b, c, d, e, y
<1>4. y = (((a(x) @@ b(x)) @@ c(x)) @@ d(x)) @@ e(x) BY <1>1 DEF y
<1>5. /\ Agrees(y, a(x), ka)
      /\ Agrees(y, b(x), kb)
      /\ Agrees(y, c(x), kc)
      /\ Agrees(y, d(x), kd)
      /\ Agrees(y, e(x), ke)
    BY <1>3, <1>4, <1>2a, <1>2b, <1>2c, <1>2d, <1>2e DEF Agrees, Has, @@
<1>6. DOMAIN y \subseteq ka \cup kb \cup kc \cup kd \cup ke
    BY <1>3, <1>4, <1>2a, <1>2b, <1>2c, <1>2d, <1>2e DEF @@
<1>7a. a(y) = a(x) BY <1>5, FlagsTwice DEF a
<1>7b. b(y) = b(x) BY <1>5, TextsTwice DEF b
<1>7c. c(y) = c(x)
    <2>1. Text(y, "access") = Access(Text(x, "access")) BY <1>5, KeptTwice DEF c, kc
    <2> QED BY <2>1, AccessTwice DEF c
<1>7d. d(y) = d(x)
    <2> DEFINE Said(z) == [f \in SharedFields |-> IF Has(z, f) THEN Shared(f, z[f]) ELSE Lifted(f, z)]
               old == Said(x)
               new == Said(y)
    <2>1. /\ DOMAIN old = SharedFields /\ \A f \in SharedFields : old[f] = IF Has(x, f) THEN Shared(f, x[f]) ELSE Lifted(f, x)
          /\ DOMAIN new = SharedFields /\ \A f \in SharedFields : new[f] = IF Has(y, f) THEN Shared(f, y[f]) ELSE Lifted(f, y)
        OBVIOUS
    <2>2. d(x) = Texts(old, SharedFields) /\ d(y) = Texts(new, SharedFields)
        BY DEF d
    <2> HIDE DEF old, new, Said
    <2>3. \A f \in SharedFields : Shared(f, old[f]) = old[f]
        <3>1. \A f \in SharedFields : \E w : old[f] = Shared(f, w)
            BY <2>1 DEF Lifted
        <3> QED BY <3>1, SharedTwice
    <2>4. DOMAIN Texts(old, SharedFields) = {f \in SharedFields : old[f] # ""}
          /\ \A f \in DOMAIN Texts(old, SharedFields) : Texts(old, SharedFields)[f] = old[f]
        BY <2>1 DEF Texts
    <2>5. \A f \in SharedFields : (Has(y, f) <=> old[f] # "") /\ (Has(y, f) => y[f] = old[f])
        BY <1>5, <2>2, <2>4 DEF Agrees, Has, kd
    <2>6. \A f \in SharedFields : ~Has(y, f) => Lifted(f, y) = ""
        <3>1. \A i \in DOMAIN Rows(y, "instances") : DOMAIN Rows(y, "instances")[i] \cap SharedFields = {}
            <4>1. AreDatabases(Rows(y, "instances"))
                BY PostgresShape DEF y, ServiceSection
            <4>2. \A i \in DOMAIN Rows(y, "instances") : \E r : Rows(y, "instances")[i] = Database(r)
                BY <4>1 DEF AreDatabases
            <4>3. \A r : DOMAIN Database(r) \cap SharedFields = {}
                BY DatabaseShape DEF SharedFields
            <4> QED BY <4>2, <4>3
        <3> QED BY <3>1, NothingLifted DEF Has
    <2>7. \A f \in SharedFields : new[f] = old[f] BY <2>1, <2>3, <2>5, <2>6
    <2> QED BY <2>1, <2>2, <2>7 DEF Texts
<1>7e. e(y) = e(x)
    <2> DEFINE old == Rows(x, "instances")
               rows == Databases(old)
               next == Rows(y, "instances")
               again == Databases(next)
    <2>1. ASSUME next = rows PROVE again = rows BY <2>1, DatabasesTwice
    <2>2. e(x) = Listed(x, rows) /\ e(y) = Listed(y, again) BY DEF e
    <2>3. Agrees(y, Listed(x, rows), {"instances"}) BY <1>5, <2>2 DEF ke
    <2>4. Rows(y, "instances") = rows => again = rows BY <2>1
    <2> HIDE DEF rows, again, next
    <2> QED BY <2>2, <2>3, <2>4, ListedTwice
<1>8. IsFcn(y) BY <1>4 DEF @@, IsFcn
<1> QED BY <1>1, <1>4, <1>8, <1>7a, <1>7b, <1>7c, <1>7d, <1>7e DEF y

-----------------------------------------------------------------------------
(* Proxies, read again.                                                    *)

\* A proxy.
LEMMA ProxyEntryTwice ==
    ASSUME NEW n, NEW x, ProxyUrl(Text(x, "url")) # ""
    PROVE  ProxyEntry(ProxyEntry(x, n), n) = ProxyEntry(x, n) /\ IsFcn(ProxyEntry(x, n))
<1> DEFINE ka == {"name", "url"}
           kb == {"username", "password"}
           kc == {"no_proxy"}
           a(z) == [name |-> n, url |-> ProxyUrl(Text(z, "url"))]
           b(z) == Texts(z, kb)
           c(z) == Kept("no_proxy", FirstText(z, <<"no_proxy", "noProxy">>))
           y == ProxyEntry(x, n)
<1>1. \A z : ProxyEntry(z, n) = (a(z) @@ b(z)) @@ c(z) BY DEF ProxyEntry, NoProxyOf
<1>2a. DOMAIN a(x) \subseteq ka
    OBVIOUS
<1>2b. DOMAIN b(x) \subseteq kb BY SomeKept
<1>2c. DOMAIN c(x) \subseteq kc BY FieldsKept
<1>3. /\ ka \cap kb = {} /\ ka \cap kc = {}
      /\ kb \cap kc = {}
    OBVIOUS
<1> HIDE DEF ka, kb, kc, a, b, c, y
<1>4. y = (a(x) @@ b(x)) @@ c(x) BY <1>1 DEF y
<1>5. /\ Agrees(y, a(x), ka)
      /\ Agrees(y, b(x), kb)
      /\ Agrees(y, c(x), kc)
    BY <1>3, <1>4, <1>2a, <1>2b, <1>2c DEF Agrees, Has, @@
<1>6. DOMAIN y \subseteq ka \cup kb \cup kc
    BY <1>3, <1>4, <1>2a, <1>2b, <1>2c DEF @@
<1>7a. a(y) = a(x)
    <2>1. \A z : DOMAIN a(z) = ka /\ IsFcn(a(z)) /\ a(z)["name"] = n /\ a(z)["url"] = ProxyUrl(Text(z, "url"))
        BY DEF a, ka, IsFcn
    <2>2. Has(y, "url") /\ y["url"] = ProxyUrl(Text(x, "url"))
        BY <1>5, <2>1 DEF Agrees, Has, ka
    <2>3. ProxyUrl(Text(y, "url")) = ProxyUrl(Text(x, "url"))
        BY <2>2, ProxyUrlSettles DEF Text
    <2>4. \A k \in ka : a(y)[k] = a(x)[k] BY <2>1, <2>3 DEF ka
    <2> QED BY <2>1, <2>4, SameFields
<1>7b. b(y) = b(x) BY <1>5, TextsTwice DEF b
<1>7c. c(y) = c(x)
    <2>1. ~Has(y, "noProxy") BY <1>6 DEF Has, ka, kb, kc
    <2>2. FirstText(y, <<"no_proxy", "noProxy">>) = Text(y, "no_proxy")
        BY <2>1, FirstAlone
    <2>3. Text(y, "no_proxy") = FirstText(x, <<"no_proxy", "noProxy">>)
        BY <1>5, KeptTwice DEF c, kc
    <2> QED BY <2>2, <2>3 DEF c
<1>8. IsFcn(y) BY <1>4 DEF @@, IsFcn
<1> QED BY <1>1, <1>4, <1>8, <1>7a, <1>7b, <1>7c DEF y

\* Proxies with names of their own are read as they are.
LEMMA UsableTwice ==
    ASSUME NEW rows, AreEntries(rows)
    PROVE  UsableEntries(rows) = rows
<1> DEFINE Fits(r) == Text(r, "name") \in ProxyNames /\ ProxyUrl(Text(r, "url")) # ""
           us   == {i \in DOMAIN rows : Fits(rows[i])}
           kept == At(rows, us)
           made == [i \in DOMAIN kept |-> ProxyEntry(kept[i], kept[i].name)]
           key  == [i \in DOMAIN rows |-> rows[i].name]
<1>1. UsableEntries(rows) = At(made, {i \in DOMAIN made : \A j \in DOMAIN made : j < i => made[j].name # made[i].name})
    BY DEF UsableEntries, FirstPerKey, Map, Filtered, Where
<1>2. ASSUME NEW i \in DOMAIN rows PROVE Fits(rows[i]) /\ ProxyEntry(rows[i], rows[i].name) = rows[i]
    <2>1. PICK r : rows[i] = ProxyEntry(r, rows[i].name) /\ ProxyUrl(Text(r, "url")) # "" /\ rows[i].name \in ProxyName
        BY DEF AreEntries
    <2>2. "name" \in DOMAIN rows[i] /\ "url" \in DOMAIN rows[i] /\ rows[i].url = ProxyUrl(Text(r, "url"))
        BY <2>1, EntryShape
    <2>3. Text(rows[i], "name") \in ProxyNames
        BY <2>1, <2>2, WordsAssumption DEF ProxyName, Text, Has
    <2>4. ProxyUrl(Text(rows[i], "url")) # ""
        BY <2>1, <2>2, ProxyUrlSettles DEF Text, Has
    <2>5. ProxyEntry(rows[i], rows[i].name) = rows[i] BY <2>1, ProxyEntryTwice
    <2> QED BY <2>3, <2>4, <2>5
<1>3. us = DOMAIN rows BY <1>2
<1> HIDE DEF us
<1>4. kept = rows BY <1>3, AtAll DEF AreEntries
<1> HIDE DEF kept
<1>5. made = rows BY <1>2, <1>4 DEF AreEntries, IsFcn
<1> HIDE DEF made
<1>6. DOMAIN key = DOMAIN rows /\ \A i \in DOMAIN rows : key[i] = rows[i].name
    OBVIOUS
<1> HIDE DEF key
<1>7. AllApart(key) BY <1>6 DEF AllApart, AreEntries
<1>8. Firsts(rows, key) = rows BY <1>6, <1>7, FirstsAll DEF AreEntries
<1>9. {i \in DOMAIN rows : \A j \in DOMAIN rows : j < i => rows[j].name # rows[i].name}
        = {i \in DOMAIN rows : \A j \in DOMAIN rows : j < i => key[j] # key[i]}
    BY <1>6
<1> QED BY <1>1, <1>5, <1>8, <1>9 DEF Firsts

\* An assignment that was read stays.
LEMMA AssignedTwice == \A w, names : Assigned(Assigned(w, names), names) = Assigned(w, names)
<1>1. Lower("") = "" /\ Lower("none") = "none" /\ "" \notin DirectWords /\ "none" \in DirectWords
    BY PlainWords DEF Plain, DirectWords
<1> QED BY <1>1 DEF Assigned

\* So do those of all connectors.
LEMMA AssignmentsTwice ==
    ASSUME NEW chosen, NEW names
    PROVE  LET v == Assignments(chosen, names) IN IsFcn(v) /\ Assignments(v, names) = v
<1> DEFINE v == Assignments(chosen, names)
           g == [c \in DOMAIN v |-> Assigned(v[c], names)]
<1>1. /\ IsFcn(v) /\ DOMAIN v \subseteq Assignable
      /\ \A c \in DOMAIN v : v[c] # "" /\ v[c] = Assigned(chosen[c], names)
    BY DEF Assignments, Texts, IsFcn
<1>2. Assignments(v, names) = Texts(g, Assignable) BY DEF Assignments
<1> HIDE DEF v
<1>3. DOMAIN g = DOMAIN v /\ \A c \in DOMAIN v : g[c] = v[c] BY <1>1, AssignedTwice
<1> HIDE DEF g
<1>4. Agrees(g, v, Assignable) BY <1>3 DEF Agrees, Has
<1> QED BY <1>1, <1>2, <1>4, TextsAgain DEF v

\* The rest of the section, with the same proxies.
LEMMA ProxyOfTwice ==
    ASSUME NEW E, AreEntries(E), NEW x
    PROVE  ProxyOf(ProxyOf(x, E), E) = ProxyOf(x, E) /\ IsFcn(ProxyOf(x, E))
<1> DEFINE ka == {"enabled"}
           kb == {"proxies", "default"}
           kc == {"assignments"}
           a(z) == Flags(z, ka)
           b(z) == DefaultAmong(E, Text(z, "default"))
           c(z) == KeptMap("assignments", Assignments(Sub(z, "assignments"), NamesOf(E)))
           y == ProxyOf(x, E)
<1>1. \A z : ProxyOf(z, E) = (a(z) @@ b(z)) @@ c(z) BY DEF ProxyOf
<1>2a. DOMAIN a(x) \subseteq ka BY SomeKept
<1>2b. DOMAIN b(x) \subseteq kb BY DEF DefaultAmong, Nothing
<1>2c. DOMAIN c(x) \subseteq kc BY FieldsKept, ZenonT(40)
<1>3. /\ ka \cap kb = {} /\ ka \cap kc = {}
      /\ kb \cap kc = {}
    OBVIOUS
<1> HIDE DEF ka, kb, kc, a, b, c, y
<1>4. y = (a(x) @@ b(x)) @@ c(x) BY <1>1 DEF y
<1>5. /\ Agrees(y, a(x), ka)
      /\ Agrees(y, b(x), kb)
      /\ Agrees(y, c(x), kc)
    BY <1>3, <1>4, <1>2a, <1>2b, <1>2c DEF Agrees, Has, @@
<1>6. DOMAIN y \subseteq ka \cup kb \cup kc
    BY <1>3, <1>4, <1>2a, <1>2b, <1>2c DEF @@
<1>7a. a(y) = a(x) BY <1>5, FlagsTwice DEF a
<1>7b. b(y) = b(x)
    <2>1. CASE Empty(E) BY <2>1 DEF b, DefaultAmong
    <2>2. CASE ~Empty(E)
        <3> DEFINE Pick(name) == IF name \in NamesOf(E) THEN name ELSE E[1].name
                   Laid(d) == [proxies |-> E, default |-> d]
        <3>1. \A z : b(z) = Laid(Pick(Text(z, "default")))
            BY <2>2 DEF b, DefaultAmong
        <3>2. \A d : Has(Laid(d), "default") /\ Laid(d)["default"] = d BY DEF Has
        <3>3. E[1].name \in NamesOf(E) BY <2>2, NamesOfEntries
        <3>4. \A name : Pick(name) \in NamesOf(E) BY <3>3
        <3>5. \A name : Pick(Pick(name)) = Pick(name) BY <3>4
        <3> HIDE DEF Pick, Laid
        <3>6. Has(y, "default") /\ y["default"] = Pick(Text(x, "default"))
            BY <1>5, <3>1, <3>2 DEF Agrees, kb
        <3>7. Text(y, "default") = Pick(Text(x, "default")) BY <3>6 DEF Text
        <3> QED BY <3>1, <3>5, <3>7
    <2> QED BY <2>1, <2>2
<1>7c. c(y) = c(x)
    <2> DEFINE v == Assignments(Sub(x, "assignments"), NamesOf(E))
    <2>1. IsFcn(v) /\ Assignments(v, NamesOf(E)) = v BY AssignmentsTwice
    <2>2. Agrees(y, KeptMap("assignments", v), {"assignments"}) BY <1>5 DEF c, kc
    <2> HIDE DEF v
    <2>3. Sub(y, "assignments") = v BY <2>1, <2>2, MapTwice
    <2> QED BY <2>1, <2>3 DEF c, v
<1>8. IsFcn(y) BY <1>4 DEF @@, IsFcn
<1> QED BY <1>1, <1>4, <1>8, <1>7a, <1>7b, <1>7c DEF y

\* A section without a list takes its one address, and a blank is none.
LEMMA NoProxyUrl == ProxyUrl("") = ""
<1>1. AsProxy(Parts(""))["host"] = "" BY NoAddressHost, WordsAssumption
<1> QED BY <1>1 DEF ProxyUrl, ProxyAddress

\* The section of proxies.
LEMMA ProxyTwice ==
    ASSUME NEW x, IsList(Rows(x, "proxies"))
    PROVE  Proxy(Proxy(x)) = Proxy(x) /\ IsFcn(Proxy(x))
<1> DEFINE E == ProxyEntries(x)
           y == Proxy(x)
<1>1. AreEntries(E) /\ y = ProxyOf(x, E) BY EntriesOfProxy DEF Proxy
<1> HIDE DEF E
<1>2. ProxyOf(ProxyOf(x, E), E) = ProxyOf(x, E) /\ IsFcn(ProxyOf(x, E))
    BY <1>1, ProxyOfTwice
<1>3. DOMAIN y \subseteq {"enabled", "proxies", "default", "assignments"} /\ AreEntries(Rows(y, "proxies"))
    BY ProxyIsSection DEF ProxySection
<1>4. Rows(y, "proxies") = E
    <2> DEFINE a == Flags(x, {"enabled"})
               b == DefaultAmong(E, Text(x, "default"))
               c == KeptMap("assignments", Assignments(Sub(x, "assignments"), NamesOf(E)))
    <2>1. y = (a @@ b) @@ c BY <1>1 DEF ProxyOf
    <2>2. ~Has(a, "proxies") /\ ~Has(c, "proxies")
        <3>1. DOMAIN a \subseteq {"enabled"} BY SomeKept
        <3>2. DOMAIN c \subseteq {"assignments"} BY FieldsKept, ZenonT(40)
        <3> HIDE DEF a, c
        <3> QED BY <3>1, <3>2 DEF Has
    <2>3. (Has(b, "proxies") <=> ~Empty(E)) /\ (~Empty(E) => Rows(b, "proxies") = E)
        BY AmongHas
    <2> HIDE DEF a, b, c, y
    <2>4. (Has(y, "proxies") <=> ~Empty(E)) /\ (~Empty(E) => Rows(y, "proxies") = E)
        BY <2>1, <2>2, <2>3, OverHas, OverRows
    <2>5. Empty(E) => E = <<>>
        BY <1>1, NoEntries, EmptyIsList, SameFields DEF AreEntries, Empty
    <2> QED BY <2>4, <2>5 DEF Rows
<1> HIDE DEF y
<1>5. UsableEntries(Rows(y, "proxies")) = E BY <1>1, <1>4, UsableTwice
<1>6. ProxyUrl(Text(y, "url")) = "" BY <1>3, NoProxyUrl DEF Text, Has
<1>7. ProxyEntries(y) = E BY <1>5, <1>6 DEF ProxyEntries
<1>8. Proxy(y) = ProxyOf(y, E) BY <1>7 DEF Proxy
<1> QED BY <1>1, <1>2, <1>8 DEF y

-----------------------------------------------------------------------------
(* AWS, read again.                                                        *)

\* Regions that were read are the regions.
LEMMA ChosenTwice ==
    ASSUME NEW words, IsList(words)
    PROVE  LET chosen == Chosen(words) IN IsList(chosen) /\ IsFcn(chosen) /\ Chosen(chosen) = chosen
<1> DEFINE Folds(l) == [i \in DOMAIN l |-> Lower(l[i])]
           Known(l) == {i \in DOMAIN l : l[i] \in Regions}
           folded == Folds(words)
           is     == Known(folded)
           kept   == At(folded, is)
           chosen == Chosen(words)
<1>1. \A l : Chosen(l) = Firsts(At(Folds(l), Known(Folds(l))), At(Folds(l), Known(Folds(l))))
    BY DEF Chosen, Firsts
<1>2. chosen = Firsts(kept, kept) BY <1>1
<1>3. IsList(folded) /\ \A i \in DOMAIN folded : Lower(folded[i]) = folded[i]
    BY MapIsList, LowerTwice
<1>4. is \in SUBSET DOMAIN folded /\ \A i \in is : folded[i] \in Regions
    OBVIOUS
<1> HIDE DEF folded, is, Folds, Known
<1>5. IsList(kept) /\ \A n \in DOMAIN kept : \E i \in is : kept[n] = folded[i]
    BY <1>3, <1>4, AtIsList, AtFromRows
<1>6. \A n \in DOMAIN kept : Lower(kept[n]) = kept[n] /\ kept[n] \in Regions
    BY <1>3, <1>4, <1>5
<1> HIDE DEF kept, chosen
<1>7. /\ IsList(chosen) /\ IsFcn(chosen)
      /\ \A n \in DOMAIN chosen : \E i \in DOMAIN kept : chosen[n] = kept[i]
      /\ \A m, n \in DOMAIN chosen :
            m # n => \E i, j \in DOMAIN kept : chosen[m] = kept[i] /\ chosen[n] = kept[j] /\ kept[i] # kept[j]
    BY <1>2, <1>5, FirstsApart
<1>8. \A n \in DOMAIN chosen : Lower(chosen[n]) = chosen[n] /\ chosen[n] \in Regions
    BY <1>6, <1>7
<1>9. Folds(chosen) = chosen BY <1>7, <1>8 DEF Folds, IsFcn
<1>10. Known(chosen) = DOMAIN chosen BY <1>8 DEF Known
<1>11. At(chosen, Known(chosen)) = chosen BY <1>7, <1>10, AtAll
<1>12. AllApart(chosen) BY <1>7 DEF AllApart
<1>13. Firsts(chosen, chosen) = chosen BY <1>7, <1>12, FirstsAll
<1> QED BY <1>1, <1>7, <1>9, <1>11, <1>13 DEF chosen

\* No words, no regions.
LEMMA NoneChosen == Empty(Chosen(<<>>))
<1> DEFINE folded == [i \in DOMAIN <<>> |-> Lower(<<>>[i])]
           is   == {i \in DOMAIN folded : folded[i] \in Regions}
           kept == At(folded, is)
           js   == {i \in DOMAIN kept : \A j \in DOMAIN kept : j < i => kept[j] # kept[i]}
<1>1. IsList(folded) /\ is = {} /\ is \in SUBSET DOMAIN folded
    BY EmptyIsList, MapIsList
<1>2. Chosen(<<>>) = At(kept, js) BY DEF Chosen
<1> HIDE DEF folded, is
<1>3. IsList(kept) /\ Empty(kept) BY <1>1, AtIsList
<1> HIDE DEF kept
<1>4. js = {} /\ js \in SUBSET DOMAIN kept BY <1>3 DEF Empty
<1> HIDE DEF js
<1> QED BY <1>2, <1>3, <1>4, AtIsList

\* An account.
LEMMA AccountTwice ==
    ASSUME NEW x, IsList(Rows(x, "regions"))
    PROVE  Account(Account(x)) = Account(x) /\ IsFcn(Account(x))
<1> DEFINE ka == {"name", "account_id", "role", "role_arn", "profile"}
           kb == {"enabled"}
           kc == {"regions"}
           a(z) == Texts(z, ka)
           b(z) == Flags(z, kb)
           c(z) == IF Empty(Chosen(Rows(z, "regions"))) THEN Nothing ELSE "regions" :> Chosen(Rows(z, "regions"))
           y == Account(x)
<1>1. \A z : Account(z) = (a(z) @@ b(z)) @@ c(z)
    BY DEF Account, Chosen, FirstPerKey, Filtered, Where, Map
<1>2a. DOMAIN a(x) \subseteq ka BY SomeKept
<1>2b. DOMAIN b(x) \subseteq kb BY SomeKept
<1>2c. DOMAIN c(x) \subseteq kc BY DEF Nothing, :>
<1>3. /\ ka \cap kb = {} /\ ka \cap kc = {}
      /\ kb \cap kc = {}
    OBVIOUS
<1> HIDE DEF ka, kb, kc, a, b, c, y
<1>4. y = (a(x) @@ b(x)) @@ c(x) BY <1>1 DEF y
<1>5. /\ Agrees(y, a(x), ka)
      /\ Agrees(y, b(x), kb)
      /\ Agrees(y, c(x), kc)
    BY <1>3, <1>4, <1>2a, <1>2b, <1>2c DEF Agrees, Has, @@
<1>6. DOMAIN y \subseteq ka \cup kb \cup kc
    BY <1>3, <1>4, <1>2a, <1>2b, <1>2c DEF @@
<1>7a. a(y) = a(x) BY <1>5, TextsTwice DEF a
<1>7b. b(y) = b(x) BY <1>5, FlagsTwice DEF b
<1>7c. c(y) = c(x)
    <2> DEFINE chosen == Chosen(Rows(x, "regions"))
    <2>1. Chosen(chosen) = chosen BY ChosenTwice
    <2>2. CASE Empty(chosen)
        <3>1. c(x) = Nothing BY <2>2 DEF c
        <3>2. ~Has(y, "regions") BY <1>5, <3>1, NothingHas DEF Agrees, kc
        <3> QED BY <3>1, <3>2, NoneChosen DEF c, Rows
    <2>3. CASE ~Empty(chosen)
        <3>1. c(x) = "regions" :> chosen BY <2>3 DEF c
        <3> HIDE DEF chosen
        <3>2. Rows(y, "regions") = chosen
            BY <1>5, <3>1 DEF Agrees, kc, Has, Rows, :>
        <3> QED BY <2>1, <2>3, <3>1, <3>2 DEF c
    <2> QED BY <2>2, <2>3
<1>8. IsFcn(y) BY <1>4 DEF @@, IsFcn
<1> QED BY <1>1, <1>4, <1>8, <1>7a, <1>7b, <1>7c DEF y

\* The name and the id of an account are those of its row.
LEMMA AccountTexts == \A r : Text(Account(r), "name") = Text(r, "name") /\ Text(Account(r), "account_id") = Text(r, "account_id")
<1> TAKE r
<1> DEFINE ks == {"name", "account_id", "role", "role_arn", "profile"}
           a == Texts(r, ks)
           b == Flags(r, {"enabled"})
           c == IF Empty(Chosen(Rows(r, "regions"))) THEN Nothing ELSE "regions" :> Chosen(Rows(r, "regions"))
           x == Account(r)
<1>1. x = (a @@ b) @@ c BY DEF Account, Chosen, FirstPerKey, Filtered, Where, Map
<1>2. DOMAIN b \subseteq {"enabled"} BY SomeKept
<1>3. DOMAIN c \subseteq {"regions"} BY DEF Nothing, :>
<1>4. \A k \in ks : (k \in DOMAIN a <=> Text(r, k) # "") /\ (k \in DOMAIN a => a[k] = Text(r, k))
    BY DEF Texts, Text, Has
<1>5. "name" \in ks /\ "account_id" \in ks /\ ks \cap {"enabled", "regions"} = {}
    OBVIOUS
<1> HIDE DEF a, b, c, ks, x
<1>6. \A k \in ks : (k \in DOMAIN x <=> k \in DOMAIN a) /\ (k \in DOMAIN a => x[k] = a[k])
    BY <1>1, <1>2, <1>3, <1>5 DEF @@
<1>7. \A k \in ks : Text(x, k) = Text(r, k) BY <1>4, <1>6 DEF Text, Has
<1> QED BY <1>5, <1>7 DEF x

\* Accounts that were read are the accounts.
LEMMA AccountsTwice ==
    ASSUME NEW rows, IsList(rows), \A i \in DOMAIN rows : IsList(Rows(rows[i], "regions"))
    PROVE  Accounts(Accounts(rows)) = Accounts(rows)
<1> DEFINE Fits(r) == Text(r, "name") # "" /\ Text(r, "account_id") \in AccountIds
           Fitting(l) == At(l, {i \in DOMAIN l : Fits(l[i])})
           Made(l) == [i \in DOMAIN l |-> Account(l[i])]
           Ones(l) == At(l, {i \in DOMAIN l : \A j \in DOMAIN l : j < i => FoldedName(l[j]) # FoldedName(l[i])})
           is   == {i \in DOMAIN rows : Fits(rows[i])}
           kept == Fitting(rows)
           made == Made(kept)
           y    == Accounts(rows)
<1>1. \A l : Accounts(l) = Ones(Made(Fitting(l)))
    BY DEF Accounts, FirstPerKey, Filtered, Where, Map
<1>2. \A i \in is : Fits(rows[i])
    OBVIOUS
<1>2a. is \in SUBSET DOMAIN rows /\ kept = At(rows, is)
    OBVIOUS
<1>3. y = Ones(made) BY <1>1
<1> HIDE DEF is, kept
<1>4. IsList(kept) /\ \A n \in DOMAIN kept : \E i \in is : kept[n] = rows[i]
    BY <1>2a, AtIsList, AtFromRows
<1>5. IsList(made) /\ DOMAIN made = DOMAIN kept /\ \A i \in DOMAIN kept : made[i] = Account(kept[i])
    BY <1>4, MapIsList
<1> HIDE DEF made, y
<1>6. OneEach(y) /\ \A n \in DOMAIN y : \E i \in DOMAIN made : y[n] = made[i]
    BY <1>3, <1>5, OnesAre
<1>7. ASSUME NEW n \in DOMAIN y PROVE Fits(y[n]) /\ Account(y[n]) = y[n]
    <2>1. PICK i \in DOMAIN kept : y[n] = Account(kept[i]) BY <1>5, <1>6
    <2>2. PICK j \in is : kept[i] = rows[j] BY <1>4
    <2>3. y[n] = Account(rows[j]) /\ Fits(rows[j]) /\ IsList(Rows(rows[j], "regions"))
        BY <1>2, <1>2a, <2>1, <2>2
    <2>4. Account(y[n]) = y[n] BY <2>3, AccountTwice
    <2> QED BY <2>3, <2>4, AccountTexts
<1> HIDE DEF Fits
<1>8. Fitting(y) = y
    <2>1. {i \in DOMAIN y : Fits(y[i])} = DOMAIN y BY <1>7
    <2> QED BY <1>6, <2>1, AtAll DEF OneEach
<1>9. Made(y) = y BY <1>6, <1>7 DEF OneEach, IsFcn
<1>10. Ones(y) = y BY <1>6, OnesAre DEF OneEach
<1> HIDE DEF Fitting, Made, Ones
<1> QED BY <1>1, <1>8, <1>9, <1>10 DEF y

\* A private address that was read stays.
LEMMA EndpointTwice == \A w : PrivateEndpoint(PrivateEndpoint(w)) = PrivateEndpoint(w)
<1> TAKE w
<1> DEFINE a == AsEndpoint(Parts(w))
<1>0. \A v : v \notin DOMAIN Address => PrivateEndpoint(v) = ""
    <2> TAKE v
    <2> HAVE v \notin DOMAIN Address
    <2> DEFINE blank == [scheme |-> "", user |-> "", host |-> "", port |-> "", path |-> ""]
    <2>1. Parts(v) = blank BY DEF Parts
    <2>2. "host" \in DOMAIN blank /\ blank["host"] = ""
        OBVIOUS
    <2> HIDE DEF blank
    <2>3. AsEndpoint(blank)["host"] = "" BY <2>2 DEF AsEndpoint
    <2> QED BY <2>1, <2>3 DEF PrivateEndpoint, EndpointAddress
<1>1. CASE PrivateEndpoint(w) = "" BY <1>0, <1>1, WordsAssumption
<1>2. CASE PrivateEndpoint(w) # ""
    <2>1. PrivateEndpoint(w) = Written(a) /\ EndpointAddress(a)
        BY <1>2 DEF PrivateEndpoint
    <2>2. w \in DOMAIN Address BY <1>0, <1>2
    <2>3. Parts(w) = Address[w] /\ DOMAIN Parts(w) = {"scheme", "user", "host", "port", "path"}
        BY <2>2, AddressAssumption DEF Parts
    <2>4. \E v \in DOMAIN Address : Address[v] = a BY <2>2, <2>3, AddressAssumption
    <2>5. Parts(Written(a)) = a BY <2>4, WrittenReads
    <2>6. AsEndpoint(a) = a
        <3>1. a.scheme = "https" BY <2>1 DEF EndpointAddress
        <3>2. a = [k \in DOMAIN Parts(w) |-> a[k]] /\ a.path = Slashless(Parts(w).path)
            BY <2>3 DEF AsEndpoint
        <3>3. Slashless(a.path) = a.path BY <3>2 DEF Slashless
        <3> HIDE DEF a
        <3> QED BY <3>1, <3>2, <3>3 DEF AsEndpoint
    <2> HIDE DEF a
    <2>7. PrivateEndpoint(Written(a)) = Written(a)
        BY <2>1, <2>5, <2>6 DEF PrivateEndpoint
    <2> QED BY <2>1, <2>7
<1> QED BY <1>1, <1>2

\* A cluster.
LEMMA ClusterTwice == \A x : Cluster(Cluster(x)) = Cluster(x) /\ IsFcn(Cluster(x))
<1> TAKE x
<1> DEFINE ka == {"account", "cluster", "tls_server_name"}
           kb == {"private_endpoint"}
           kc == {"region"}
           kd == {"server_ca"}
           ke == {"enabled"}
           a(z) == Texts(z, ka)
           b(z) == "private_endpoint" :> PrivateEndpoint(Text(z, "private_endpoint"))
           c(z) == OneOf(z, "region", Regions)
           d(z) == OneOf(z, "server_ca", {"cluster", "system"})
           e(z) == Flags(z, ke)
           y == Cluster(x)
<1>1. \A z : Cluster(z) = (((a(z) @@ b(z)) @@ c(z)) @@ d(z)) @@ e(z) BY DEF Cluster
<1>2a. DOMAIN a(x) \subseteq ka BY SomeKept
<1>2b. DOMAIN b(x) \subseteq kb BY DEF :>
<1>2c. DOMAIN c(x) \subseteq kc BY FieldsKept
<1>2d. DOMAIN d(x) \subseteq kd BY FieldsKept
<1>2e. DOMAIN e(x) \subseteq ke BY SomeKept
<1>3. /\ ka \cap kb = {} /\ ka \cap kc = {} /\ ka \cap kd = {} /\ ka \cap ke = {}
      /\ kb \cap kc = {} /\ kb \cap kd = {} /\ kb \cap ke = {}
      /\ kc \cap kd = {} /\ kc \cap ke = {}
      /\ kd \cap ke = {}
    OBVIOUS
<1> HIDE DEF ka, kb, kc, kd, ke, a, b, c, d, e, y
<1>4. y = (((a(x) @@ b(x)) @@ c(x)) @@ d(x)) @@ e(x) BY <1>1 DEF y
<1>5. /\ Agrees(y, a(x), ka)
      /\ Agrees(y, b(x), kb)
      /\ Agrees(y, c(x), kc)
      /\ Agrees(y, d(x), kd)
      /\ Agrees(y, e(x), ke)
    BY <1>3, <1>4, <1>2a, <1>2b, <1>2c, <1>2d, <1>2e DEF Agrees, Has, @@
<1>6. DOMAIN y \subseteq ka \cup kb \cup kc \cup kd \cup ke
    BY <1>3, <1>4, <1>2a, <1>2b, <1>2c, <1>2d, <1>2e DEF @@
<1>7a. a(y) = a(x) BY <1>5, TextsTwice DEF a
<1>7b. b(y) = b(x)
    <2> DEFINE w == PrivateEndpoint(Text(x, "private_endpoint"))
    <2>0. b(x) = "private_endpoint" :> w BY DEF b
    <2> HIDE DEF w
    <2>1. Text(y, "private_endpoint") = w
        BY <1>5, <2>0 DEF kb, Agrees, Text, Has, :>
    <2> QED BY <2>1, EndpointTwice DEF b, w
<1>7c. c(y) = c(x) BY <1>5, OneOfTwice DEF c, kc
<1>7d. d(y) = d(x) BY <1>5, OneOfTwice DEF d, kd
<1>7e. e(y) = e(x) BY <1>5, FlagsTwice DEF e
<1>8. IsFcn(y) BY <1>4 DEF @@, IsFcn
<1> QED BY <1>1, <1>4, <1>8, <1>7a, <1>7b, <1>7c, <1>7d, <1>7e DEF y

\* What is said of a cluster is said of the row it was cut from.
LEMMA ClusterTexts ==
    ASSUME NEW r, UsableCluster(r)
    PROVE  UsableCluster(Cluster(r)) /\ ClusterKey(Cluster(r)) = ClusterKey(r)
<1> DEFINE ks == {"account", "cluster", "tls_server_name"}
           a == Texts(r, ks)
           b == "private_endpoint" :> PrivateEndpoint(Text(r, "private_endpoint"))
           c == OneOf(r, "region", Regions)
           d == OneOf(r, "server_ca", {"cluster", "system"})
           e == Flags(r, {"enabled"})
           x == Cluster(r)
<1>1. x = (((a @@ b) @@ c) @@ d) @@ e BY DEF Cluster
<1>2. DOMAIN b = {"private_endpoint"} /\ b["private_endpoint"] = PrivateEndpoint(Text(r, "private_endpoint"))
    BY DEF :>
<1>3. DOMAIN c \subseteq {"region"} /\ DOMAIN d \subseteq {"server_ca"}
    BY FieldsKept
<1>4. DOMAIN e \subseteq {"enabled"} /\ DOMAIN a \subseteq ks BY SomeKept
<1>5. \A k \in ks : (k \in DOMAIN a <=> Text(r, k) # "") /\ (k \in DOMAIN a => a[k] = Text(r, k))
    BY DEF Texts, Text, Has
<1>6. "account" \in ks /\ "cluster" \in ks /\ ks \cap {"private_endpoint", "region", "server_ca", "enabled"} = {}
    OBVIOUS
<1> HIDE DEF a, b, c, d, e, ks, x
<1>7. \A k \in ks : (k \in DOMAIN x <=> k \in DOMAIN a) /\ (k \in DOMAIN a => x[k] = a[k])
    BY <1>1, <1>2, <1>3, <1>4, <1>6 DEF @@
<1>8. Text(x, "account") = Text(r, "account") /\ Text(x, "cluster") = Text(r, "cluster")
    <2>1. \A k \in ks : Text(x, k) = Text(r, k) BY <1>5, <1>7 DEF Text, Has
    <2> QED BY <1>6, <2>1
<1>9. Text(x, "private_endpoint") = PrivateEndpoint(Text(r, "private_endpoint"))
    <2>1. "private_endpoint" \in DOMAIN x /\ x["private_endpoint"] = b["private_endpoint"]
        BY <1>1, <1>2, <1>4, <1>6 DEF @@
    <2> QED BY <1>2, <2>1 DEF Text, Has
<1>10. Agrees(x, c, {"region"}) BY <1>1, <1>2, <1>3, <1>4, <1>6 DEF Agrees, Has, @@
<1>11. Text(x, "region") = Lower(Text(r, "region"))
    <2>1. c = Kept("region", IF Lower(Text(r, "region")) \in Regions THEN Lower(Text(r, "region")) ELSE "")
        BY DEF c, OneOf
    <2>2. Text(x, "region") = IF Lower(Text(r, "region")) \in Regions THEN Lower(Text(r, "region")) ELSE ""
        BY <1>10, <2>1, KeptTwice
    <2> QED BY <2>2 DEF UsableCluster
<1>12. Lower(Text(x, "region")) = Lower(Text(r, "region")) BY <1>11, LowerTwice
<1>13. PrivateEndpoint(Text(x, "private_endpoint")) # ""
    BY <1>9, EndpointTwice DEF UsableCluster
<1>14. UsableCluster(x) BY <1>8, <1>12, <1>13 DEF UsableCluster
<1>15. ClusterKey(x) = ClusterKey(r) BY <1>8, <1>12 DEF ClusterKey
<1> QED BY <1>14, <1>15 DEF x

\* Clusters that were read are the clusters.
LEMMA ClustersTwice ==
    ASSUME NEW rows, IsList(rows)
    PROVE  Clusters(Clusters(rows)) = Clusters(rows)
<1> DEFINE Fitting(l) == At(l, {i \in DOMAIN l : UsableCluster(l[i])})
           Keys(l) == [i \in DOMAIN l |-> ClusterKey(l[i])]
           Made(l) == [i \in DOMAIN l |-> Cluster(l[i])]
           Ones(l) == At(l, {i \in DOMAIN l : \A j \in DOMAIN l : j < i => ClusterKey(l[j]) # ClusterKey(l[i])})
           is   == {i \in DOMAIN rows : UsableCluster(rows[i])}
           kept == Fitting(rows)
           one  == Ones(kept)
           y    == Clusters(rows)
<1>1. \A l : Clusters(l) = Made(Ones(Fitting(l)))
    BY DEF Clusters, FirstPerKey, Filtered, Where, Map
<1>2. is \in SUBSET DOMAIN rows /\ kept = At(rows, is) /\ \A i \in is : UsableCluster(rows[i])
    OBVIOUS
<1>3. y = Made(one) BY <1>1
<1>4. \A l : DOMAIN Keys(l) = DOMAIN l /\ \A i \in DOMAIN l : Keys(l)[i] = ClusterKey(l[i])
    OBVIOUS
<1>5. \A l : Ones(l) = Firsts(l, Keys(l))
    <2> TAKE l
    <2>1. {i \in DOMAIN l : \A j \in DOMAIN l : j < i => ClusterKey(l[j]) # ClusterKey(l[i])}
            = {i \in DOMAIN l : \A j \in DOMAIN l : j < i => Keys(l)[j] # Keys(l)[i]}
        OBVIOUS
    <2> QED BY <2>1 DEF Firsts
<1> HIDE DEF is, kept, Keys
<1>6. IsList(kept) /\ \A n \in DOMAIN kept : \E i \in is : kept[n] = rows[i]
    BY <1>2, AtIsList, AtFromRows
<1>7. one = Firsts(kept, Keys(kept)) BY <1>5
<1> HIDE DEF one
<1>8. /\ IsList(one) /\ IsFcn(one)
      /\ \A n \in DOMAIN one : \E i \in DOMAIN kept : one[n] = kept[i]
      /\ \A m, n \in DOMAIN one :
            m # n => \E i, j \in DOMAIN kept : one[m] = kept[i] /\ one[n] = kept[j] /\ Keys(kept)[i] # Keys(kept)[j]
    BY <1>4, <1>6, <1>7, FirstsApart
<1>9. DOMAIN y = DOMAIN one /\ IsList(y) /\ IsFcn(y) /\ \A n \in DOMAIN one : y[n] = Cluster(one[n])
    BY <1>3, <1>8, MapIsList DEF IsFcn
<1> HIDE DEF y
<1>10. ASSUME NEW n \in DOMAIN one
       PROVE  UsableCluster(y[n]) /\ Cluster(y[n]) = y[n] /\ ClusterKey(y[n]) = ClusterKey(one[n])
    <2>1. UsableCluster(one[n]) BY <1>2, <1>6, <1>8
    <2> QED BY <1>9, <2>1, ClusterTexts, ClusterTwice
<1>11. AllApart(Keys(y))
    <2>1. ASSUME NEW m \in DOMAIN y, NEW n \in DOMAIN y, m # n PROVE ClusterKey(y[m]) # ClusterKey(y[n])
        <3>1. PICK i \in DOMAIN kept, j \in DOMAIN kept : one[m] = kept[i] /\ one[n] = kept[j] /\ Keys(kept)[i] # Keys(kept)[j]
            BY <1>8, <1>9, <2>1
        <3>2. ClusterKey(one[m]) # ClusterKey(one[n]) BY <1>4, <3>1
        <3> QED BY <1>9, <1>10, <3>2
    <2> QED BY <1>4, <2>1 DEF AllApart
<1>12. Fitting(y) = y
    <2>1. {i \in DOMAIN y : UsableCluster(y[i])} = DOMAIN y BY <1>9, <1>10
    <2> QED BY <1>9, <2>1, AtAll
<1>13. Ones(y) = y BY <1>4, <1>5, <1>9, <1>11, FirstsAll
<1>14. Made(y) = y BY <1>9, <1>10 DEF IsFcn
<1> HIDE DEF Fitting, Made, Ones
<1> QED BY <1>1, <1>12, <1>13, <1>14 DEF y

\* The AWS section.
LEMMA AwsTwice ==
    ASSUME NEW x, ListsHold("aws", x)
    PROVE  Aws(Aws(x)) = Aws(x) /\ IsFcn(Aws(x))
<1> DEFINE ka == {"enabled"}
           kb == {"provider"}
           kc == {"default_region"}
           kd == {"domain", "username", "password", "idp_url", "source_profile", "default_account", "kubeconfig_path"}
           ke == {"session_duration_seconds"}
           kf == {"accounts"}
           kg == {"eks_clusters"}
           a(z) == Flags(z, ka)
           b(z) == OneOf(z, "provider", AwsProviders)
           c(z) == OneOf(z, "default_region", Regions)
           d(z) == Texts(z, kd)
           e(z) == Within(z, "session_duration_seconds", 900, 43200)
           f(z) == IF Has(z, "accounts") THEN "accounts" :> Accounts(z["accounts"]) ELSE Nothing
           g(z) == IF Has(z, "eks_clusters") THEN "eks_clusters" :> Clusters(z["eks_clusters"]) ELSE Nothing
           y == Aws(x)
<1>1. \A z : Aws(z) = (((((a(z) @@ b(z)) @@ c(z)) @@ d(z)) @@ e(z)) @@ f(z)) @@ g(z)
    BY DEF Aws
<1>2a. DOMAIN a(x) \subseteq ka BY SomeKept
<1>2b. DOMAIN b(x) \subseteq kb BY FieldsKept
<1>2c. DOMAIN c(x) \subseteq kc BY FieldsKept
<1>2d. DOMAIN d(x) \subseteq kd BY SomeKept
<1>2e. DOMAIN e(x) \subseteq ke
    <2>1. \A lo, hi : DOMAIN Within(x, "session_duration_seconds", lo, hi) \subseteq {"session_duration_seconds"}
        BY FieldsKept
    <2> QED BY <2>1, SMT
<1>2f. DOMAIN f(x) \subseteq kf BY DEF Nothing, :>
<1>2g. DOMAIN g(x) \subseteq kg BY DEF Nothing, :>
<1>3. /\ ka \cap kb = {} /\ ka \cap kc = {} /\ ka \cap kd = {} /\ ka \cap ke = {} /\ ka \cap kf = {} /\ ka \cap kg = {}
      /\ kb \cap kc = {} /\ kb \cap kd = {} /\ kb \cap ke = {} /\ kb \cap kf = {} /\ kb \cap kg = {}
      /\ kc \cap kd = {} /\ kc \cap ke = {} /\ kc \cap kf = {} /\ kc \cap kg = {}
      /\ kd \cap ke = {} /\ kd \cap kf = {} /\ kd \cap kg = {}
      /\ ke \cap kf = {} /\ ke \cap kg = {}
      /\ kf \cap kg = {}
    OBVIOUS
<1> HIDE DEF ka, kb, kc, kd, ke, kf, kg, a, b, c, d, e, f, g, y
<1>4. y = (((((a(x) @@ b(x)) @@ c(x)) @@ d(x)) @@ e(x)) @@ f(x)) @@ g(x)
    BY <1>1, SMTT(30) DEF y
<1>5. /\ Agrees(y, a(x), ka)
      /\ Agrees(y, b(x), kb)
      /\ Agrees(y, c(x), kc)
      /\ Agrees(y, d(x), kd)
      /\ Agrees(y, e(x), ke)
      /\ Agrees(y, f(x), kf)
      /\ Agrees(y, g(x), kg)
    BY <1>3, <1>4, <1>2a, <1>2b, <1>2c, <1>2d, <1>2e, <1>2f, <1>2g, ZenonT(40) DEF Agrees, Has, @@
<1>6. DOMAIN y \subseteq ka \cup kb \cup kc \cup kd \cup ke \cup kf \cup kg
    BY <1>3, <1>4, <1>2a, <1>2b, <1>2c, <1>2d, <1>2e, <1>2f, <1>2g, ZenonT(40) DEF @@
<1>7a. a(y) = a(x) BY <1>5, FlagsTwice DEF a
<1>7b. b(y) = b(x) BY <1>5, OneOfTwice DEF b, kb
<1>7c. c(y) = c(x) BY <1>5, OneOfTwice DEF c, kc
<1>7d. d(y) = d(x) BY <1>5, TextsTwice DEF d
<1>7e. e(y) = e(x)
    <2>1. \A lo, hi : Agrees(y, Within(x, "session_duration_seconds", lo, hi), {"session_duration_seconds"}) => Within(y, "session_duration_seconds", lo, hi) = Within(x, "session_duration_seconds", lo, hi)
        BY WithinTwice
    <2> QED BY <1>5, <2>1, SMT DEF e, ke
<1>7f. f(y) = f(x)
    <2>1. CASE Has(x, "accounts")
        <3> DEFINE old == x["accounts"]
        <3>1. Accounts(Accounts(old)) = Accounts(old)
            BY <2>1, ListsByService, AccountsTwice DEF Rows
        <3>2. f(x) = "accounts" :> Accounts(old) BY <2>1 DEF f
        <3> HIDE DEF old
        <3>3. Has(y, "accounts") /\ y["accounts"] = Accounts(old)
            BY <1>5, <3>2 DEF Agrees, kf, Has, :>
        <3> QED BY <3>1, <3>2, <3>3 DEF f
    <2>2. CASE ~Has(x, "accounts")
        <3>1. f(x) = Nothing BY <2>2 DEF f
        <3>2. ~Has(y, "accounts") BY <1>5, <3>1, NothingHas DEF Agrees, kf
        <3> QED BY <3>1, <3>2 DEF f
    <2> QED BY <2>1, <2>2
<1>7g. g(y) = g(x)
    <2>1. CASE Has(x, "eks_clusters")
        <3> DEFINE old == x["eks_clusters"]
        <3>1. Clusters(Clusters(old)) = Clusters(old)
            BY <2>1, ListsByService, ClustersTwice DEF Rows
        <3>2. g(x) = "eks_clusters" :> Clusters(old) BY <2>1 DEF g
        <3> HIDE DEF old
        <3>3. Has(y, "eks_clusters") /\ y["eks_clusters"] = Clusters(old)
            BY <1>5, <3>2 DEF Agrees, kg, Has, :>
        <3> QED BY <3>1, <3>2, <3>3 DEF g
    <2>2. CASE ~Has(x, "eks_clusters")
        <3>1. g(x) = Nothing BY <2>2 DEF g
        <3>2. ~Has(y, "eks_clusters")
            BY <1>5, <3>1, NothingHas, ZenonT(40) DEF Agrees, kg
        <3> QED BY <3>1, <3>2 DEF g
    <2> QED BY <2>1, <2>2
<1>8. IsFcn(y) BY <1>4, ZenonT(40) DEF @@, IsFcn
<1> QED BY <1>1, <1>4, <1>8, <1>7a, <1>7b, <1>7c, <1>7d, <1>7e, <1>7f, <1>7g DEF y

-----------------------------------------------------------------------------
(* The model provider, read again and set right again.                     *)

\* A size that was read stays.
LEMMA TokensTwice ==
    ASSUME NEW x, NEW y, Agrees(y, Tokens(x), {"max_context_tokens"})
    PROVE  Tokens(y) = Tokens(x)
<1>1. \A lo, hi : Agrees(y, Within(x, "max_context_tokens", lo, hi), {"max_context_tokens"})
                    => Within(y, "max_context_tokens", lo, hi) = Within(x, "max_context_tokens", lo, hi)
    BY WithinTwice
<1> QED BY <1>1, SMT DEF Tokens

\* It is one field.
LEMMA TokensField == \A x : DOMAIN Tokens(x) \subseteq {"max_context_tokens"}
<1> TAKE x
<1>1. \A lo, hi : DOMAIN Within(x, "max_context_tokens", lo, hi) \subseteq {"max_context_tokens"}
    BY FieldsKept
<1> QED BY <1>1, SMT DEF Tokens

\* The parts of the model provider, laid together.
LEMMA LlmParts ==
    ASSUME NEW x
    PROVE  LET y == LlmTree(x)
           IN  /\ IsFcn(y) /\ DOMAIN y \subseteq LlmFields
               /\ Agrees(y, Only(x, {"provider", "model", "max_tokens"}), {"provider", "model", "max_tokens"})
               /\ Agrees(y, Texts(x, LlmTexts), LlmTexts)
               /\ Agrees(y, OneOf(x, "reasoning_effort", AllEfforts), {"reasoning_effort"})
               /\ Agrees(y, Tokens(x), {"max_context_tokens"})
               /\ Agrees(y, Platform(x), {"ai_platform"})
<1> DEFINE ka == {"provider", "model", "max_tokens"}
           kb == LlmTexts
           kc == {"reasoning_effort"}
           kd == {"max_context_tokens"}
           ke == {"ai_platform"}
           a == Only(x, ka)
           b == Texts(x, kb)
           c == OneOf(x, "reasoning_effort", AllEfforts)
           d == Tokens(x)
           e == Platform(x)
           y == LlmTree(x)
<1>1. y = (((a @@ b) @@ c) @@ d) @@ e
    BY SMT DEF LlmTree, LlmTexts, Tokens, Platform, Inner, Account3
<1>2. DOMAIN a \subseteq ka /\ DOMAIN b \subseteq kb BY SomeKept
<1>3. DOMAIN c \subseteq kc BY FieldsKept
<1>4. DOMAIN d \subseteq kd BY TokensField
<1>5. DOMAIN e \subseteq ke BY DEF Platform, Nothing, :>
<1>6. /\ ka \cap kb = {} /\ ka \cap kc = {} /\ ka \cap kd = {} /\ ka \cap ke = {}
      /\ kb \cap kc = {} /\ kb \cap kd = {} /\ kb \cap ke = {}
      /\ kc \cap kd = {} /\ kc \cap ke = {} /\ kd \cap ke = {}
    BY DEF LlmTexts
<1>7. LlmFields = ka \cup kb \cup kc \cup kd \cup ke BY DEF LlmFields, LlmTexts
<1> HIDE DEF a, b, c, d, e, ka, kb, kc, kd, ke, y
<1>8. Agrees(y, a, ka) /\ Agrees(y, b, kb) /\ Agrees(y, c, kc) /\ Agrees(y, d, kd) /\ Agrees(y, e, ke)
    BY <1>1, <1>2, <1>3, <1>4, <1>5, <1>6 DEF Agrees, Has, @@
<1>9. DOMAIN y \subseteq LlmFields BY <1>1, <1>2, <1>3, <1>4, <1>5, <1>7 DEF @@
<1>10. IsFcn(y) BY <1>1 DEF @@, IsFcn
<1> QED BY <1>8, <1>9, <1>10 DEF a, b, c, d, e, ka, kb, kc, kd, ke, y

\* What was read is read.
LEMMA LlmTreeIsRead == \A x : LlmRead(LlmTree(x))
<1> TAKE x
<1> DEFINE y == LlmTree(x)
<1>1. /\ IsFcn(y) /\ DOMAIN y \subseteq LlmFields
      /\ Agrees(y, Texts(x, LlmTexts), LlmTexts)
      /\ Agrees(y, OneOf(x, "reasoning_effort", AllEfforts), {"reasoning_effort"})
      /\ Agrees(y, Tokens(x), {"max_context_tokens"})
      /\ Agrees(y, Platform(x), {"ai_platform"})
    BY LlmParts
<1> HIDE DEF y
<1>2. \A w : AiRead(Inner(w))
    <2> TAKE w
    <2> DEFINE v == Inner(w)
    <2>1. IsFcn(v) /\ DOMAIN v \subseteq {"auth"} /\ (Has(v, "auth") => v["auth"] = Only(w.auth, Account3))
        BY DEF Inner, IsFcn, Has
    <2>2. IsFcn(Only(w.auth, Account3)) /\ DOMAIN Only(w.auth, Account3) \subseteq Account3
        BY DEF Only, IsFcn
    <2> HIDE DEF v
    <2>3. AiRead(v) BY <2>1, <2>2 DEF AiRead
    <2> QED BY <2>3 DEF v
<1>3. Has(y, "ai_platform") => AiRead(y["ai_platform"])
    <2> SUFFICES ASSUME Has(y, "ai_platform") PROVE AiRead(y["ai_platform"])
        OBVIOUS
    <2>1. Has(Platform(x), "ai_platform") /\ y["ai_platform"] = Platform(x)["ai_platform"]
        BY <1>1 DEF Agrees
    <2>2. Has(x, "ai_platform") BY <2>1, NothingHas DEF Platform
    <2>3. Platform(x)["ai_platform"] = Inner(x.ai_platform) BY <2>2 DEF Platform, :>
    <2> QED BY <1>2, <2>1, <2>3
<1> QED BY <1>1, <1>3 DEF LlmRead, y

\* The account of AI Platform is read as it is.
LEMMA InnerTwice == ASSUME NEW w, AiRead(w) PROVE Inner(w) = w
<1>1. CASE Has(w, "auth")
    <2>1. IsFcn(w["auth"]) /\ DOMAIN w["auth"] \subseteq Account3 /\ DOMAIN w = {"auth"} /\ IsFcn(w)
        BY <1>1 DEF AiRead, Has
    <2>2. DOMAIN w["auth"] \cap Account3 = DOMAIN w["auth"] BY <2>1
    <2>3. Only(w["auth"], Account3) = w["auth"] BY <2>1, <2>2 DEF Only, IsFcn
    <2>4. IsFcn(Inner(w)) /\ DOMAIN Inner(w) = {"auth"} /\ Inner(w)["auth"] = w["auth"]
        BY <2>1, <2>3 DEF Inner, IsFcn
    <2> HIDE DEF Inner
    <2> QED BY <2>1, <2>4, SameFields
<1>2. CASE ~Has(w, "auth")
    <2>1. DOMAIN w = {} /\ IsFcn(w) BY <1>2 DEF AiRead, Has
    <2>2. DOMAIN Inner(w) = {} /\ IsFcn(Inner(w)) BY <2>1 DEF Inner, IsFcn
    <2> QED BY <2>1, <2>2, SameFields
<1> QED BY <1>1, <1>2

\* Reading what was read gives it.
LEMMA LlmReadSettles ==
    ASSUME NEW l, LlmRead(l)
    PROVE  LlmTree(l) = l
<1> DEFINE ka == {"provider", "model", "max_tokens"}
           kc == {"reasoning_effort"}
           kd == {"max_context_tokens"}
           ke == {"ai_platform"}
           p  == LlmTree(l)
<1>1. PICK x : /\ Agrees(l, Texts(x, LlmTexts), LlmTexts)
               /\ Agrees(l, OneOf(x, "reasoning_effort", AllEfforts), kc)
               /\ Agrees(l, Tokens(x), kd)
    BY DEF LlmRead
<1>2. Texts(l, LlmTexts) = Texts(x, LlmTexts) /\ Tokens(l) = Tokens(x)
    BY <1>1, TextsTwice, TokensTwice
<1>3. OneOf(l, "reasoning_effort", AllEfforts) = OneOf(x, "reasoning_effort", AllEfforts)
    BY <1>1, OneOfTwice
<1>4. Agrees(l, Only(l, ka), ka) BY DEF Agrees, Only, Has
<1>5. Agrees(l, Platform(l), ke)
    <2>1. CASE Has(l, "ai_platform")
        <3>1. Inner(l["ai_platform"]) = l["ai_platform"]
            BY <2>1, InnerTwice DEF LlmRead
        <3>2. Platform(l) = "ai_platform" :> l["ai_platform"]
            BY <2>1, <3>1 DEF Platform
        <3> QED BY <2>1, <3>2 DEF Agrees, Has, :>
    <2>2. CASE ~Has(l, "ai_platform")
        <3>1. Platform(l) = Nothing BY <2>2 DEF Platform
        <3> QED BY <2>2, <3>1, NothingHas DEF Agrees
    <2> QED BY <2>1, <2>2
<1>6. /\ IsFcn(p) /\ DOMAIN p \subseteq LlmFields
      /\ Agrees(p, Only(l, ka), ka)
      /\ Agrees(p, Texts(l, LlmTexts), LlmTexts)
      /\ Agrees(p, OneOf(l, "reasoning_effort", AllEfforts), kc)
      /\ Agrees(p, Tokens(l), kd)
      /\ Agrees(p, Platform(l), ke)
    BY LlmParts
<1>7. IsFcn(l) /\ DOMAIN l \subseteq LlmFields BY DEF LlmRead
<1>8. LlmFields = ka \cup LlmTexts \cup kc \cup kd \cup ke
    BY DEF LlmFields, LlmTexts
<1> HIDE DEF p, ka, kc, kd, ke
<1>9. \A k \in LlmFields : (Has(p, k) <=> Has(l, k)) /\ (Has(l, k) => p[k] = l[k])
    <2>1. \A k \in ka : (Has(p, k) <=> Has(l, k)) /\ (Has(l, k) => p[k] = l[k])
        BY <1>4, <1>6 DEF Agrees
    <2>2. \A k \in LlmTexts : (Has(p, k) <=> Has(l, k)) /\ (Has(l, k) => p[k] = l[k])
        BY <1>1, <1>2, <1>6 DEF Agrees
    <2>3. \A k \in kc : (Has(p, k) <=> Has(l, k)) /\ (Has(l, k) => p[k] = l[k])
        BY <1>1, <1>3, <1>6 DEF Agrees
    <2>4. \A k \in kd : (Has(p, k) <=> Has(l, k)) /\ (Has(l, k) => p[k] = l[k])
        BY <1>1, <1>2, <1>6 DEF Agrees
    <2>5. \A k \in ke : (Has(p, k) <=> Has(l, k)) /\ (Has(l, k) => p[k] = l[k])
        BY <1>5, <1>6 DEF Agrees
    <2> QED BY <1>8, <2>1, <2>2, <2>3, <2>4, <2>5
<1>10. DOMAIN p = DOMAIN l BY <1>6, <1>7, <1>9 DEF Has
<1>11. \A k \in DOMAIN p : p[k] = l[k] BY <1>6, <1>9, <1>10 DEF Has
<1> QED BY <1>6, <1>7, <1>10, <1>11, SameFields DEF p

\* The model the provider has is set right once.
LEMMA CoercedTwice == \A cat, p, m : Coerced(cat, p, Coerced(cat, p, m)) = Coerced(cat, p, m)
BY DEF Coerced

\* What setting right leaves alone, and what it sets.
LEMMA CanonicalParts ==
    ASSUME NEW cat, NEW l, CanonicalLlm(cat, l) # l
    PROVE  LET p    == Provider(Lower(Text(l, "provider")))
               auth == Texts(Sub(Sub(l, "ai_platform"), "auth"), Account3)
               c    == CanonicalLlm(cat, l)
           IN  /\ IsFcn(c) /\ DOMAIN c \subseteq DOMAIN l \cup {"provider", "ai_platform"}
               /\ Has(c, "provider") /\ c["provider"] = p
               /\ Has(c, "model") <=> Has(l, "model")
               /\ Has(l, "model") => c["model"] = Coerced(cat, p, l["model"])
               /\ IF p = AiPlatform /\ DOMAIN auth # {} THEN Has(c, "ai_platform") /\ c["ai_platform"] = "auth" :> auth
                  ELSE ~Has(c, "ai_platform")
               /\ \A k : k \notin {"provider", "model", "ai_platform"} =>
                            (Has(c, k) <=> Has(l, k)) /\ (Has(l, k) => c[k] = l[k])
<1> DEFINE p    == Provider(Lower(Text(l, "provider")))
           auth == Texts(Sub(Sub(l, "ai_platform"), "auth"), Account3)
           ai   == p = AiPlatform /\ DOMAIN auth # {}
           held == "auth" :> auth
           a == "provider" :> p
           b == IF Has(l, "model") THEN "model" :> Coerced(cat, p, l["model"]) ELSE Nothing
           e == IF ai THEN "ai_platform" :> held ELSE Nothing
           r == Without(l, {"ai_platform"})
           c == CanonicalLlm(cat, l)
<1>1. c = ((a @@ b) @@ e) @@ r BY DEF CanonicalLlm, Account3
<1>2. DOMAIN a = {"provider"} /\ a["provider"] = p BY DEF :>
<1>3. DOMAIN b = (IF Has(l, "model") THEN {"model"} ELSE {}) /\ (Has(l, "model") => b["model"] = Coerced(cat, p, l["model"]))
    <2>1. CASE Has(l, "model") BY <2>1 DEF :>
    <2>2. CASE ~Has(l, "model") BY <2>2 DEF Nothing
    <2> QED BY <2>1, <2>2
<1> HIDE DEF held, ai
<1>4. DOMAIN e = (IF ai THEN {"ai_platform"} ELSE {}) /\ (ai => e["ai_platform"] = held)
    BY DEF Nothing, :>
<1>5. DOMAIN r = DOMAIN l \ {"ai_platform"} /\ \A k \in DOMAIN r : r[k] = l[k]
    BY DEF Without
<1> HIDE DEF a, b, e, r, c, p, auth
<1>6. DOMAIN c = DOMAIN a \cup DOMAIN b \cup DOMAIN e \cup DOMAIN r /\ IsFcn(c)
    BY <1>1 DEF @@, IsFcn
<1>7. \A k \in DOMAIN c : c[k] = IF k \in DOMAIN a THEN a[k] ELSE IF k \in DOMAIN b THEN b[k]
                                 ELSE IF k \in DOMAIN e THEN e[k] ELSE r[k]
    BY <1>1, <1>6 DEF @@
<1>8. Has(c, "provider") /\ c["provider"] = p BY <1>2, <1>6, <1>7 DEF Has
<1>9. (Has(c, "model") <=> Has(l, "model")) /\ (Has(l, "model") => c["model"] = Coerced(cat, p, l["model"]))
    BY <1>2, <1>3, <1>4, <1>5, <1>6, <1>7 DEF Has
<1>10. IF ai THEN Has(c, "ai_platform") /\ c["ai_platform"] = held ELSE ~Has(c, "ai_platform")
    BY <1>2, <1>3, <1>4, <1>5, <1>6, <1>7 DEF Has
<1>11. \A k : k \notin {"provider", "model", "ai_platform"} => (Has(c, k) <=> Has(l, k)) /\ (Has(l, k) => c[k] = l[k])
    BY <1>2, <1>3, <1>4, <1>5, <1>6, <1>7 DEF Has
<1>12. DOMAIN c \subseteq DOMAIN l \cup {"provider", "ai_platform"}
    BY <1>2, <1>3, <1>4, <1>5, <1>6 DEF Has
<1> QED BY <1>6, <1>8, <1>9, <1>10, <1>11, <1>12 DEF ai, held, p, auth, c

\* A model provider that was read stays one when it is set right.
LEMMA CanonicalIsRead ==
    ASSUME NEW cat, NEW l, LlmRead(l)
    PROVE  LlmRead(CanonicalLlm(cat, l))
<1> DEFINE c    == CanonicalLlm(cat, l)
           auth == Texts(Sub(Sub(l, "ai_platform"), "auth"), Account3)
           held == "auth" :> auth
<1>1. CASE c = l BY <1>1
<1>2. CASE c # l
    <2>1. /\ IsFcn(c) /\ DOMAIN c \subseteq DOMAIN l \cup {"provider", "ai_platform"}
          /\ Has(c, "ai_platform") => c["ai_platform"] = held
          /\ \A k : k \notin {"provider", "model", "ai_platform"} => (Has(c, k) <=> Has(l, k)) /\ (Has(l, k) => c[k] = l[k])
        BY <1>2, CanonicalParts
    <2>2. AiRead(held)
        <3>1. IsFcn(auth) /\ DOMAIN auth \subseteq Account3 BY DEF Texts, IsFcn
        <3> HIDE DEF auth
        <3>2. IsFcn(held) /\ DOMAIN held = {"auth"} /\ held["auth"] = auth
            BY DEF :>, IsFcn
        <3> HIDE DEF held
        <3> QED BY <3>1, <3>2 DEF AiRead
    <2> HIDE DEF c, held
    <2>3. DOMAIN c \subseteq LlmFields BY <2>1 DEF LlmRead, LlmFields
    <2>4. PICK x : /\ Agrees(l, Texts(x, LlmTexts), LlmTexts)
                   /\ Agrees(l, OneOf(x, "reasoning_effort", AllEfforts), {"reasoning_effort"})
                   /\ Agrees(l, Tokens(x), {"max_context_tokens"})
        BY DEF LlmRead
    <2>5. LlmTexts \cap {"provider", "model", "ai_platform"} = {} BY DEF LlmTexts
    <2>6. /\ Agrees(c, Texts(x, LlmTexts), LlmTexts)
          /\ Agrees(c, OneOf(x, "reasoning_effort", AllEfforts), {"reasoning_effort"})
          /\ Agrees(c, Tokens(x), {"max_context_tokens"})
        BY <2>1, <2>4, <2>5 DEF Agrees
    <2>7. LlmRead(c) BY <2>1, <2>2, <2>3, <2>6 DEF LlmRead
    <2> QED BY <2>7 DEF c
<1> QED BY <1>1, <1>2 DEF c

\* A choice of a model that was set right stays.
LEMMA CanonicalLlmTwice ==
    ASSUME NEW cat, NEW l
    PROVE  CanonicalLlm(cat, CanonicalLlm(cat, l)) = CanonicalLlm(cat, l)
<1> DEFINE c == CanonicalLlm(cat, l)
           d == CanonicalLlm(cat, c)
           p == Provider(Lower(Text(l, "provider")))
           auth == Texts(Sub(Sub(l, "ai_platform"), "auth"), Account3)
           ai   == p = AiPlatform /\ DOMAIN auth # {}
           held == "auth" :> auth
           q == Provider(Lower(Text(c, "provider")))
           again == Texts(Sub(Sub(c, "ai_platform"), "auth"), Account3)
<1>1. CASE c = l BY <1>1
<1>2. CASE d = c BY <1>2
<1>3. CASE c # l /\ d # c
    <2>1. /\ IsFcn(c) /\ Has(c, "provider") /\ c["provider"] = p
          /\ Has(c, "model") <=> Has(l, "model")
          /\ Has(l, "model") => c["model"] = Coerced(cat, p, l["model"])
          /\ IF ai THEN Has(c, "ai_platform") /\ c["ai_platform"] = held ELSE ~Has(c, "ai_platform")
        BY <1>3, CanonicalParts
    <2>2. /\ IsFcn(d) /\ Has(d, "provider") /\ d["provider"] = q
          /\ Has(d, "model") <=> Has(c, "model")
          /\ Has(c, "model") => d["model"] = Coerced(cat, q, c["model"])
          /\ IF q = AiPlatform /\ DOMAIN again # {} THEN Has(d, "ai_platform") /\ d["ai_platform"] = "auth" :> again
             ELSE ~Has(d, "ai_platform")
          /\ \A k : k \notin {"provider", "model", "ai_platform"} => (Has(d, k) <=> Has(c, k)) /\ (Has(c, k) => d[k] = c[k])
        BY <1>3, CanonicalParts
    <2>3. Text(c, "provider") = p BY <2>1 DEF Text
    <2>4. Lower(p) = p /\ Provider(p) = p
        <3>1. p \in {"ai_platform", "github_copilot"}
            BY DEF Provider, AiPlatform, Copilot
        <3> HIDE DEF p
        <3>2. Lower(p) = p BY <3>1, PlainWords DEF Plain
        <3> QED BY <3>1, <3>2 DEF Provider, AiPlatform, Copilot
    <2>5. q = p BY <2>3, <2>4
    <2>6. ai => again = auth
        <3> SUFFICES ASSUME ai PROVE again = auth
            OBVIOUS
        <3>1. IsFcn(auth) /\ DOMAIN auth \subseteq Account3 /\ \A k \in DOMAIN auth : auth[k] # ""
            BY DEF Texts, IsFcn
        <3>2. Sub(held, "auth") = auth BY DEF Sub, Has, :>
        <3>3. Sub(c, "ai_platform") = held BY <2>1 DEF Sub
        <3>4. again = Texts(auth, Account3) BY <3>2, <3>3
        <3> HIDE DEF auth, again
        <3>5. Agrees(auth, auth, Account3) BY DEF Agrees
        <3> QED BY <3>1, <3>4, <3>5, TextsAgain
    <2>7. ~ai => ~(q = AiPlatform /\ DOMAIN again # {})
        <3> SUFFICES ASSUME ~ai PROVE DOMAIN again = {}
            OBVIOUS
        <3>1. Sub(c, "ai_platform") = Nothing BY <2>1 DEF Sub
        <3>2. Sub(Nothing, "auth") = Nothing /\ DOMAIN Nothing = {}
            BY NothingHas DEF Nothing
        <3> QED BY <3>1, <3>2 DEF Texts
    <2>8. \A k : (Has(d, k) <=> Has(c, k)) /\ (Has(c, k) => d[k] = c[k])
        <3> HIDE DEF c, d, p, q, auth, again
        <3>1. d["provider"] = c["provider"] /\ Has(d, "provider") /\ Has(c, "provider")
            BY <2>1, <2>2, <2>5
        <3>2. (Has(d, "model") <=> Has(c, "model")) /\ (Has(c, "model") => d["model"] = c["model"])
            BY <2>1, <2>2, <2>5, CoercedTwice
        <3>3. (Has(d, "ai_platform") <=> Has(c, "ai_platform")) /\ (Has(c, "ai_platform") => d["ai_platform"] = c["ai_platform"])
            <4>1. CASE ai
                <5>1. again = auth BY <2>6, <4>1
                <5>2. Has(c, "ai_platform") /\ c["ai_platform"] = held BY <2>1, <4>1
                <5>3. q = AiPlatform /\ DOMAIN again # {} BY <2>5, <4>1, <5>1
                <5> QED BY <2>2, <5>1, <5>2, <5>3
            <4>2. CASE ~ai
                <5>1. ~Has(c, "ai_platform") BY <2>1, <4>2
                <5>2. ~Has(d, "ai_platform") BY <2>2, <2>7, <4>2
                <5> QED BY <5>1, <5>2
            <4> QED BY <4>1, <4>2
        <3> QED BY <2>2, <3>1, <3>2, <3>3
    <2> HIDE DEF c, d
    <2>9. DOMAIN d = DOMAIN c /\ \A k \in DOMAIN d : d[k] = c[k] BY <2>8 DEF Has
    <2>10. d = c BY <2>1, <2>2, <2>9, SameFields
    <2> QED BY <2>10 DEF c, d
<1> QED BY <1>1, <1>2, <1>3

-----------------------------------------------------------------------------
(* The row as a whole, read again.                                         *)

\* A section that was read is read as it is.
LEMMA SectionTwice ==
    ASSUME NEW s \in Sections \ {"llm"}, NEW x, ListsHold(s, x)
    PROVE  Section(s, Section(s, x)) = Section(s, x)
<1>1. CASE s \in {"jira", "confluence"}
    <2>1. \A m : Section(s, m) = Tracker(s, m) BY <1>1 DEF Section
    <2>2. IsList(Rows(x, "instances")) BY <1>1, ListsByService DEF Services
    <2> QED BY <2>1, <2>2, TrackerTwice
<1>2. CASE s \in {"nexus", "splunk"}
    <2>1. \A m : Section(s, m) = Repository(s, m) BY <1>2 DEF Section
    <2>2. IsList(Rows(x, "instances")) BY <1>2, ListsByService DEF Services, Named
    <2> QED BY <2>1, <2>2, RepositoryTwice
<1>3. CASE s = "pgsql"
    <2>1. \A m : Section(s, m) = Postgres(m) BY <1>3 DEF Section
    <2>2. IsList(Rows(x, "instances")) BY <1>3, ListsByService DEF Services, Named
    <2> QED BY <2>1, <2>2, PostgresTwice
<1>4. CASE s = "jenkins"
    <2>1. \A m : Section(s, m) = Jenkins(m) BY <1>4 DEF Section
    <2>2. IsList(Rows(x, "instances")) BY <1>4, ListsByService DEF Services
    <2> QED BY <2>1, <2>2, JenkinsTwice
<1>5. CASE s = "github"
    <2>1. \A m : Section(s, m) = GitHub(m) BY <1>5 DEF Section
    <2> QED BY <2>1, GitHubTwice
<1>6. CASE s = "aws"
    <2>1. \A m : Section(s, m) = Aws(m) BY <1>6 DEF Section
    <2> QED BY <1>6, <2>1, AwsTwice
<1>7. CASE s = "proxy"
    <2>1. \A m : Section(s, m) = Proxy(m) BY <1>7 DEF Section
    <2>2. IsList(Rows(x, "proxies")) BY <1>7, ListsByService
    <2> QED BY <2>1, <2>2, ProxyTwice
<1>8. CASE s = "mobile-auto"
    <2>1. \A m : Section(s, m) = Mobile(m) BY <1>8 DEF Section
    <2> QED BY <2>1, MobileTwice
<1>9. CASE s = "git"
    <2>1. \A m : Section(s, m) = Git(m) BY <1>9 DEF Section
    <2> QED BY <2>1, GitTwice
<1>10. CASE s = "debug"
    <2>1. \A m : Section(s, m) = Debug(m) BY <1>10 DEF Section
    <2> QED BY <2>1, DebugTwice
<1> QED BY <1>1, <1>2, <1>3, <1>4, <1>5, <1>6, <1>7, <1>8, <1>9, <1>10 DEF Sections

\* A row that was read is read as it is.
LEMMA SettledRow ==
    ASSUME NEW row, RowRead(row), Settled(row)
    PROVE  Sanitized(row) = row
<1> DEFINE y == [s \in DOMAIN row \cap Sections |-> Section(s, row[s])]
           z == Sanitized(row)
<1>1. ASSUME NEW s \in DOMAIN row PROVE Section(s, row[s]) = row[s]
    <2>1. CASE s = "llm"
        <3>1. LlmRead(row[s]) BY <2>1 DEF Settled, Has
        <3>2. Section(s, row[s]) = LlmTree(row[s]) BY <2>1 DEF Section
        <3> QED BY <3>1, <3>2, LlmReadSettles
    <2>2. CASE s # "llm"
        <3>1. row[s] # Nothing /\ Sub(row, s) = row[s] /\ s \in Sections
            BY DEF Settled, Sub, Has, Nothing
        <3>2. PICK x : ListsHold(s, x) /\ row[s] = Section(s, x)
            BY <2>2, <3>1 DEF RowRead, SectionRead
        <3> QED BY <2>2, <3>1, <3>2, SectionTwice
    <2> QED BY <2>1, <2>2
<1>2. DOMAIN y = DOMAIN row /\ \A s \in DOMAIN y : y[s] = row[s] BY <1>1 DEF Settled
<1>3. z = [s \in {t \in DOMAIN y : DOMAIN y[t] # {}} |-> y[s]]
    BY DEF Sanitized, Filled
<1> HIDE DEF y, z
<1>4. {t \in DOMAIN y : DOMAIN y[t] # {}} = DOMAIN row BY <1>2 DEF Settled
<1>5. IsFcn(z) /\ DOMAIN z = DOMAIN row /\ \A s \in DOMAIN z : z[s] = row[s]
    BY <1>2, <1>3, <1>4 DEF IsFcn
<1> QED BY <1>5, SameFields DEF Settled, z

\* What is saved is settled.
LEMMA SavedSettled == \A cat, x : Settled(Canonical(cat, Sanitized(x)))
<1> TAKE cat, x
<1> DEFINE z == Sanitized(x)
           l == CanonicalLlm(cat, z["llm"])
           a == KeptMap("llm", l)
           b == Without(z, {"llm"})
           c == Canonical(cat, z)
<1>1. IsFcn(z) /\ DOMAIN z \subseteq Sections /\ \A s \in DOMAIN z : DOMAIN z[s] # {}
    BY DEF Sanitized, Filled, IsFcn
<1>2. "llm" \in DOMAIN z => z["llm"] = LlmTree(x["llm"])
    <2>1. Section("llm", x["llm"]) = LlmTree(x["llm"]) BY DEF Section
    <2> QED BY <2>1 DEF Sanitized, Filled
<1> HIDE DEF z
<1>3. CASE "llm" \notin DOMAIN z
    <2>1. c = z BY <1>3 DEF Canonical
    <2> QED BY <1>1, <1>3, <2>1 DEF Settled, Has, z
<1>4. CASE "llm" \in DOMAIN z
    <2>1. c = a @@ b BY <1>4 DEF Canonical
    <2>2. LlmRead(l) BY <1>2, <1>4, LlmTreeIsRead, CanonicalIsRead
    <2> HIDE DEF l
    <2>3. DOMAIN a \subseteq {"llm"} /\ \A s \in DOMAIN a : a[s] = l /\ DOMAIN l # {}
        BY DEF KeptMap, Nothing, :>
    <2>4. DOMAIN b = DOMAIN z \ {"llm"} /\ \A s \in DOMAIN b : b[s] = z[s]
        BY DEF Without
    <2> HIDE DEF a, b, c
    <2>5. /\ DOMAIN c = DOMAIN a \cup DOMAIN b
          /\ \A s \in DOMAIN c : c[s] = IF s \in DOMAIN a THEN a[s] ELSE b[s]
          /\ IsFcn(c)
        BY <2>1 DEF @@, IsFcn
    <2>6. "llm" \in Sections BY DEF Sections
    <2>7. \A s \in DOMAIN c : DOMAIN c[s] # {} BY <1>1, <2>3, <2>4, <2>5
    <2>8. "llm" \in DOMAIN c => c["llm"] = l BY <2>3, <2>4, <2>5
    <2>9. Settled(c)
        BY <1>1, <2>2, <2>3, <2>4, <2>5, <2>6, <2>7, <2>8 DEF Settled, Has
    <2> QED BY <2>9 DEF c, z
<1> QED BY <1>3, <1>4

\* A choice of a model that was set right stays, in the row that holds it.
LEMMA RowCanonicalTwice ==
    ASSUME NEW cat, NEW row, IsFcn(row)
    PROVE  Canonical(cat, Canonical(cat, row)) = Canonical(cat, row)
<1> DEFINE l == CanonicalLlm(cat, row["llm"])
           a == KeptMap("llm", l)
           b == Without(row, {"llm"})
           c == Canonical(cat, row)
           k == CanonicalLlm(cat, c["llm"])
           e == KeptMap("llm", k)
           f == Without(c, {"llm"})
           d == Canonical(cat, c)
<1>1. CASE "llm" \notin DOMAIN c BY <1>1 DEF Canonical
<1>2. CASE "llm" \in DOMAIN c
    <2>1. d = e @@ f BY <1>2 DEF Canonical
    <2>2. "llm" \in DOMAIN row BY <1>2 DEF Canonical
    <2>3. c = a @@ b BY <2>2 DEF Canonical
    <2>4. DOMAIN a \subseteq {"llm"} /\ (\A s \in DOMAIN a : a[s] = l /\ DOMAIN l # {}) /\ "llm" \notin DOMAIN b
        BY DEF KeptMap, Nothing, :>, Without
    <2>5. CanonicalLlm(cat, l) = l BY CanonicalLlmTwice
    <2>6. (DOMAIN k # {} => DOMAIN e = {"llm"} /\ e["llm"] = k) /\ DOMAIN f = DOMAIN c \ {"llm"} /\ \A s \in DOMAIN f : f[s] = c[s]
        BY DEF KeptMap, :>, Without
    <2> HIDE DEF a, b, l
    <2>7. c["llm"] = l /\ DOMAIN l # {} /\ IsFcn(c)
        <3> HIDE DEF c
        <3> QED BY <1>2, <2>3, <2>4 DEF @@, IsFcn
    <2> HIDE DEF c
    <2>8. k = l BY <2>5, <2>7
    <2> HIDE DEF k, e, f, d
    <2>9. IsFcn(d) /\ DOMAIN d = DOMAIN c /\ \A s \in DOMAIN d : d[s] = c[s]
        <3>1. IsFcn(d) /\ DOMAIN d = DOMAIN e \cup DOMAIN f /\ \A s \in DOMAIN d : d[s] = IF s \in DOMAIN e THEN e[s] ELSE f[s]
            BY <2>1 DEF @@, IsFcn
        <3> QED BY <1>2, <2>6, <2>7, <2>8, <3>1
    <2> QED BY <2>7, <2>9, SameFields DEF c, d
<1> QED BY <1>1, <1>2

\* Every step leaves a row that is settled.
LEMMA AllSettled == Spec => []ConfigSettled
<1>1. Init => ConfigSettled
    <2>1. IsFcn(Nothing) /\ DOMAIN Nothing = {} BY DEF Nothing, IsFcn
    <2> QED BY <2>1 DEF Init, FormInit, ConfigSettled, Settled, Has
<1>2. ConfigSettled /\ [Next]_<<formVars, catVars, part>> => ConfigSettled'
    <2> SUFFICES ASSUME ConfigSettled, [Next]_<<formVars, catVars, part>> PROVE Settled(config')
        BY DEF ConfigSettled
    <2>1. \A form \in Forms : Post(form) => Settled(config')
        BY SavedSettled DEF Post, Saved
    <2>2. \A given \in Given : Replace(given) => Settled(config')
        BY SavedSettled DEF Replace
    <2>3. config' = config => Settled(config') BY DEF ConfigSettled
    <2>4. (\E form \in Forms : Refuse(form)) \/ (\E cat \in Catalogs : Registered(cat)) => config' = config
        BY DEF Refuse, Registered, formVars
    <2>5. FormNext => Settled(config') BY <2>1, <2>2, <2>3, <2>4 DEF FormNext
    <2> QED BY <2>3, <2>5 DEF Next, formVars
<1> QED BY <1>1, <1>2, PTL DEF Spec

\* FormsSettle holds of every behaviour: what the sanitizer reads of a stored row, and what
\* setting its model right makes of it, is that row again; and every proxy a connector is
\* assigned, and the default one, is a proxy of the row.
THEOREM RowsSettle == Spec => []FormsSettle
<1>1. ConfigRead /\ ConfigSettled => FormsSettle
    <2> SUFFICES ASSUME RowRead(config), Settled(config) PROVE SettingsSettle
        BY DEF ConfigRead, ConfigSettled, FormsSettle
    <2> DEFINE m == Sub(config, "proxy")
    <2>1. Sanitized(config) = config BY SettledRow
    <2>2. \A cat \in Catalogs \cup {NoCatalog} : Canonical(cat, Canonical(cat, config)) = Canonical(cat, config)
        BY RowCanonicalTwice DEF Settled
    <2>3. ProxySection(m) BY ProxyRead DEF RowRead
    <2> HIDE DEF m
    <2>4. NamesOf(Rows(m, "proxies")) # {} => Text(m, "default") \in NamesOf(Rows(m, "proxies"))
        <3>1. ~Has(m, "proxies") => NamesOf(Rows(m, "proxies")) = {}
            BY EmptyIsList DEF Rows, NamesOf
        <3>2. Has(m, "proxies") => Text(m, "default") \in NamesOf(Rows(m, "proxies"))
            BY <2>3 DEF ProxySection, Rows, Text
        <3> QED BY <3>1, <3>2
    <2>5. \A c \in DOMAIN Sub(m, "assignments") : m["assignments"][c] \in NamesOf(Rows(m, "proxies")) \cup {"none"}
        BY <2>3 DEF ProxySection
    <2> QED BY <2>1, <2>2, <2>4, <2>5 DEF SettingsSettle, m
<1> QED BY <1>1, RowsAreRead, AllSettled, PTL

-----------------------------------------------------------------------------
(* A form that is let pass: each of its cards is a row of what is stored.  *)

\* A card is a row when it has a name or an address, and no row is anything else.
LEMMA CardsAre ==
    ASSUME NEW cards, IsList(cards), NEW ks, NEW kept, NEW old
    PROVE  RowsOfCards(cards, CardRows(cards, ks, kept, old), ks, kept, old)
<1> DEFINE made == [i \in DOMAIN cards |-> CardRow(cards[i], ks, kept, old)]
           is   == {i \in DOMAIN made : Text(made[i], "name") # "" \/ Text(made[i], "url") # ""}
           rows == CardRows(cards, ks, kept, old)
<1>1. rows = At(made, is) BY DEF CardRows, Filtered, Where, Map
<1>2. DOMAIN made = DOMAIN cards /\ \A i \in DOMAIN cards : made[i] = CardRow(cards[i], ks, kept, old)
    OBVIOUS
<1>3. IsList(made) /\ is \in SUBSET DOMAIN made BY <1>2, MapIsList
<1> HIDE DEF made
<1>4. \A i \in DOMAIN made : i \in is <=> (Text(made[i], "name") # "" \/ Text(made[i], "url") # "")
    OBVIOUS
<1> HIDE DEF is, rows
<1>5. /\ IsList(rows) /\ IsFcn(rows)
      /\ \A n \in DOMAIN rows : Place(is, n) \in is /\ rows[n] = made[Place(is, n)]
      /\ \A i \in is : \E n \in DOMAIN rows : rows[n] = made[i]
    BY <1>1, <1>3, AtIsList, AtIsFcn
<1>6. \A n \in DOMAIN rows : /\ \E i \in DOMAIN cards : rows[n] = CardRow(cards[i], ks, kept, old)
                             /\ Text(rows[n], "name") # "" \/ Text(rows[n], "url") # ""
    BY <1>2, <1>3, <1>4, <1>5
<1>7. \A i \in DOMAIN cards :
         Text(CardRow(cards[i], ks, kept, old), "name") # "" \/ Text(CardRow(cards[i], ks, kept, old), "url") # ""
           => \E n \in DOMAIN rows : rows[n] = CardRow(cards[i], ks, kept, old)
    BY <1>2, <1>4, <1>5
<1> QED BY <1>5, <1>6, <1>7 DEF RowsOfCards, rows

\* What a card posts of such a field is what its row has.
LEMMA CardTexts ==
    ASSUME NEW card, NEW ks, NEW kept, NEW old, NEW k, Copied(k, kept)
    PROVE  CardText(card, ks, kept, old, k)
<1> DEFINE row == CardRow(card, ks, kept, old)
<1>1. DOMAIN row = ks BY DEF CardRow
<1>2. k \in ks => row[k] = Text(card, k) BY DEF CardRow, Copied
<1> HIDE DEF row
<1>3. (k \in ks => Text(row, k) = Text(card, k)) /\ (k \notin ks => Text(row, k) = "")
    BY <1>1, <1>2 DEF Text, Has
<1> QED BY <1>3 DEF CardText, row

\* The name of every card is the name of a row.
LEMMA CardNames ==
    ASSUME NEW cards, IsList(cards), NEW ks, NEW kept, NEW old, "name" \in ks, "name" \notin kept
    PROVE  {Text(cards[i], "name") : i \in DOMAIN cards} \ {""} \subseteq NamesOf(CardRows(cards, ks, kept, old))
<1> DEFINE rows == CardRows(cards, ks, kept, old)
           Made(card) == CardRow(card, ks, kept, old)
<1>1. \A i \in DOMAIN cards : Text(Made(cards[i]), "name") # "" => \E n \in DOMAIN rows : rows[n] = Made(cards[i])
    <2>1. RowsOfCards(cards, rows, ks, kept, old) BY CardsAre
    <2> QED BY <2>1 DEF RowsOfCards
<1>2. \A card : Text(Made(card), "name") = Text(card, "name")
    <2> TAKE card
    <2>1. Copied("name", kept) BY DEF Copied
    <2>2. CardText(card, ks, kept, old, "name") BY <2>1, CardTexts
    <2> QED BY <2>2 DEF CardText
<1> HIDE DEF rows, Made
<1>3. ASSUME NEW i \in DOMAIN cards, Text(cards[i], "name") # "" PROVE Text(cards[i], "name") \in NamesOf(rows)
    <2>1. PICK n \in DOMAIN rows : rows[n] = Made(cards[i]) BY <1>1, <1>2, <1>3
    <2> QED BY <1>2, <2>1 DEF NamesOf
<1>4. {Text(cards[i], "name") : i \in DOMAIN cards} \ {""} \subseteq NamesOf(rows)
    BY <1>3
<1> QED BY <1>4 DEF rows

\* So is the name of every card that is posted.
LEMMA PostedAreRows ==
    ASSUME NEW form, IsList(Rows(form, "cards")), HasCards(form, "cards"),
           NEW ks, NEW kept, NEW old, "name" \in ks, "name" \notin kept
    PROVE  PostedNames(form) \subseteq NamesOf(CardRows(form.cards, ks, kept, old))
<1> DEFINE cards == form.cards
<1>1. IsList(cards) BY DEF HasCards, Rows, Has
<1>2. PostedNames(form) = {Text(cards[i], "name") : i \in DOMAIN cards} \ {""}
    BY DEF PostedNames
<1> HIDE DEF cards
<1>3. PostedNames(form) \subseteq NamesOf(CardRows(cards, ks, kept, old))
    BY <1>1, <1>2, CardNames
<1> QED BY <1>3 DEF cards

\* Without a repeated name there is one row of each.
LEMMA NotRepeated ==
    ASSUME NEW rows, IsList(rows), IsFcn(rows), ~Repeated(rows, FoldedName)
    PROVE  OneEach(rows)
<1>1. \A i, j \in DOMAIN rows : ~(i < j /\ FoldedName(rows[i]) = FoldedName(rows[j]))
    BY DEF Repeated
<1>2. DOMAIN rows \in SUBSET Nat BY ListStart
<1>3. ASSUME NEW i \in DOMAIN rows, NEW j \in DOMAIN rows, i # j PROVE FoldedName(rows[i]) # FoldedName(rows[j])
    <2>1. i < j \/ j < i BY <1>2, <1>3
    <2> QED BY <1>1, <2>1
<1>4. AllApart(Names(rows)) BY <1>3 DEF AllApart, Names
<1> QED BY <1>4 DEF OneEach

\* Rows that are rewritten and keep their names still have names of their own.
LEMMA OnesRemade ==
    ASSUME NEW rows, OneEach(rows), NEW made, IsFcn(made), DOMAIN made = DOMAIN rows,
           \A i \in DOMAIN rows : Text(made[i], "name") = Text(rows[i], "name")
    PROVE  OneEach(made) /\ NamesOf(made) = NamesOf(rows)
<1>1. IsList(made) BY MapIsList DEF OneEach
<1>2. NamesOf(made) = NamesOf(rows) BY DEF NamesOf
<1>3. \A i \in DOMAIN rows : FoldedName(made[i]) = FoldedName(rows[i])
    BY DEF FoldedName
<1>4. AllApart(Names(made)) BY <1>3 DEF AllApart, Names, OneEach
<1> QED BY <1>1, <1>2, <1>4 DEF OneEach

\* A field that is copied is the same word.
LEMMA TextsText == \A m, ks : \A k \in ks : Text(Texts(m, ks), k) = Text(m, k)
BY DEF Texts, Text, Has

\* An instance keeps its name, and its address when it has one.
LEMMA SiteRowName ==
    ASSUME NEW kind, NEW r
    PROVE  /\ Text(SiteRow(kind, r), "name") = Text(r, "name") /\ Text(SiteRow(kind, r), "url") = SiteOf(r)
           /\ Text(r, "url") # "" => SiteOf(r) # "" /\ SiteOf(r) = Site(Text(r, "url"))
<1> DEFINE a == Texts(r, {"name", "password"})
           b == "url" :> SiteOf(r)
           c == Kept("username", FirstText(r, <<"username", "email">>))
           d == Kept("token", FirstText(r, <<"token", "api_token", "access_token">>))
           e == Flags(r, {"enabled"})
           f == KindFields(kind, r)
           row == SiteRow(kind, r)
           ks  == <<"url", "base_url", "baseUrl", "uri">>
<1>1. row = ((((a @@ b) @@ c) @@ d) @@ e) @@ f BY DEF SiteRow
<1>2. DOMAIN b = {"url"} /\ DOMAIN c \subseteq {"username"} /\ DOMAIN d \subseteq {"token"} /\ DOMAIN e \subseteq {"enabled"}
    BY KeptField DEF Flags, :>
<1>3. "name" \notin DOMAIN f /\ "url" \notin DOMAIN f
    BY KindFieldsShape DEF FieldsOfKind
<1>4. Text(a, "name") = Text(r, "name") /\ "url" \notin DOMAIN a
    BY TextsText DEF Texts
<1>4a. Text(b, "url") = SiteOf(r) BY DEF Text, Has, :>
<1>5. IsList(ks) /\ 1 \in DOMAIN ks /\ ks[1] = "url" /\ SiteOf(r) = Site(FirstText(r, ks))
    <2>1. SiteOf(r) = Site(FirstText(r, ks)) BY DEF SiteOf
    <2> QED BY <2>1, Tuples
<1> HIDE DEF a, b, c, d, e, f, row, ks
<1>6. Text(row, "name") = Text(a, "name") BY <1>1, <1>2, <1>3 DEF @@, Text, Has
<1>6a. Text(row, "url") = Text(b, "url") BY <1>1, <1>2, <1>3, <1>4 DEF @@, Text, Has
<1>7. Text(r, "url") # "" => FirstText(r, ks) = Text(r, "url") BY <1>5, FirstTextIs
<1>8. Text(r, "url") # "" => SiteOf(r) # "" /\ SiteOf(r) = Site(Text(r, "url"))
    BY <1>5, <1>7, SiteTwice
<1> QED BY <1>4, <1>4a, <1>6, <1>6a, <1>8 DEF row

\* The sanitizer keeps every instance with an address and a name of its own.
LEMMA SitesKept ==
    ASSUME NEW kind, NEW rows, OneEach(rows),
           \A i \in DOMAIN rows : Text(rows[i], "name") # "" /\ Text(rows[i], "url") # ""
    PROVE  NamesOf(Addressable(SiteRows(kind, rows))) = NamesOf(rows)
<1> DEFINE is   == {i \in DOMAIN rows : SiteOf(rows[i]) # ""}
           kept == At(rows, is)
           made == [i \in DOMAIN kept |-> SiteRow(kind, kept[i])]
           Called(l) == {i \in DOMAIN l : Text(l[i], "name") # ""}
           Ones(l) == At(l, {i \in DOMAIN l : \A j \in DOMAIN l : j < i => FoldedName(l[j]) # FoldedName(l[i])})
<1>1. SiteRows(kind, rows) = made BY DEF SiteRows, Map, Filtered, Where
<1>2. \A l : Addressable(l) = Ones(At(l, Called(l)))
    BY DEF Addressable, FirstPerKey, Filtered, Where
<1>3. \A i \in DOMAIN rows : SiteOf(rows[i]) # "" BY SiteRowName
<1>4. is = DOMAIN rows BY <1>3
<1> HIDE DEF is
<1>5. kept = rows BY <1>4, AtAll DEF OneEach
<1> HIDE DEF kept
<1>6. \A r : Text(SiteRow(kind, r), "name") = Text(r, "name") BY SiteRowName
<1>7. IsFcn(made) /\ DOMAIN made = DOMAIN rows /\ \A i \in DOMAIN rows : Text(made[i], "name") = Text(rows[i], "name")
    BY <1>5, <1>6 DEF IsFcn
<1> HIDE DEF made
<1>8. OneEach(made) /\ NamesOf(made) = NamesOf(rows) BY <1>7, OnesRemade
<1>9. Called(made) = DOMAIN made BY <1>7
<1> HIDE DEF Called
<1>10. At(made, Called(made)) = made BY <1>8, <1>9, AtAll DEF OneEach
<1>11. Ones(made) = made BY <1>8, OnesAre DEF OneEach
<1> QED BY <1>1, <1>2, <1>8, <1>10, <1>11

\* It keeps every database that can be reached and has a name of its own.
LEMMA DatabasesKept ==
    ASSUME NEW rows, OneEach(rows),
           \A i \in DOMAIN rows : \A k \in {"name", "host", "database", "username"} : Text(rows[i], k) # ""
    PROVE  NamesOf(Databases(rows)) = NamesOf(rows)
<1> DEFINE made == [i \in DOMAIN rows |-> Database(rows[i])]
           is   == {i \in DOMAIN made : "" \notin {made[i].name, made[i].host, made[i].database, made[i].username}}
           Ones(l) == At(l, {i \in DOMAIN l : \A j \in DOMAIN l : j < i => FoldedName(l[j]) # FoldedName(l[i])})
<1>1. Databases(rows) = Ones(At(made, is))
    BY DEF Databases, FirstPerKey, Filtered, Where, Map
<1>2. DOMAIN made = DOMAIN rows /\ IsFcn(made) /\ \A i \in DOMAIN rows : made[i] = Database(rows[i])
    BY DEF IsFcn
<1> HIDE DEF made
<1>3. ASSUME NEW i \in DOMAIN rows
      PROVE  /\ Text(made[i], "name") = Text(rows[i], "name")
             /\ "" \notin {made[i].name, made[i].host, made[i].database, made[i].username}
    <2> DEFINE r == rows[i]
               d == made[i]
    <2>1. /\ "name" \in DOMAIN d /\ d.name = Text(r, "name") /\ d.host = FirstText(r, <<"host", "hostname">>)
          /\ d.database = FirstText(r, <<"database", "dbname">>) /\ d.username = FirstText(r, <<"username", "user">>)
        BY <1>2, DatabaseShape, ZenonT(40)
    <2>2. /\ FirstText(r, <<"host", "hostname">>) = Text(r, "host")
          /\ FirstText(r, <<"database", "dbname">>) = Text(r, "database")
          /\ FirstText(r, <<"username", "user">>) = Text(r, "username")
        BY FirstOfTwo, ZenonT(40)
    <2>3. Text(r, "name") # "" /\ Text(r, "host") # "" /\ Text(r, "database") # "" /\ Text(r, "username") # ""
        OBVIOUS
    <2> HIDE DEF r, d
    <2>4. Text(d, "name") = Text(r, "name") /\ "" \notin {d.name, d.host, d.database, d.username}
        BY <2>1, <2>2, <2>3 DEF Text, Has
    <2> QED BY <2>4 DEF r, d
<1>4. is = DOMAIN made BY <1>2, <1>3
<1> HIDE DEF is
<1>5. OneEach(made) /\ NamesOf(made) = NamesOf(rows) BY <1>2, <1>3, OnesRemade
<1>6. At(made, is) = made BY <1>4, <1>5, AtAll DEF OneEach
<1>7. Ones(made) = made BY <1>5, OnesAre DEF OneEach
<1> QED BY <1>1, <1>5, <1>6, <1>7

\* It keeps every account with an id and a name of its own.
LEMMA AccountsKept ==
    ASSUME NEW rows, OneEach(rows),
           \A i \in DOMAIN rows : Text(rows[i], "name") # "" /\ Text(rows[i], "account_id") \in AccountIds
    PROVE  /\ NamesOf(Accounts(rows)) = NamesOf(rows)
           /\ DOMAIN Accounts(rows) = DOMAIN rows /\ \A i \in DOMAIN rows : Accounts(rows)[i] = Account(rows[i])
<1> DEFINE is   == {i \in DOMAIN rows : Text(rows[i], "name") # "" /\ Text(rows[i], "account_id") \in AccountIds}
           kept == At(rows, is)
           made == [i \in DOMAIN kept |-> Account(kept[i])]
           Ones(l) == At(l, {i \in DOMAIN l : \A j \in DOMAIN l : j < i => FoldedName(l[j]) # FoldedName(l[i])})
<1>1. Accounts(rows) = Ones(made) BY DEF Accounts, FirstPerKey, Filtered, Where, Map
<1>2. is = DOMAIN rows
    OBVIOUS
<1> HIDE DEF is
<1>3. kept = rows BY <1>2, AtAll DEF OneEach
<1> HIDE DEF kept
<1>4. IsFcn(made) /\ DOMAIN made = DOMAIN rows /\ \A i \in DOMAIN rows : Text(made[i], "name") = Text(rows[i], "name")
    BY <1>3, AccountTexts DEF IsFcn
<1>4a. \A i \in DOMAIN rows : made[i] = Account(rows[i]) BY <1>3
<1> HIDE DEF made
<1>5. OneEach(made) /\ NamesOf(made) = NamesOf(rows) BY <1>4, OnesRemade
<1>6. Ones(made) = made BY <1>5, OnesAre DEF OneEach
<1> HIDE DEF Ones
<1> QED BY <1>1, <1>4, <1>4a, <1>5, <1>6

\* The name of an entry.
LEMMA EntryName == \A m, n : Text(ProxyEntry(m, n), "name") = n /\ ProxyEntry(m, n).name = n
<1> TAKE m, n
<1>1. "name" \in DOMAIN ProxyEntry(m, n) /\ ProxyEntry(m, n)["name"] = n
    BY EntryShape
<1> QED BY <1>1 DEF Text, Has

\* It keeps every proxy with an address and a name of its own.
LEMMA ProxiesKept ==
    ASSUME NEW rows, OneEach(rows),
           \A i \in DOMAIN rows : Text(rows[i], "name") \in ProxyNames /\ ProxyUrl(Text(rows[i], "url")) # ""
    PROVE  NamesOf(UsableEntries(rows)) = NamesOf(rows)
<1> DEFINE us   == {i \in DOMAIN rows : Text(rows[i], "name") \in ProxyNames /\ ProxyUrl(Text(rows[i], "url")) # ""}
           kept == At(rows, us)
           made == [i \in DOMAIN kept |-> ProxyEntry(kept[i], kept[i].name)]
           key  == [i \in DOMAIN made |-> made[i].name]
<1>1. UsableEntries(rows) = At(made, {i \in DOMAIN made : \A j \in DOMAIN made : j < i => made[j].name # made[i].name})
    BY DEF UsableEntries, FirstPerKey, Map, Filtered, Where
<1>2. us = DOMAIN rows
    OBVIOUS
<1> HIDE DEF us
<1>3. kept = rows BY <1>2, AtAll DEF OneEach
<1> HIDE DEF kept
<1>4. DOMAIN made = DOMAIN rows /\ IsFcn(made) /\ \A i \in DOMAIN rows : made[i] = ProxyEntry(rows[i], rows[i].name)
    BY <1>3 DEF IsFcn
<1> HIDE DEF made
<1>5. ASSUME NEW i \in DOMAIN rows PROVE Text(made[i], "name") = Text(rows[i], "name") /\ made[i].name = Text(rows[i], "name")
    <2>1. Text(made[i], "name") = rows[i].name /\ made[i].name = rows[i].name
        <3>1. made[i] = ProxyEntry(rows[i], rows[i].name) BY <1>4
        <3> DEFINE n == rows[i].name
        <3>2. made[i] = ProxyEntry(rows[i], n) BY <3>1
        <3> HIDE DEF n
        <3>3. Text(made[i], "name") = n /\ made[i].name = n BY <3>2, EntryName
        <3> QED BY <3>3 DEF n
    <2>2. "" \notin ProxyNames BY WordsAssumption
    <2>3. Text(rows[i], "name") \in ProxyNames
        OBVIOUS
    <2>4. Text(rows[i], "name") # "" BY <2>2, <2>3
    <2> QED BY <2>1, <2>4 DEF Text, Has
<1>6. OneEach(made) /\ NamesOf(made) = NamesOf(rows) BY <1>4, <1>5, OnesRemade
<1>7. DOMAIN key = DOMAIN made /\ \A i \in DOMAIN made : key[i] = made[i].name
    OBVIOUS
<1> HIDE DEF key
<1>8. \A i, j \in DOMAIN made : i # j => FoldedName(made[i]) # FoldedName(made[j])
    BY <1>6 DEF OneEach, AllApart, Names
<1>9. AllApart(key)
    <2>1. \A i \in DOMAIN made : key[i] = Text(made[i], "name")
        <3>1. \A i \in DOMAIN made : key[i] = made[i].name BY <1>7
        <3>2. \A i \in DOMAIN made : made[i].name = Text(made[i], "name")
            BY <1>4, <1>5
        <3> QED BY <3>1, <3>2
    <2>2. \A i, j \in DOMAIN made : i # j => key[i] # key[j]
        BY <1>8, <2>1 DEF FoldedName
    <2> QED BY <1>7, <2>2 DEF AllApart
<1>10. Firsts(made, key) = made BY <1>6, <1>7, <1>9, FirstsAll DEF OneEach
<1>11. {i \in DOMAIN made : \A j \in DOMAIN made : j < i => made[j].name # made[i].name}
         = {i \in DOMAIN made : \A j \in DOMAIN made : j < i => key[j] # key[i]}
    BY <1>7
<1> QED BY <1>1, <1>6, <1>10, <1>11 DEF Firsts

\* A section of instances keeps those its list keeps.
LEMMA RepositoryRows ==
    ASSUME NEW kind, NEW m, Has(m, "instances")
    PROVE  LET y == Repository(kind, m)
           IN  Has(y, "instances") /\ Rows(y, "instances") = Addressable(SiteRows(kind, Rows(m, "instances")))
<1> DEFINE a == Flags(m, {"enabled"})
           b == Texts(m, {"default_instance"})
           new == Addressable(SiteRows(kind, Rows(m, "instances")))
           c == Listed(m, new)
           y == Repository(kind, m)
<1>1. y = (a @@ b) @@ c BY DEF Repository, SwitchAndDefault
<1>2. ~Has(a, "instances") /\ ~Has(b, "instances") BY DEF Flags, Texts, Has
<1>3. Has(c, "instances") /\ Rows(c, "instances") = new
    <2>1. \A rows : Has(Listed(m, rows), "instances") /\ Rows(Listed(m, rows), "instances") = rows
        BY ListedShape
    <2> HIDE DEF new
    <2> QED BY <2>1
<1> HIDE DEF a, b, c, y, new
<1>4. Has(y, "instances") /\ Rows(y, "instances") = new
    BY <1>1, <1>2, <1>3, OverHas, OverRows
<1> QED BY <1>4 DEF y, new

\* So does that of the databases.
LEMMA PostgresRows ==
    ASSUME NEW m, Has(m, "instances")
    PROVE  LET y == Postgres(m)
           IN  Has(y, "instances") /\ Rows(y, "instances") = Databases(Rows(m, "instances"))
<1> DEFINE a == Flags(m, {"enabled"})
           b == Texts(m, {"default_instance"})
           c == Kept("access", Access(Text(m, "access")))
           d == Texts([f \in SharedFields |-> IF Has(m, f) THEN Shared(f, m[f]) ELSE Lifted(f, m)], SharedFields)
           new == Databases(Rows(m, "instances"))
           e == Listed(m, new)
           y == Postgres(m)
<1>1. y = (((a @@ b) @@ c) @@ d) @@ e BY DEF Postgres, SwitchAndDefault
<1>2a. ~Has(a, "instances") /\ ~Has(b, "instances") BY DEF Flags, Texts, Has
<1>2b. ~Has(c, "instances")
    <2>1. DOMAIN c \subseteq {"access"} BY KeptField
    <2> HIDE DEF c
    <2> QED BY <2>1 DEF Has
<1>2c. ~Has(d, "instances") BY DEF Texts, Has, SharedFields
<1>3. Has(e, "instances") /\ Rows(e, "instances") = new
    <2>1. \A rows : Has(Listed(m, rows), "instances") /\ Rows(Listed(m, rows), "instances") = rows
        BY ListedShape
    <2> HIDE DEF new
    <2> QED BY <2>1
<1> HIDE DEF a, b, c, d, e, y, new
<1>4. Has(y, "instances") /\ Rows(y, "instances") = new
    BY <1>1, <1>2a, <1>2b, <1>2c, <1>3, OverHas, OverRows
<1> QED BY <1>4 DEF y, new

\* And that of the accounts.
LEMMA AwsAccounts ==
    ASSUME NEW m, Has(m, "accounts")
    PROVE  LET y == Aws(m) IN Has(y, "accounts") /\ Rows(y, "accounts") = Accounts(Rows(m, "accounts"))
<1> DEFINE a == Flags(m, {"enabled"})
           b == OneOf(m, "provider", AwsProviders)
           c == OneOf(m, "default_region", Regions)
           d == Texts(m, {"domain", "username", "password", "idp_url", "source_profile", "default_account",
                          "kubeconfig_path"})
           e == Within(m, "session_duration_seconds", 900, 43200)
           new == Accounts(m.accounts)
           f == "accounts" :> new
           g == IF Has(m, "eks_clusters") THEN "eks_clusters" :> Clusters(m.eks_clusters) ELSE Nothing
           y == Aws(m)
<1>1. y = (((((a @@ b) @@ c) @@ d) @@ e) @@ f) @@ g BY DEF Aws
<1>2. ~Has(a, "accounts") /\ ~Has(b, "accounts") /\ ~Has(c, "accounts") /\ ~Has(d, "accounts")
    <2>1. DOMAIN b \subseteq {"provider"} /\ DOMAIN c \subseteq {"default_region"}
        BY KeptField DEF OneOf
    <2>2. ~Has(a, "accounts") /\ ~Has(d, "accounts") BY DEF Flags, Texts, Has
    <2> HIDE DEF a, b, c, d
    <2> QED BY <2>1, <2>2 DEF Has
<1>3. ~Has(e, "accounts")
    <2>1. DOMAIN e \subseteq {"session_duration_seconds"} BY DEF Within, Nothing, :>
    <2> HIDE DEF e
    <2> QED BY <2>1 DEF Has
<1>4. Rows(m, "accounts") = m.accounts BY DEF Rows
<1> HIDE DEF new
<1>5. Has(f, "accounts") /\ Rows(f, "accounts") = new BY OnlyHas
<1> HIDE DEF a, b, c, d, e, f, g, y
<1>6. Has(y, "accounts") /\ Rows(y, "accounts") = new
    BY <1>1, <1>2, <1>3, <1>5, OverHas, OverRows
<1> QED BY <1>4, <1>6 DEF y, new

\* And that of the proxies.
LEMMA ProxyRows ==
    ASSUME NEW m, ~Empty(UsableEntries(Rows(m, "proxies")))
    PROVE  LET y == Proxy(m) IN Has(y, "proxies") /\ Rows(y, "proxies") = UsableEntries(Rows(m, "proxies"))
<1> DEFINE E == UsableEntries(Rows(m, "proxies"))
           a == Flags(m, {"enabled"})
           b == DefaultAmong(E, Text(m, "default"))
           c == KeptMap("assignments", Assignments(Sub(m, "assignments"), NamesOf(E)))
           y == Proxy(m)
<1>1. ProxyEntries(m) = E BY DEF ProxyEntries
<1>2. y = (a @@ b) @@ c BY <1>1 DEF Proxy, ProxyOf
<1>3. ~Has(a, "proxies") BY DEF Flags, Has
<1>4. ~Empty(E)
    OBVIOUS
<1>5. Has(b, "proxies") /\ Rows(b, "proxies") = E
    <2>1. \A name : Has(DefaultAmong(E, name), "proxies") /\ Rows(DefaultAmong(E, name), "proxies") = E
        <3> HIDE DEF E
        <3> QED BY <1>4, AmongHas
    <2> HIDE DEF E
    <2> QED BY <2>1
<1> HIDE DEF a, b, c, y, E
<1>6. Has(y, "proxies") /\ Rows(y, "proxies") = E
    BY <1>2, <1>3, <1>5, OverHas, OverRows
<1> QED BY <1>6 DEF y, E

\* What the rows of a Nexus, Splunk or PostgreSQL form are once they are merged: the shared
\* settings are taken out of them, nothing else.
LEMMA NamedRows ==
    ASSUME NEW s, NEW m, NEW form, HasCards(form, "cards")
    PROVE  LET rows == CardRows(form.cards, CardFields[s], CardSecrets, Rows(m, "instances"))
               x    == NamedMerged(s, m, form)
               made == Rows(x, "instances")
           IN  /\ Has(x, "instances") /\ DOMAIN made = DOMAIN rows /\ (IsFcn(rows) => IsFcn(made))
               /\ \A i \in DOMAIN rows : \A k : k \notin SharedFields \cup {"proxy"} => Text(made[i], k) = Text(rows[i], k)
<1> DEFINE rows == CardRows(form.cards, CardFields[s], CardSecrets, Rows(m, "instances"))
           f == form.fields
           a == Switched(f)
           b == "instances" :> rows
           c == Overlaid(m, f, {"default_instance"})
           listed == (a @@ b) @@ c
           x == NamedMerged(s, m, form)
           made == Rows(x, "instances")
<1>1. x = IF s = "pgsql" THEN SharedMerged(listed, f) ELSE listed BY DEF NamedMerged
<1> HIDE DEF rows
<1>2. ~Has(a, "instances") /\ Has(b, "instances") /\ Rows(b, "instances") = rows
    BY SwitchedHas, OnlyHas
<1> HIDE DEF a, b, c
<1>3. Has(listed, "instances") /\ Rows(listed, "instances") = rows
    BY <1>2, OverHas, OverRows
<1> HIDE DEF listed, x, f
<1> DEFINE Remade == /\ Has(x, "instances") /\ DOMAIN made = DOMAIN rows /\ (IsFcn(rows) => IsFcn(made))
                     /\ \A i \in DOMAIN rows : \A k : k \notin SharedFields \cup {"proxy"}
                                                        => Text(made[i], k) = Text(rows[i], k)
<1>4. ASSUME x = listed PROVE Remade BY <1>3, <1>4
<1>5. ASSUME x = SharedMerged(listed, f), SharedForm(f) # {} PROVE Remade
    <2> DEFINE stripped == [i \in DOMAIN listed.instances |-> Without(listed.instances[i], SharedFields \cup {"proxy"})]
               d == [k \in {z \in SharedForm(f) : f[z] # ""} |-> Spelled(k, f[k])]
               e == IF Has(listed, "instances") THEN "instances" :> stripped ELSE Nothing
               g == Without(listed, SharedForm(f))
    <2>1. x = (d @@ e) @@ g BY <1>5 DEF SharedMerged, Map
    <2>2. "instances" \notin SharedForm(f) BY DEF SharedForm, SharedFields
    <2>3. ~Has(d, "instances") BY <2>2 DEF Has
    <2>4. listed.instances = rows BY <1>3 DEF Rows
    <2>5. /\ DOMAIN stripped = DOMAIN rows /\ IsFcn(stripped)
          /\ \A i \in DOMAIN rows : stripped[i] = Without(rows[i], SharedFields \cup {"proxy"})
        BY <2>4 DEF IsFcn
    <2> HIDE DEF stripped
    <2>6. Has(e, "instances") /\ Rows(e, "instances") = stripped BY <1>3, OnlyHas
    <2> HIDE DEF d, e, g
    <2>7. Has(x, "instances") /\ made = stripped
        BY <2>1, <2>3, <2>6, OverHas, OverRows
    <2>8. \A r, ks, k : k \notin ks => Text(Without(r, ks), k) = Text(r, k)
        BY DEF Text, Has, Without
    <2> QED BY <2>5, <2>7, <2>8
<1>6. x = listed \/ (x = SharedMerged(listed, f) /\ SharedForm(f) # {})
    BY <1>1 DEF SharedMerged
<1>7. Remade BY <1>4, <1>5, <1>6
<1> QED BY <1>7 DEF x, rows

\* Every row has a name, when no card without one is let pass that has anything else.
LEMMA PostedNamed ==
    ASSUME NEW cards, IsList(cards), NEW ks, NEW kept, NEW old, NEW typed,
           Copied("name", kept), Copied("url", kept), "name" \in ks, "url" \in ks => "url" \in typed,
           ~Nameless(cards, typed)
    PROVE  \A i \in DOMAIN CardRows(cards, ks, kept, old) : Text(CardRows(cards, ks, kept, old)[i], "name") # ""
<1> DEFINE rows == CardRows(cards, ks, kept, old)
           Made(card) == CardRow(card, ks, kept, old)
<1>1. \A n \in DOMAIN rows : /\ \E i \in DOMAIN cards : rows[n] = Made(cards[i])
                             /\ Text(rows[n], "name") # "" \/ Text(rows[n], "url") # ""
    <2>1. RowsOfCards(cards, rows, ks, kept, old) BY CardsAre
    <2> QED BY <2>1 DEF RowsOfCards
<1>2. ASSUME NEW card PROVE Text(Made(card), "name") = Text(card, "name")
    <2>1. CardText(card, ks, kept, old, "name") BY CardTexts
    <2> QED BY <2>1 DEF CardText
<1>3. ASSUME NEW card, Text(Made(card), "url") # "" PROVE "url" \in typed /\ Text(card, "url") # ""
    <2>1. CardText(card, ks, kept, old, "url") BY CardTexts
    <2> QED BY <1>3, <2>1 DEF CardText
<1>4. \A i \in DOMAIN cards : Text(cards[i], "name") # "" \/ ~(\E k \in typed : Text(cards[i], k) # "")
    BY DEF Nameless, Typed
<1> HIDE DEF rows, Made
<1>5. ASSUME NEW n \in DOMAIN rows PROVE Text(rows[n], "name") # ""
    <2>1. PICK i \in DOMAIN cards : rows[n] = Made(cards[i]) BY <1>1
    <2>2. Text(rows[n], "name") = Text(cards[i], "name") BY <1>2, <2>1
    <2>3. Text(rows[n], "url") # "" => Text(cards[i], "name") # ""
        BY <1>3, <1>4, <2>1
    <2> QED BY <1>1, <2>2, <2>3
<1> QED BY <1>5 DEF rows

\* Each of its rows has a name of its own and the fields it needs, and no card is missing.
LEMMA NamedPasses ==
    ASSUME NEW s \in Named, NEW m, NEW form, IsList(Rows(form, "cards")), HasCards(form, "cards"), ~NamedRefused(s, m, form)
    PROVE  NamedPassed(s, form, Rows(NamedMerged(s, m, form), "instances"))
<1> DEFINE rows == CardRows(form.cards, CardFields[s], CardSecrets, Rows(m, "instances"))
           x    == NamedMerged(s, m, form)
           made == Rows(x, "instances")
           ks   == CardFields[s]
           typed == ks \ {"enabled", "name"}
<1>1. IsList(form.cards) BY DEF HasCards, Rows, Has
<1>2. "name" \in ks /\ Copied("name", CardSecrets) /\ Copied("url", CardSecrets)
    BY DEF CardFields, CardSecrets, Copied, Named
<1>3. IsList(rows) /\ IsFcn(rows) BY <1>1, CardsAre DEF RowsOfCards
<1>4. PostedNames(form) \subseteq NamesOf(rows) BY <1>2, PostedAreRows DEF Copied
<1>5. /\ DOMAIN made = DOMAIN rows /\ (IsFcn(rows) => IsFcn(made))
      /\ \A i \in DOMAIN rows : \A k : k \notin SharedFields \cup {"proxy"} => Text(made[i], k) = Text(rows[i], k)
    BY NamedRows
<1>6. ~NamedRowRefused(s, x, form) BY DEF NamedRefused
<1>7. /\ ~Nameless(form.cards, typed) /\ ~Repeated(made, FoldedName)
      /\ \A i \in DOMAIN made : \A k \in Required[s] : Text(made[i], k) # ""
    <2> HIDE DEF x, typed
    <2>1. ~Nameless(form.cards, CardFields[s] \ {"enabled", "name"}) /\ ~Repeated(Rows(x, "instances"), FoldedName)
        BY <1>6 DEF NamedRowRefused
    <2>2. \A i \in DOMAIN made : \A k \in Required[s] : Text(made[i], k) # ""
        BY <1>6 DEF NamedRowRefused
    <2> QED BY <2>1, <2>2 DEF typed
<1>8. "url" \in ks => "url" \in typed
    OBVIOUS
<1> HIDE DEF ks, typed
<1>9. \A i \in DOMAIN rows : Text(rows[i], "name") # ""
    BY <1>1, <1>2, <1>7, <1>8, PostedNamed DEF ks
<1> HIDE DEF rows, x, made
<1>10. \A i \in DOMAIN rows : Text(made[i], "name") = Text(rows[i], "name")
    BY <1>5 DEF SharedFields
<1>11. NamesOf(made) = NamesOf(rows) BY <1>5, <1>10 DEF NamesOf
<1>12. IsList(made) /\ IsFcn(made) BY <1>3, <1>5, MapIsList
<1>13. OneEach(made) BY <1>7, <1>12, NotRepeated
<1>14. NamedPassed(s, form, made)
    BY <1>4, <1>5, <1>7, <1>9, <1>10, <1>11, <1>13 DEF NamedPassed
<1> QED BY <1>14 DEF made, x

\* A Nexus, Splunk or PostgreSQL form that is let pass: what is stored has each of its rows.
LEMMA NamedKeeps ==
    ASSUME NEW s \in Named, NEW m, NEW form, IsList(Rows(form, "cards")), HasCards(form, "cards"), ~NamedRefused(s, m, form)
    PROVE  PostedNames(form) \subseteq NamesOf(Rows(Section(s, NamedMerged(s, m, form)), "instances"))
<1> DEFINE x    == NamedMerged(s, m, form)
           made == Rows(x, "instances")
<1>1. NamedPassed(s, form, made) BY NamedPasses
<1>2. Has(x, "instances") BY NamedRows
<1> HIDE DEF x
<1>3. ASSUME s \in {"nexus", "splunk"} PROVE NamesOf(Rows(Section(s, x), "instances")) = NamesOf(made)
    <2>1. Section(s, x) = Repository(s, x) BY <1>3 DEF Section
    <2>2. Rows(Repository(s, x), "instances") = Addressable(SiteRows(s, made))
        BY <1>2, RepositoryRows
    <2>3. \A i \in DOMAIN made : Text(made[i], "name") # "" /\ Text(made[i], "url") # ""
        <3>1. "url" \in Required[s] BY <1>3 DEF Required
        <3> HIDE DEF made
        <3> QED BY <1>1, <3>1 DEF NamedPassed
    <2>4. OneEach(made) BY <1>1 DEF NamedPassed
    <2> HIDE DEF made
    <2> QED BY <2>1, <2>2, <2>3, <2>4, SitesKept
<1>4. ASSUME s = "pgsql" PROVE NamesOf(Rows(Section(s, x), "instances")) = NamesOf(made)
    <2>1. Section(s, x) = Postgres(x) BY <1>4 DEF Section
    <2>2. Rows(Postgres(x), "instances") = Databases(made) BY <1>2, PostgresRows
    <2>3. \A i \in DOMAIN made : \A k \in {"name", "host", "database", "username"} : Text(made[i], k) # ""
        <3>1. Required[s] = {"host", "database", "username"} BY <1>4 DEF Required
        <3> HIDE DEF made
        <3> QED BY <1>1, <3>1 DEF NamedPassed
    <2>4. OneEach(made) BY <1>1 DEF NamedPassed
    <2> HIDE DEF made
    <2> QED BY <2>1, <2>2, <2>3, <2>4, DatabasesKept
<1>5. s \in {"nexus", "splunk"} \/ s = "pgsql" BY DEF Named
<1>6. NamesOf(Rows(Section(s, x), "instances")) = NamesOf(made) BY <1>3, <1>4, <1>5
<1>7. PostedNames(form) \subseteq NamesOf(Rows(Section(s, x), "instances"))
    BY <1>1, <1>6 DEF NamedPassed
<1> QED BY <1>7 DEF x

\* Each of its rows has an id and a name of its own, and no card is missing.
LEMMA AwsPasses ==
    ASSUME NEW m, NEW form, IsList(Rows(form, "cards")), HasCards(form, "cards"), ~AwsRefused(m, form)
    PROVE  LET rows == CardRows(form.cards, AccountFields, ApiOnly, Rows(m, "accounts"))
               x    == AwsMerged(m, form)
           IN  AwsPassed(form, rows) /\ Rows(x, "accounts") = rows /\ Rows(Section("aws", x), "accounts") = Accounts(rows)
<1> DEFINE rows == CardRows(form.cards, AccountFields, ApiOnly, Rows(m, "accounts"))
           a == Switched(form.fields)
           b == "accounts" :> rows
           c == IF HasCards(form, "clusters") THEN "eks_clusters" :> ClusterCards(form.clusters) ELSE Nothing
           d == Overlaid(m, form.fields, AwsTexts \cup {"session_duration_seconds"})
           x == AwsMerged(m, form)
<1>1. x = ((a @@ b) @@ c) @@ d BY DEF AwsMerged
<1>2. IsList(form.cards) BY DEF HasCards, Rows, Has
<1>3. "name" \in AccountFields /\ "url" \notin AccountFields /\ Copied("name", ApiOnly) /\ Copied("url", ApiOnly)
    BY DEF AccountFields, ApiOnly, Copied
<1>4. IsList(rows) /\ IsFcn(rows) BY <1>2, CardsAre DEF RowsOfCards
<1>5. PostedNames(form) \subseteq NamesOf(rows) BY <1>3, PostedAreRows DEF Copied
<1>6. ~AwsRowRefused(x, form) BY DEF AwsRefused
<1>7. /\ ~Nameless(form.cards, {"account_id", "role"}) /\ ~Repeated(Rows(x, "accounts"), FoldedName)
      /\ \A i \in DOMAIN Rows(x, "accounts") : Text(Rows(x, "accounts")[i], "account_id") \in AccountIds
    <2> HIDE DEF x
    <2> QED BY <1>6 DEF AwsRowRefused
<1>8. \A i \in DOMAIN rows : Text(rows[i], "name") # ""
    BY <1>2, <1>3, <1>7, PostedNamed
<1> HIDE DEF rows
<1>9. ~Has(a, "accounts") /\ Has(b, "accounts") /\ Rows(b, "accounts") = rows
    BY SwitchedHas, OnlyHas
<1> HIDE DEF a, b, c, d, x
<1>10. Has(x, "accounts") /\ Rows(x, "accounts") = rows
    BY <1>1, <1>9, OverHas, OverRows
<1>11. OneEach(rows) BY <1>4, <1>7, <1>10, NotRepeated
<1>12. AwsPassed(form, rows) BY <1>5, <1>7, <1>8, <1>10, <1>11 DEF AwsPassed
<1>13. Section("aws", x) = Aws(x) BY DEF Section
<1>14. Rows(Aws(x), "accounts") = Accounts(rows) BY <1>10, AwsAccounts
<1> QED BY <1>10, <1>12, <1>13, <1>14 DEF x, rows

\* So does an AWS form with its accounts.
LEMMA AwsKeeps ==
    ASSUME NEW m, NEW form, IsList(Rows(form, "cards")), HasCards(form, "cards"), ~AwsRefused(m, form)
    PROVE  PostedNames(form) \subseteq NamesOf(Rows(Section("aws", AwsMerged(m, form)), "accounts"))
<1> DEFINE rows == CardRows(form.cards, AccountFields, ApiOnly, Rows(m, "accounts"))
           x    == AwsMerged(m, form)
<1>1. AwsPassed(form, rows) /\ Rows(Section("aws", x), "accounts") = Accounts(rows)
    BY AwsPasses
<1> HIDE DEF rows, x
<1>2. NamesOf(Accounts(rows)) = NamesOf(rows) BY <1>1, AccountsKept DEF AwsPassed
<1>3. PostedNames(form) \subseteq NamesOf(Rows(Section("aws", x), "accounts"))
    BY <1>1, <1>2 DEF AwsPassed
<1> QED BY <1>3 DEF x

\* A card with an address is an instance.
LEMMA SitesOfCards ==
    ASSUME NEW kind, NEW cards, IsList(cards), NEW ks, NEW kept, NEW old,
           "name" \in ks, "url" \in ks, Copied("name", kept), Copied("url", kept)
    PROVE  SitesStored(cards, SiteRows(kind, CardRows(cards, ks, kept, old)))
<1> DEFINE rows == CardRows(cards, ks, kept, old)
           Made(card) == CardRow(card, ks, kept, old)
           is   == {i \in DOMAIN rows : SiteOf(rows[i]) # ""}
           some == At(rows, is)
           made == [i \in DOMAIN some |-> SiteRow(kind, some[i])]
<1>1. SiteRows(kind, rows) = made BY DEF SiteRows, Map, Filtered, Where
<1>2. RowsOfCards(cards, rows, ks, kept, old) BY CardsAre
<1>3. IsList(rows) /\ \A i \in DOMAIN cards : Text(Made(cards[i]), "url") # "" => \E n \in DOMAIN rows : rows[n] = Made(cards[i])
    BY <1>2 DEF RowsOfCards
<1>4. ASSUME NEW card PROVE Text(Made(card), "name") = Text(card, "name") /\ Text(Made(card), "url") = Text(card, "url")
    <2>1. CardText(card, ks, kept, old, "name") /\ CardText(card, ks, kept, old, "url")
        BY CardTexts
    <2> QED BY <2>1 DEF CardText
<1>5. is \in SUBSET DOMAIN rows /\ \A i \in DOMAIN rows : i \in is <=> SiteOf(rows[i]) # ""
    OBVIOUS
<1> HIDE DEF rows, Made, is
<1>6. \A i \in is : \E n \in DOMAIN some : some[n] = rows[i]
    <2>1. IsList(rows) /\ is \in SUBSET DOMAIN rows BY <1>3, <1>5
    <2> QED BY <2>1, AtIsList
<1> HIDE DEF some
<1>7. ASSUME NEW i \in DOMAIN cards, Text(cards[i], "url") # ""
      PROVE  \E n \in DOMAIN made : Text(made[n], "name") = Text(cards[i], "name") /\ Text(made[n], "url") = Site(Text(cards[i], "url"))
    <2> DEFINE r == Made(cards[i])
    <2>1. Text(r, "name") = Text(cards[i], "name") /\ Text(r, "url") = Text(cards[i], "url")
        BY <1>4
    <2>2. PICK j \in DOMAIN rows : rows[j] = r BY <1>3, <1>7, <2>1
    <2> HIDE DEF r
    <2>3. SiteOf(r) # "" /\ SiteOf(r) = Site(Text(cards[i], "url"))
        BY <1>7, <2>1, SiteRowName
    <2>4. PICK n \in DOMAIN some : some[n] = r BY <1>5, <1>6, <2>2, <2>3
    <2>5. n \in DOMAIN made /\ made[n] = SiteRow(kind, r) BY <2>4
    <2>6. Text(SiteRow(kind, r), "name") = Text(cards[i], "name") /\ Text(SiteRow(kind, r), "url") = Site(Text(cards[i], "url"))
        BY <2>1, <2>3, SiteRowName
    <2> QED BY <2>5, <2>6
<1> HIDE DEF made
<1>8. SitesStored(cards, made) BY <1>7 DEF SitesStored
<1> QED BY <1>1, <1>8 DEF rows

\* What the sanitizer reads of a list of instances of Jira, Confluence or Jenkins.
LEMMA TrackerRows ==
    ASSUME NEW s \in {"jira", "confluence", "jenkins"}, NEW x, Has(x, "instances")
    PROVE  Rows(Section(s, x), "instances") = SiteRows(s, Rows(x, "instances"))
<1> DEFINE rows == Rows(x, "instances")
           new  == SiteRows(s, rows)
           a == Flags(x, {"enabled"})
           b == SwitchAndDefault(x)
           c == "instances" :> new
<1>1. rows = x.instances BY DEF Rows
<1>2. ~Has(a, "instances") BY DEF Flags, Has
<1>3. ~Has(b, "instances")
    <2> DEFINE d == Texts(x, {"default_instance"})
    <2>1. b = a @@ d BY DEF SwitchAndDefault
    <2>2. ~Has(d, "instances") BY DEF Texts, Has
    <2> HIDE DEF a, b, d
    <2> QED BY <1>2, <2>1, <2>2, OverHas
<1> HIDE DEF new
<1>4. Has(c, "instances") /\ Rows(c, "instances") = new BY OnlyHas
<1> HIDE DEF rows
<1>5. ASSUME s # "jenkins" PROVE Rows(Section(s, x), "instances") = new
    <2>1. Section(s, x) = Tracker(s, x) BY <1>5 DEF Section
    <2>2. Tracker(s, x) = a @@ c BY DEF Tracker, Listed, new, rows
    <2> HIDE DEF a, c
    <2> QED BY <1>2, <1>4, <2>1, <2>2, OverRows
<1>6. ASSUME s = "jenkins" PROVE Rows(Section(s, x), "instances") = new
    <2>1. Section(s, x) = Jenkins(x) BY <1>6 DEF Section
    <2>2. JenkinsRows(x) = rows BY <1>1 DEF JenkinsRows
    <2>3. Jenkins(x) = b @@ c BY <1>6, <2>2 DEF Jenkins, new
    <2> HIDE DEF b, c
    <2> QED BY <1>3, <1>4, <2>1, <2>3, OverRows
<1>7. Rows(Section(s, x), "instances") = new BY <1>5, <1>6
<1> QED BY <1>7 DEF new, rows

\* A Jira, Confluence or Jenkins form: what is stored has every card with an address.
LEMMA TrackerKeeps ==
    ASSUME NEW s \in {"jira", "confluence", "jenkins"}, NEW m, NEW form,
           IsList(Rows(form, "cards")), HasCards(form, "cards")
    PROVE  SitesStored(form.cards, Rows(Section(s, TrackerMerged(s, m, form)), "instances"))
<1> DEFINE rows == CardRows(form.cards, TrackerFields[s], CardSecrets, Rows(m, "instances"))
           a == Switched(form.fields)
           b == "instances" :> rows
           x == TrackerMerged(s, m, form)
<1>1. x = (a @@ b) @@ m BY DEF TrackerMerged
<1>2. IsList(form.cards) BY DEF HasCards, Rows, Has
<1>3. "name" \in TrackerFields[s] /\ "url" \in TrackerFields[s] /\ Copied("name", CardSecrets) /\ Copied("url", CardSecrets)
    BY DEF TrackerFields, CardSecrets, Copied
<1>4. SitesStored(form.cards, SiteRows(s, rows)) BY <1>2, <1>3, SitesOfCards
<1> HIDE DEF rows
<1>5. ~Has(a, "instances") /\ Has(b, "instances") /\ Rows(b, "instances") = rows
    BY SwitchedHas, OnlyHas
<1> HIDE DEF a, b, x
<1>6. Has(x, "instances") /\ Rows(x, "instances") = rows
    BY <1>1, <1>5, OverHas, OverRows
<1>7. Rows(Section(s, x), "instances") = SiteRows(s, rows) BY <1>6, TrackerRows
<1> QED BY <1>4, <1>7 DEF x

\* A key that a row has, the first row of that key has.
LEMMA FirstsHave ==
    ASSUME NEW rows, IsList(rows), NEW key, DOMAIN key = DOMAIN rows, NEW i \in DOMAIN rows
    PROVE  \E n \in DOMAIN Firsts(rows, key) : \E j \in DOMAIN rows : Firsts(rows, key)[n] = rows[j] /\ key[j] = key[i]
<1> DEFINE same == {j \in DOMAIN rows : key[j] = key[i]}
           is   == {k \in DOMAIN rows : \A j \in DOMAIN rows : j < k => key[j] # key[k]}
           f    == Smallest(same)
<1>1. same \in SUBSET DOMAIN rows /\ same # {} /\ \A j \in DOMAIN rows : j \in same <=> key[j] = key[i]
    OBVIOUS
<1>2. Firsts(rows, key) = At(rows, is) /\ is \in SUBSET DOMAIN rows BY DEF Firsts
<1>3. DOMAIN rows \in SUBSET Nat BY ListStart
<1> HIDE DEF same
<1>4. f \in same /\ \A j \in same : f <= j BY <1>1, FirstFound
<1>5. f \in is
    <2>1. f \in DOMAIN rows /\ key[f] = key[i] BY <1>1, <1>4
    <2>2. ASSUME NEW j \in DOMAIN rows, j < f PROVE key[j] # key[f]
        <3>1. j \notin same BY <1>1, <1>3, <1>4, <2>1, <2>2
        <3> QED BY <1>1, <2>1, <3>1
    <2> HIDE DEF f
    <2> QED BY <2>1, <2>2
<1> HIDE DEF f, is
<1>6. PICK n \in DOMAIN At(rows, is) : At(rows, is)[n] = rows[f]
    BY <1>2, <1>5, AtIsList
<1> QED BY <1>1, <1>2, <1>4, <1>6

\* A region that is supported is among an account's regions.
LEMMA ChosenHas ==
    ASSUME NEW words, IsList(words), NEW i \in DOMAIN words, Lower(words[i]) \in Regions
    PROVE  \E k \in DOMAIN Chosen(words) : Chosen(words)[k] = Lower(words[i])
<1> DEFINE folded == [j \in DOMAIN words |-> Lower(words[j])]
           is   == {j \in DOMAIN folded : folded[j] \in Regions}
           some == At(folded, is)
<1>1. Chosen(words) = Firsts(some, some) BY DEF Chosen, Firsts
<1>2. IsList(folded) /\ is \in SUBSET DOMAIN folded /\ i \in is /\ folded[i] = Lower(words[i])
    BY MapIsList
<1> HIDE DEF folded, is
<1>3. IsList(some) /\ \E n \in DOMAIN some : some[n] = Lower(words[i])
    BY <1>2, AtIsList
<1> HIDE DEF some
<1>4. PICK n \in DOMAIN some : some[n] = Lower(words[i]) BY <1>3
<1>5. PICK k \in DOMAIN Firsts(some, some), j \in DOMAIN some : Firsts(some, some)[k] = some[j] /\ some[j] = some[n]
    BY <1>3, FirstsHave
<1> QED BY <1>1, <1>4, <1>5

\* An account has the regions that were chosen, when any was.
LEMMA RegionsOfAccount ==
    ASSUME NEW r, ~Empty(Chosen(Rows(r, "regions")))
    PROVE  Has(Account(r), "regions") /\ Rows(Account(r), "regions") = Chosen(Rows(r, "regions"))
<1> DEFINE chosen == Chosen(Rows(r, "regions"))
           a == Texts(r, {"name", "account_id", "role", "role_arn", "profile"})
           b == Flags(r, {"enabled"})
           c == "regions" :> chosen
           x == Account(r)
<1>1. x = (a @@ b) @@ c
    <2>1. x = (a @@ b) @@ (IF Empty(chosen) THEN Nothing ELSE c)
        BY DEF Account, Chosen, FirstPerKey, Filtered, Where, Map
    <2> HIDE DEF x, a, b, c
    <2> QED BY <2>1
<1>2. ~Has(a, "regions") /\ ~Has(b, "regions") BY DEF Texts, Flags, Has
<1> HIDE DEF chosen
<1>3. Has(c, "regions") /\ Rows(c, "regions") = chosen BY OnlyHas
<1> HIDE DEF a, b, c, x
<1>4. Has(x, "regions") /\ Rows(x, "regions") = chosen
    BY <1>1, <1>2, <1>3, OverHas, OverRows
<1> QED BY <1>4 DEF x, chosen

\* Every region of the cards is one of the accounts', when each is supported.
LEMMA RegionsOfCards ==
    ASSUME NEW cards, IsList(cards), \A i \in DOMAIN cards : IsList(Rows(cards[i], "regions")), NEW old,
           \A i \in DOMAIN cards : Text(cards[i], "name") = "" => Empty(Rows(cards[i], "regions")),
           NEW made, AccountsOf(CardRows(cards, AccountFields, ApiOnly, old), made)
    PROVE  RegionsStored(cards, made)
<1> DEFINE rows == CardRows(cards, AccountFields, ApiOnly, old)
           Made(card) == CardRow(card, AccountFields, ApiOnly, old)
<1>1. \A i \in DOMAIN cards : Text(Made(cards[i]), "name") # "" => \E n \in DOMAIN rows : rows[n] = Made(cards[i])
    <2>1. RowsOfCards(cards, rows, AccountFields, ApiOnly, old) BY CardsAre
    <2> QED BY <2>1 DEF RowsOfCards
<1>2. ASSUME NEW card PROVE Text(Made(card), "name") = Text(card, "name") /\ Rows(Made(card), "regions") = Rows(card, "regions")
    <2>1. "name" \in AccountFields /\ "regions" \in AccountFields /\ Copied("name", ApiOnly)
        BY DEF AccountFields, ApiOnly, Copied
    <2>2. CardText(card, AccountFields, ApiOnly, old, "name") BY <2>1, CardTexts
    <2>3. "regions" \in DOMAIN Made(card) /\ Made(card)["regions"] = Rows(card, "regions")
        BY <2>1 DEF CardRow
    <2>4. Rows(Made(card), "regions") = Rows(card, "regions")
        <3> DEFINE r == Made(card)
        <3>1. "regions" \in DOMAIN r /\ r["regions"] = Rows(card, "regions") BY <2>3
        <3> HIDE DEF r
        <3>2. Rows(r, "regions") = r["regions"] BY <3>1 DEF Rows, Has
        <3> QED BY <3>1, <3>2 DEF r
    <2> QED BY <2>1, <2>2, <2>4 DEF CardText
<1>2a. AccountsOf(rows, made)
    OBVIOUS
<1> HIDE DEF Made, rows
<1>3. ASSUME NEW i \in DOMAIN cards, NEW j \in DOMAIN Rows(cards[i], "regions")
      PROVE  \E n \in DOMAIN made : \E k \in DOMAIN Rows(made[n], "regions") :
                 Text(made[n], "name") = Text(cards[i], "name") /\ made[n]["regions"][k] = Lower(cards[i]["regions"][j])
    <2> DEFINE words == Rows(cards[i], "regions")
    <2>1. words = cards[i]["regions"] BY <1>3, EmptyIsList DEF Rows
    <2>2. Text(cards[i], "name") # "" BY <1>3 DEF Empty
    <2>3. PICK n \in DOMAIN rows : rows[n] = Made(cards[i]) BY <1>1, <1>2, <2>2
    <2>4. Rows(rows[n], "regions") = words /\ IsList(words) /\ Text(rows[n], "name") = Text(cards[i], "name")
        BY <1>2, <2>3
    <2>5. rows[n]["regions"] = words BY <1>3, <2>4, EmptyIsList DEF Rows
    <2>6. Lower(words[j]) \in Regions
        BY <1>2a, <1>3, <2>4, <2>5 DEF Unsupported, AccountsOf
    <2> HIDE DEF words
    <2>7. PICK k \in DOMAIN Chosen(words) : Chosen(words)[k] = Lower(words[j])
        BY <1>3, <2>4, <2>6, ChosenHas DEF words
    <2>8. ~Empty(Chosen(words)) BY <2>7 DEF Empty
    <2>9. Has(made[n], "regions") /\ Rows(made[n], "regions") = Chosen(words)
        BY <1>2a, <2>4, <2>8, RegionsOfAccount DEF AccountsOf
    <2>10. made[n]["regions"] = Chosen(words) BY <2>9 DEF Rows
    <2>11. Text(made[n], "name") = Text(cards[i], "name") /\ n \in DOMAIN made
        BY <1>2a, <2>4, AccountTexts DEF AccountsOf
    <2> QED BY <2>1, <2>7, <2>9, <2>10, <2>11
<1> QED BY <1>3 DEF RegionsStored

\* An AWS form that is let pass: what is stored has every region of its accounts.
LEMMA AwsRegionsKept ==
    ASSUME NEW m, NEW form, IsList(Rows(form, "cards")), \A i \in DOMAIN Rows(form, "cards") : IsList(Rows(form["cards"][i], "regions")),
           HasCards(form, "cards"), ~AwsRefused(m, form)
    PROVE  RegionsStored(form.cards, Rows(Section("aws", AwsMerged(m, form)), "accounts"))
<1> DEFINE old  == Rows(m, "accounts")
           rows == CardRows(form.cards, AccountFields, ApiOnly, old)
           x    == AwsMerged(m, form)
           made == Accounts(rows)
<1>1. AwsPassed(form, rows) /\ Rows(x, "accounts") = rows /\ Rows(Section("aws", x), "accounts") = made
    BY AwsPasses
<1>2. IsList(form.cards) /\ \A i \in DOMAIN form.cards : IsList(Rows(form.cards[i], "regions"))
    BY DEF HasCards, Rows, Has
<1>3. ~AwsRowRefused(x, form) BY DEF AwsRefused
<1>4. /\ \A i \in DOMAIN form.cards : Text(form.cards[i], "name") = "" => Empty(Rows(form.cards[i], "regions"))
      /\ \A n \in DOMAIN rows : ~Unsupported(rows[n])
    <2> HIDE DEF x, rows
    <2> QED BY <1>1, <1>3 DEF AwsRowRefused
<1>5. DOMAIN made = DOMAIN rows /\ \A n \in DOMAIN rows : made[n] = Account(rows[n])
    <2> HIDE DEF rows
    <2> QED BY <1>1, AccountsKept DEF AwsPassed
<1> HIDE DEF x, made, old
<1>6. RegionsStored(form.cards, made)
    <2>1. AccountsOf(rows, made) BY <1>4, <1>5 DEF AccountsOf
    <2> QED BY <1>2, <1>4, <2>1, RegionsOfCards
<1> QED BY <1>1, <1>6 DEF x

\* The clusters of a section that are usable, each of an account, region and name of its own.
LEMMA ClustersKept ==
    ASSUME NEW rows, IsList(rows), IsFcn(rows), \A i \in DOMAIN rows : UsableCluster(rows[i]), ~Repeated(rows, ClusterKey)
    PROVE  DOMAIN Clusters(rows) = DOMAIN rows /\ \A i \in DOMAIN rows : Clusters(rows)[i] = Cluster(rows[i])
<1> DEFINE is  == {i \in DOMAIN rows : UsableCluster(rows[i])}
           Firsters(l) == At(l, {i \in DOMAIN l : \A j \in DOMAIN l : j < i => ClusterKey(l[j]) # ClusterKey(l[i])})
           some == At(rows, is)
           one  == Firsters(some)
<1>1. Clusters(rows) = [i \in DOMAIN one |-> Cluster(one[i])]
    BY DEF Clusters, FirstPerKey, Filtered, Where, Map
<1>2. is = DOMAIN rows
    OBVIOUS
<1> HIDE DEF is
<1>3. some = rows BY <1>2, AtAll
<1> HIDE DEF some
<1>4. {i \in DOMAIN rows : \A j \in DOMAIN rows : j < i => ClusterKey(rows[j]) # ClusterKey(rows[i])} = DOMAIN rows
    BY DEF Repeated
<1>5. one = rows BY <1>3, <1>4, AtAll
<1> HIDE DEF one
<1> QED BY <1>1, <1>5

\* A card with anything in it is a cluster.
LEMMA ClustersOfCards ==
    ASSUME NEW cards, IsList(cards), NEW rows, rows = ClusterCards(cards), \A i \in DOMAIN rows : UsableCluster(rows[i]),
           ~Repeated(rows, ClusterKey)
    PROVE  ClustersStored(cards, Clusters(rows))
<1> DEFINE Made(card) == CardRow(card, ClusterFields, {}, <<>>)
           ks   == ClusterFields \ {"enabled"}
           made == [i \in DOMAIN cards |-> Made(cards[i])]
           is   == {i \in DOMAIN made : Typed(made[i], ks)}
<1>1. rows = At(made, is) BY DEF ClusterCards, Filtered, Where, Map
<1>2. DOMAIN made = DOMAIN cards /\ \A i \in DOMAIN cards : made[i] = Made(cards[i])
    OBVIOUS
<1>3. IsList(made) /\ is \in SUBSET DOMAIN made /\ \A i \in DOMAIN made : i \in is <=> Typed(made[i], ks)
    BY <1>2, MapIsList
<1>4. "account" \in ks /\ "region" \in ks /\ "cluster" \in ks BY DEF ClusterFields
<1>5. ASSUME NEW card, NEW k \in ks PROVE Text(Made(card), k) = Text(card, k)
    <2>1. Copied(k, {}) /\ k \in ClusterFields BY <1>5 DEF Copied, ClusterFields
    <2>2. CardText(card, ClusterFields, {}, <<>>, k) BY <2>1, CardTexts
    <2> QED BY <2>1, <2>2 DEF CardText
<1> HIDE DEF made, is, Made, ks
<1>6. IsList(rows) /\ IsFcn(rows) /\ \A i \in is : \E n \in DOMAIN rows : rows[n] = made[i]
    BY <1>1, <1>3, AtIsList, AtIsFcn
<1>7. DOMAIN Clusters(rows) = DOMAIN rows /\ \A i \in DOMAIN rows : Clusters(rows)[i] = Cluster(rows[i])
    BY <1>6, ClustersKept
<1>8. ASSUME NEW i \in DOMAIN cards, Typed(cards[i], ks)
      PROVE  \E n \in DOMAIN Clusters(rows) : ClusterKey(Clusters(rows)[n]) = ClusterKey(cards[i])
    <2>1. Typed(Made(cards[i]), ks) BY <1>5, <1>8 DEF Typed
    <2>2. PICK n \in DOMAIN rows : rows[n] = Made(cards[i])
        BY <1>2, <1>3, <1>6, <2>1
    <2>3. ClusterKey(rows[n]) = ClusterKey(cards[i])
        BY <1>4, <1>5, <2>2 DEF ClusterKey
    <2>4. ClusterKey(Cluster(rows[n])) = ClusterKey(rows[n]) BY ClusterTexts
    <2> QED BY <1>7, <2>3, <2>4
<1> QED BY <1>8 DEF ClustersStored, ks

\* What the sanitizer reads of a list of clusters.
LEMMA AwsClusters ==
    ASSUME NEW m, Has(m, "eks_clusters")
    PROVE  Rows(Aws(m), "eks_clusters") = Clusters(Rows(m, "eks_clusters"))
<1> DEFINE a == Flags(m, {"enabled"})
           b == OneOf(m, "provider", AwsProviders)
           c == OneOf(m, "default_region", Regions)
           d == Texts(m, {"domain", "username", "password", "idp_url", "source_profile", "default_account",
                          "kubeconfig_path"})
           e == Within(m, "session_duration_seconds", 900, 43200)
           f == IF Has(m, "accounts") THEN "accounts" :> Accounts(m.accounts) ELSE Nothing
           new == Clusters(m.eks_clusters)
           g == "eks_clusters" :> new
           y == Aws(m)
<1>1. y = (((((a @@ b) @@ c) @@ d) @@ e) @@ f) @@ g BY DEF Aws
<1>2. ~Has(a, "eks_clusters") /\ ~Has(b, "eks_clusters") /\ ~Has(c, "eks_clusters") /\ ~Has(d, "eks_clusters")
    <2>1. DOMAIN b \subseteq {"provider"} /\ DOMAIN c \subseteq {"default_region"}
        BY KeptField DEF OneOf
    <2>2. ~Has(a, "eks_clusters") /\ ~Has(d, "eks_clusters")
        BY DEF Flags, Texts, Has
    <2> HIDE DEF a, b, c, d
    <2> QED BY <2>1, <2>2 DEF Has
<1>3. ~Has(e, "eks_clusters")
    <2>1. DOMAIN e \subseteq {"session_duration_seconds"} BY DEF Within, Nothing, :>
    <2> HIDE DEF e
    <2> QED BY <2>1 DEF Has
<1>4. Rows(m, "eks_clusters") = m.eks_clusters BY DEF Rows
<1>5. ~Has(f, "eks_clusters")
    <2> DEFINE w == Accounts(m.accounts)
    <2> HIDE DEF w
    <2>1. ~Has("accounts" :> w, "eks_clusters") /\ ~Has(Nothing, "eks_clusters")
        BY OnlyHas, NothingHas
    <2> QED BY <2>1 DEF w
<1> HIDE DEF new
<1>6. Has(g, "eks_clusters") /\ Rows(g, "eks_clusters") = new BY OnlyHas
<1> HIDE DEF a, b, c, d, e, f, g, y
<1>7. Rows(y, "eks_clusters") = new
    BY <1>1, <1>2, <1>3, <1>5, <1>6, OverHas, OverRows
<1> QED BY <1>4, <1>7 DEF y, new

\* An AWS form that is let pass: what is stored has every cluster.
LEMMA AwsClustersKept ==
    ASSUME NEW m, NEW form, IsList(Rows(form, "clusters")), HasCards(form, "clusters"), ~AwsRefused(m, form)
    PROVE  ClustersStored(form.clusters, Rows(Section("aws", AwsMerged(m, form)), "eks_clusters"))
<1> DEFINE rows == ClusterCards(form.clusters)
           accounts == CardRows(form.cards, AccountFields, ApiOnly, Rows(m, "accounts"))
           a == Switched(form.fields)
           b == IF HasCards(form, "cards") THEN "accounts" :> accounts ELSE Nothing
           c == "eks_clusters" :> rows
           d == Overlaid(m, form.fields, AwsTexts \cup {"session_duration_seconds"})
           x == AwsMerged(m, form)
<1>1. x = ((a @@ b) @@ c) @@ d BY DEF AwsMerged
<1>2. IsList(form.clusters) BY DEF HasCards, Rows, Has
<1> HIDE DEF rows, accounts
<1>3. ~Has(a, "eks_clusters") /\ ~Has(b, "eks_clusters") /\ Has(c, "eks_clusters") /\ Rows(c, "eks_clusters") = rows
    BY SwitchedHas, OnlyHas, NothingHas
<1>4. ~AwsRowRefused(x, form) BY DEF AwsRefused
<1> HIDE DEF a, b, c, d, x
<1>5. Has(x, "eks_clusters") /\ Rows(x, "eks_clusters") = rows
    BY <1>1, <1>3, OverHas, OverRows
<1>6. (\A i \in DOMAIN rows : UsableCluster(rows[i])) /\ ~Repeated(rows, ClusterKey)
    BY <1>4, <1>5 DEF AwsRowRefused
<1>7. ClustersStored(form.clusters, Clusters(rows))
    BY <1>2, <1>6, ClustersOfCards DEF rows
<1>8. Section("aws", x) = Aws(x) BY DEF Section
<1>9. Rows(Aws(x), "eks_clusters") = Clusters(rows) BY <1>5, AwsClusters
<1> QED BY <1>7, <1>8, <1>9 DEF x

\* A Proxy form of cards makes a list of what the cards hold.
LEMMA CardProxyRows ==
    ASSUME NEW rows, ~Empty(rows), NEW form
    PROVE  Rows(CardProxy(rows, form), "proxies") = rows
<1> DEFINE f == form.fields
           a == Switched(f)
           default == IF Text(f, "default") = "" THEN rows[1].name ELSE f.default
           b == [proxies |-> rows, default |-> default]
           chosen == Texts(Sub(form, "assign"), Assignable)
           c == KeptMap("assignments", [k \in DOMAIN chosen |-> IF Lower(chosen[k]) = "none" THEN "none" ELSE chosen[k]])
           x == CardProxy(rows, form)
<1>1. x = (a @@ b) @@ c BY DEF CardProxy
<1> HIDE DEF f, default
<1>2. ~Has(a, "proxies") /\ Has(b, "proxies") /\ Rows(b, "proxies") = rows
    BY SwitchedHas DEF Has, Rows
<1> HIDE DEF a, b, c, x
<1>3. Rows(x, "proxies") = rows BY <1>1, <1>2, OverHas, OverRows
<1> QED BY <1>3 DEF x

\* Each of its rows has an address and a name of its own, and no card is missing.
LEMMA ProxyPasses ==
    ASSUME NEW m, NEW form, IsList(Rows(form, "cards")), HasCards(form, "cards"), ~ProxyRefused(m, form)
    PROVE  ProxyPassed(form, Map(LAMBDA r : Texts(r, ProxyFields), ProxyCards(m, form)))
<1> DEFINE old  == Rows(Proxy(m), "proxies")
           rows == ProxyCards(m, form)
           made == [i \in DOMAIN rows |-> Texts(rows[i], ProxyFields)]
<1>1. IsList(form.cards) BY DEF HasCards, Rows, Has
<1>2. rows = CardRows(form.cards, ProxyFields, {"password"}, old) BY DEF ProxyCards
<1>3. "name" \in ProxyFields /\ "url" \in ProxyFields /\ "name" \notin {"password"}
    BY DEF ProxyFields
<1> HIDE DEF old
<1>4. IsList(rows) /\ IsFcn(rows)
    <2>1. RowsOfCards(form.cards, rows, ProxyFields, {"password"}, old)
        BY <1>1, <1>2, CardsAre
    <2> QED BY <2>1 DEF RowsOfCards
<1>5. PostedNames(form) \subseteq NamesOf(rows) BY <1>2, <1>3, PostedAreRows
<1>6. ~ProxyRowsRefused(rows, form) BY DEF ProxyRefused
<1> HIDE DEF rows
<1>7. /\ ~Repeated(rows, FoldedName)
      /\ \A i \in DOMAIN rows : Text(rows[i], "name") \in ProxyNames /\ ProxyUrl(Text(rows[i], "url")) # ""
    BY <1>6 DEF ProxyRowsRefused
<1>8. OneEach(rows) BY <1>4, <1>7, NotRepeated
<1>9. \A r : Text(Texts(r, ProxyFields), "name") = Text(r, "name") /\ Text(Texts(r, ProxyFields), "url") = Text(r, "url")
    BY <1>3, TextsText
<1>10. /\ IsFcn(made) /\ DOMAIN made = DOMAIN rows
       /\ \A i \in DOMAIN rows : Text(made[i], "name") = Text(rows[i], "name") /\ Text(made[i], "url") = Text(rows[i], "url")
    BY <1>9 DEF IsFcn
<1>11. Map(LAMBDA r : Texts(r, ProxyFields), rows) = made BY DEF Map
<1> HIDE DEF made
<1>12. OneEach(made) /\ NamesOf(made) = NamesOf(rows) BY <1>8, <1>10, OnesRemade
<1>13. ProxyPassed(form, made) BY <1>5, <1>7, <1>10, <1>12 DEF ProxyPassed
<1> QED BY <1>11, <1>13 DEF rows

\* So does a Proxy form with its proxies.
LEMMA ProxyKeeps ==
    ASSUME NEW m, NEW form, IsList(Rows(form, "cards")), HasCards(form, "cards"), ~ProxyRefused(m, form)
    PROVE  PostedNames(form) \subseteq NamesOf(Rows(Section("proxy", ProxyMerged(m, form)), "proxies"))
<1> DEFINE made == Map(LAMBDA r : Texts(r, ProxyFields), ProxyCards(m, form))
           x    == ProxyMerged(m, form)
<1>1. ProxyPassed(form, made) BY ProxyPasses
<1>2. x = CardProxy(made, form) BY DEF ProxyMerged
<1> HIDE DEF made, x
<1>3. ASSUME Empty(made) PROVE PostedNames(form) = {}
    BY <1>1, <1>3 DEF ProxyPassed, Empty, NamesOf
<1>4. ASSUME ~Empty(made) PROVE PostedNames(form) \subseteq NamesOf(Rows(Section("proxy", x), "proxies"))
    <2>1. Rows(x, "proxies") = made BY <1>2, <1>4, CardProxyRows
    <2>2. NamesOf(UsableEntries(made)) = NamesOf(made)
        BY <1>1, ProxiesKept DEF ProxyPassed
    <2>3. ~Empty(UsableEntries(made))
        <3> DEFINE E == UsableEntries(made)
        <3>1. NamesOf(E) # {} BY <1>4, <2>2 DEF NamesOf, Empty
        <3> HIDE DEF E
        <3>2. ~Empty(E) BY <3>1 DEF NamesOf, Empty
        <3> QED BY <3>2 DEF E
    <2>4. Rows(Proxy(x), "proxies") = UsableEntries(made) BY <2>1, <2>3, ProxyRows
    <2>5. Section("proxy", x) = Proxy(x) BY DEF Section
    <2> QED BY <1>1, <2>2, <2>4, <2>5 DEF ProxyPassed
<1>5. PostedNames(form) \subseteq NamesOf(Rows(Section("proxy", x), "proxies"))
    BY <1>3, <1>4
<1> QED BY <1>5 DEF x

\* It is what the sanitizer reads of it; one that it reads nothing of is gone.
LEMMA SavedSection ==
    ASSUME NEW cat, NEW x, NEW s, s # "llm"
    PROVE  SavedAs(x, Canonical(cat, Sanitized(x)), s)
<1> DEFINE y == [t \in DOMAIN x \cap Sections |-> Section(t, x[t])]
           z == Sanitized(x)
           c == Canonical(cat, z)
<1>1. z = [t \in {u \in DOMAIN y : DOMAIN y[u] # {}} |-> y[t]]
    BY DEF Sanitized, Filled
<1>2. DOMAIN y = DOMAIN x \cap Sections /\ \A t \in DOMAIN y : y[t] = Section(t, x[t])
    OBVIOUS
<1> HIDE DEF y
<1>3. Has(z, s) <=> s \in DOMAIN y /\ DOMAIN y[s] # {} BY <1>1 DEF Has
<1>4. Has(z, s) => z[s] = y[s] BY <1>1 DEF Has
<1> HIDE DEF z
<1>5. (Has(c, s) <=> Has(z, s)) /\ (Has(z, s) => c[s] = z[s])
    <2>1. CASE "llm" \notin DOMAIN z BY <2>1 DEF Canonical
    <2>2. CASE "llm" \in DOMAIN z
        <3> DEFINE a == KeptMap("llm", CanonicalLlm(cat, z.llm))
                   b == Without(z, {"llm"})
        <3>1. c = a @@ b BY <2>2 DEF Canonical
        <3>2. DOMAIN a \subseteq {"llm"} BY KeptMapField
        <3>3. DOMAIN b = DOMAIN z \ {"llm"} /\ \A k \in DOMAIN b : b[k] = z[k]
            BY DEF Without
        <3> HIDE DEF a, b, c
        <3> QED BY <3>1, <3>2, <3>3 DEF Has, @@
    <2> QED BY <2>1, <2>2
<1> HIDE DEF c
<1>6. SavedAs(x, c, s) BY <1>2, <1>3, <1>4, <1>5 DEF SavedAs
<1> QED BY <1>6 DEF c, z

\* A form leaves the other sections of the row alone, and puts what it made in its own.
LEMMA MergedSections ==
    ASSUME NEW row, NEW form
    PROVE  LET t == form.section
               m == Sub(row, t)
               x == Merged(row, form)
           IN  /\ DOMAIN x = DOMAIN row \cup {t}
               /\ \A s \in DOMAIN row \ {t} : x[s] = row[s]
               /\ t \in {"jira", "confluence"} => x[t] = TrackerMerged(t, m, form)
               /\ t = "jenkins" => x[t] = JenkinsMerged(m, form)
               /\ t \in Named => x[t] = NamedMerged(t, m, form)
               /\ t = "aws" => x[t] = AwsMerged(m, form)
               /\ t = "proxy" => x[t] = ProxyMerged(m, form)
<1> DEFINE t == form.section
           m == Sub(row, t)
           x == Merged(row, form)
           v == CASE t \in {"jira", "confluence"} -> TrackerMerged(t, m, form)
                [] t = "jenkins" -> JenkinsMerged(m, form)
                [] t = "github" -> GitHubMerged(m, form.fields)
                [] t \in Named -> NamedMerged(t, m, form)
                [] t = "aws" -> AwsMerged(m, form)
                [] t = "proxy" -> ProxyMerged(m, form)
                [] t = "mobile-auto" -> MobileMerged(m, form.fields)
                [] t = "git" -> GitMerged(m, form.fields)
                [] t = "llm" -> LlmMerged(m, form.fields)
<1>1. x = (t :> v) @@ row BY DEF Merged
<1>2. /\ t \in {"jira", "confluence"} => v = TrackerMerged(t, m, form)
      /\ t = "jenkins" => v = JenkinsMerged(m, form)
      /\ t \in Named => v = NamedMerged(t, m, form)
      /\ t = "aws" => v = AwsMerged(m, form)
      /\ t = "proxy" => v = ProxyMerged(m, form)
    BY DEF Named
<1> HIDE DEF v, x, t, m
<1>3. DOMAIN x = DOMAIN row \cup {t} /\ x[t] = v /\ \A s \in DOMAIN row \ {t} : x[s] = row[s]
    BY <1>1 DEF @@, :>
<1> QED BY <1>2, <1>3 DEF x, t, m

\* A section that was stored is stored again as it was.
LEMMA OthersKept ==
    ASSUME NEW row, RowRead(row), Settled(row), NEW cat, NEW form,
           NEW s \in (DOMAIN row \cup DOMAIN Saved(cat, row, form)) \ {form.section, "llm"}
    PROVE  ~Differs(row, Saved(cat, row, form), s)
<1> DEFINE x == Merged(row, form)
           c == Saved(cat, row, form)
           t == form.section
<1>1. s # "llm" /\ s # t
    OBVIOUS
<1>2. DOMAIN x = DOMAIN row \cup {t} /\ \A u \in DOMAIN row \ {t} : x[u] = row[u]
    BY MergedSections
<1>3. SavedAs(x, c, s) BY <1>1, SavedSection DEF Saved
<1> HIDE DEF x, c, t
<1>4. ASSUME s \in DOMAIN row PROVE s \in Sections /\ DOMAIN row[s] # {} /\ Section(s, row[s]) = row[s]
    <2>1. s \in Sections /\ DOMAIN row[s] # {} /\ Sub(row, s) = row[s]
        BY <1>4 DEF Settled, Sub, Has
    <2>2. row[s] # Nothing BY <2>1 DEF Nothing
    <2>3. PICK y : ListsHold(s, y) /\ row[s] = Section(s, y)
        BY <1>1, <2>1, <2>2 DEF RowRead, SectionRead
    <2> QED BY <1>1, <2>1, <2>3, SectionTwice
<1>5. s \in DOMAIN row => s \in DOMAIN x \cap Sections /\ x[s] = row[s]
    BY <1>1, <1>2, <1>4
<1>6. s \in DOMAIN x => s \in DOMAIN row BY <1>1, <1>2
<1>7. (Has(c, s) <=> Has(row, s)) /\ (Has(c, s) => c[s] = row[s])
    BY <1>3, <1>4, <1>5, <1>6 DEF SavedAs, Has
<1>8. ~Differs(row, c, s) BY <1>7 DEF Differs, Has
<1> QED BY <1>8 DEF c

\* What is read of a list that is stored is the list that was made for it.
LEMMA SavedRows ==
    ASSUME NEW x, NEW c, NEW s \in Sections, s \in DOMAIN x, SavedAs(x, c, s), NEW k
    PROVE  Rows(Sub(c, s), k) = Rows(Section(s, x[s]), k)
<1> DEFINE v == Section(s, x[s])
<1>1. (Has(c, s) <=> DOMAIN v # {}) /\ (Has(c, s) => c[s] = v) BY DEF SavedAs
<1> HIDE DEF v
<1>2. ASSUME Has(c, s) PROVE Rows(Sub(c, s), k) = Rows(v, k) BY <1>1, <1>2 DEF Sub
<1>3. ASSUME ~Has(c, s) PROVE Rows(Sub(c, s), k) = Rows(v, k)
    <2>1. ~Has(Nothing, k) /\ ~Has(v, k) BY <1>1, <1>3, NothingHas DEF Has
    <2>2. Sub(c, s) = Nothing BY <1>3 DEF Sub
    <2> QED BY <2>1, <2>2 DEF Rows
<1>4. Rows(Sub(c, s), k) = Rows(v, k) BY <1>2, <1>3
<1> QED BY <1>4 DEF v

\* A form that is let pass loses none of its cards.
LEMMA CardsKept ==
    ASSUME NEW form \in Forms, NEW row, NEW cat, ~Refused(cat, row, form), form.section \in Named \cup {"aws", "proxy"}
    PROVE  PostedNames(form) \subseteq StoredNames(form.section, Sub(Saved(cat, row, form), form.section))
<1> DEFINE t == form.section
           m == Sub(row, t)
           x == Merged(row, form)
           c == Saved(cat, row, form)
           v == Section(t, x[t])
<1>1. IsList(Rows(form, "cards")) BY FormsAssumption
<1>2. t # "llm" /\ t \in Sections /\ t \in Named \cup {"aws", "proxy"}
    BY DEF Named, Sections
<1>3. /\ t \in DOMAIN x
      /\ t \in Named => x[t] = NamedMerged(t, m, form)
      /\ t = "aws" => x[t] = AwsMerged(m, form)
      /\ t = "proxy" => x[t] = ProxyMerged(m, form)
    BY MergedSections
<1>4. /\ t \in Named => ~NamedRefused(t, m, form)
      /\ t = "aws" => ~AwsRefused(m, form)
      /\ t = "proxy" => ~ProxyRefused(m, form)
    BY DEF Refused, Named
<1>5. SavedAs(x, c, t) BY <1>2, SavedSection DEF Saved
<1> HIDE DEF x, c, m
<1>6. \A k : Rows(Sub(c, t), k) = Rows(v, k)
    <2> HIDE DEF t
    <2> QED BY <1>2, <1>3, <1>5, SavedRows DEF v
<1>7. ASSUME ~HasCards(form, "cards") PROVE PostedNames(form) \subseteq StoredNames(t, Sub(c, t))
    BY <1>7 DEF PostedNames
<1>8. ASSUME HasCards(form, "cards"), t \in Named
      PROVE  PostedNames(form) \subseteq StoredNames(t, Sub(c, t))
    <2>1. PostedNames(form) \subseteq NamesOf(Rows(v, "instances"))
        BY <1>1, <1>3, <1>4, <1>8, NamedKeeps
    <2>2. StoredNames(t, Sub(c, t)) = NamesOf(Rows(Sub(c, t), "instances"))
        BY <1>8 DEF StoredNames, Named
    <2> HIDE DEF v
    <2> QED BY <1>6, <2>1, <2>2
<1>9. ASSUME HasCards(form, "cards"), t = "aws"
      PROVE  PostedNames(form) \subseteq StoredNames(t, Sub(c, t))
    <2>1. PostedNames(form) \subseteq NamesOf(Rows(v, "accounts"))
        BY <1>1, <1>3, <1>4, <1>9, AwsKeeps
    <2>2. StoredNames(t, Sub(c, t)) = NamesOf(Rows(Sub(c, t), "accounts"))
        BY <1>9 DEF StoredNames
    <2> HIDE DEF v
    <2> QED BY <1>6, <2>1, <2>2
<1>10. ASSUME HasCards(form, "cards"), t = "proxy"
      PROVE  PostedNames(form) \subseteq StoredNames(t, Sub(c, t))
    <2>1. PostedNames(form) \subseteq NamesOf(Rows(v, "proxies"))
        BY <1>1, <1>3, <1>4, <1>10, ProxyKeeps
    <2>2. StoredNames(t, Sub(c, t)) = NamesOf(Rows(Sub(c, t), "proxies"))
        BY <1>10 DEF StoredNames
    <2> HIDE DEF v
    <2> QED BY <1>6, <2>1, <2>2
<1> HIDE DEF t
<1>11. PostedNames(form) \subseteq StoredNames(t, Sub(c, t))
    BY <1>2, <1>7, <1>8, <1>9, <1>10
<1> QED BY <1>11 DEF c, t

\* Nor any instance of Jira, Confluence or Jenkins with an address.
LEMMA SitesKeptAll ==
    ASSUME NEW form \in Forms, NEW row, NEW cat, form.section \in {"jira", "confluence", "jenkins"}
    PROVE  SitesStored(Rows(form, "cards"), Rows(Sub(Saved(cat, row, form), form.section), "instances"))
<1> DEFINE t == form.section
           m == Sub(row, t)
           x == Merged(row, form)
           c == Saved(cat, row, form)
           cards == Rows(form, "cards")
           sites == "instances" :> JenkinsRows(m)
<1>1. IsList(cards) BY FormsAssumption
<1>2. t # "llm" /\ t \in Sections /\ t \in {"jira", "confluence", "jenkins"}
    BY DEF Sections
<1>3. /\ t \in DOMAIN x
      /\ t \in {"jira", "confluence"} => x[t] = TrackerMerged(t, m, form)
      /\ t = "jenkins" => x[t] = JenkinsMerged(m, form)
    BY MergedSections
<1>4. SavedAs(x, c, t) BY <1>2, SavedSection DEF Saved
<1>5. CASE ~HasCards(form, "cards")
    <2>1. cards = <<>> BY <1>5 DEF HasCards, Rows, Has
    <2> HIDE DEF cards
    <2> QED BY <2>1, EmptyIsList DEF SitesStored, cards
<1>6. CASE HasCards(form, "cards")
    <2>1. \E old : x[t] = TrackerMerged(t, old, form)
        <3>1. t = "jenkins" => x[t] = TrackerMerged("jenkins", sites @@ m, form)
            BY <1>3, <1>6 DEF JenkinsMerged
        <3> HIDE DEF x, m, sites, t
        <3> QED BY <1>2, <1>3, <3>1
    <2>2. cards = form.cards BY <1>6 DEF HasCards, Rows, Has
    <2> HIDE DEF x, c, m, t, cards
    <2>3. SitesStored(form.cards, Rows(Section(t, x[t]), "instances"))
        BY <1>1, <1>2, <1>6, <2>1, TrackerKeeps DEF cards
    <2>4. Rows(Sub(c, t), "instances") = Rows(Section(t, x[t]), "instances")
        BY <1>2, <1>3, <1>4, SavedRows
    <2> QED BY <2>2, <2>3, <2>4 DEF c, t, cards
<1> QED BY <1>5, <1>6

\* Nor the regions of an account, nor a cluster.
LEMMA AwsKeptAll ==
    ASSUME NEW form \in Forms, NEW row, NEW cat, ~Refused(cat, row, form), form.section = "aws"
    PROVE  /\ RegionsStored(Rows(form, "cards"), Rows(Sub(Saved(cat, row, form), "aws"), "accounts"))
           /\ ClustersStored(Rows(form, "clusters"), Rows(Sub(Saved(cat, row, form), "aws"), "eks_clusters"))
<1> DEFINE m == Sub(row, "aws")
           x == Merged(row, form)
           c == Saved(cat, row, form)
           v == Section("aws", x["aws"])
<1>1. /\ IsList(Rows(form, "cards")) /\ IsList(Rows(form, "clusters"))
      /\ \A i \in DOMAIN Rows(form, "cards") : IsList(Rows(form["cards"][i], "regions"))
    BY FormsAssumption
<1>2. "aws" \in DOMAIN x /\ x["aws"] = AwsMerged(m, form) BY MergedSections
<1>3. ~AwsRefused(m, form) BY DEF Refused, Named
<1>4. SavedAs(x, c, "aws") BY SavedSection DEF Saved
<1>5. "aws" \in Sections BY DEF Sections
<1> HIDE DEF x, c, m
<1>6. \A k : Rows(Sub(c, "aws"), k) = Rows(v, k) BY <1>2, <1>4, <1>5, SavedRows
<1>7. v = Section("aws", AwsMerged(m, form)) BY <1>2
<1> HIDE DEF v
<1>8. RegionsStored(Rows(form, "cards"), Rows(v, "accounts"))
    <2>1. CASE ~HasCards(form, "cards")
        <3>1. Rows(form, "cards") = <<>> BY <2>1 DEF HasCards, Rows, Has
        <3> QED BY <3>1, EmptyIsList DEF RegionsStored
    <2>2. CASE HasCards(form, "cards")
        <3>1. Rows(form, "cards") = form.cards BY <2>2 DEF HasCards, Rows, Has
        <3>2. RegionsStored(form.cards, Rows(Section("aws", AwsMerged(m, form)), "accounts"))
            BY <1>1, <1>3, <2>2, AwsRegionsKept
        <3> QED BY <1>7, <3>1, <3>2
    <2> QED BY <2>1, <2>2
<1>9. ClustersStored(Rows(form, "clusters"), Rows(v, "eks_clusters"))
    <2>1. CASE ~HasCards(form, "clusters")
        <3>1. Rows(form, "clusters") = <<>> BY <2>1 DEF HasCards, Rows, Has
        <3> QED BY <3>1, EmptyIsList DEF ClustersStored
    <2>2. CASE HasCards(form, "clusters")
        <3>1. Rows(form, "clusters") = form.clusters BY <2>2 DEF HasCards, Rows, Has
        <3>2. ClustersStored(form.clusters, Rows(Section("aws", AwsMerged(m, form)), "eks_clusters"))
            BY <1>1, <1>3, <2>2, AwsClustersKept
        <3> QED BY <1>7, <3>1, <3>2
    <2> QED BY <2>1, <2>2
<1> QED BY <1>6, <1>8, <1>9 DEF c

\* FormsKeep holds of every behaviour: what is stored after a form of the Connectors pages that
\* is not refused has every instance, account (with its regions), EKS cluster and proxy it
\* posts, but the Jira, Confluence and Jenkins cards that have no address, which the form takes
\* and the sanitizer drops; and the sections of the other connectors, but the model, are as they
\* were.
THEOREM RowsKeep == Spec => []FormsKeep
<1>1. ConfigRead /\ ConfigSettled => FormsKeep
    <2> SUFFICES ASSUME RowRead(config), Settled(config), NEW form \in Forms, ~Refused(catalog, config, form)
                 PROVE  LosesNothing(form, Saved(catalog, config, form))
        BY DEF ConfigRead, ConfigSettled, FormsKeep, AcceptedIsKept
    <2> DEFINE saved == Saved(catalog, config, form)
               s == form.section
    <2>1. s \in Named \cup {"aws", "proxy"} => PostedNames(form) \subseteq StoredNames(s, Sub(saved, s))
        BY CardsKept
    <2>2. \A t \in (DOMAIN config \cup DOMAIN saved) \ {s, "llm"} : ~Differs(config, saved, t)
        BY OthersKept
    <2>3. s \in {"jira", "confluence", "jenkins"} => SitesStored(Rows(form, "cards"), Rows(Sub(saved, s), "instances"))
        BY SitesKeptAll
    <2>4. s = "aws" => /\ RegionsStored(Rows(form, "cards"), Rows(Sub(saved, s), "accounts"))
                       /\ ClustersStored(Rows(form, "clusters"), Rows(Sub(saved, s), "eks_clusters"))
        BY AwsKeptAll
    <2> HIDE DEF saved
    <2>5. LosesNothing(form, saved) BY <2>1, <2>2, <2>3, <2>4 DEF LosesNothing
    <2> QED BY <2>5 DEF saved
<1> QED BY <1>1, RowsAreRead, AllSettled, PTL
================================================================================
