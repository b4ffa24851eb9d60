---------------------------- MODULE AtServerProofs ----------------------------
(***************************************************************************)
(* The AT server, for every set of names and words, every request and      *)
(* every number of registrations: no command hides another, the vector of  *)
(* commands is the table of AtTable, and the parser reads every request    *)
(* back from the line it was typed as, so that a line is answered from     *)
(* that table.                                                             *)
(***************************************************************************)
EXTENDS AtServer, SequenceTheorems, FiniteSetTheorems, WellFoundedInduction, TLAPS

Entries == [command : Names, kinds : SUBSET {"RUN", "READ", "WRITE"}, id : 0 .. MaxRegistered]

Unique(cs) == \A i, j \in 1 .. Len(cs) : cs[i].command = cs[j].command => i = j

Holds(cs, n) == \E i \in 1 .. Len(cs) : cs[i].command = n

VectorInv ==
  /\ registered_commands \in Seq(Entries)
  /\ registrations \in 0 .. MaxRegistered
  /\ Unique(registered_commands)
  /\ Holds(registered_commands, HELP) /\ Holds(registered_commands, INFO)

\* Where a name occurs once, the first occurrence is the only one.
LEMMA LeastOfOne == ASSUME NEW i \in Nat PROVE Least({i}) = i
  BY DEF Least

LEMMA FunctionIsSeq ==
  ASSUME NEW S, NEW k \in Nat, NEW f \in [1 .. k -> S]
  PROVE  f \in Seq(S) /\ Len(f) = k
  OBVIOUS

\* What is left after an erasure: no entry for n, every other entry once.
LEMMA ErasedVector ==
  ASSUME NEW cs \in Seq(Entries), Unique(cs), NEW n
  PROVE  /\ Erase(cs, n) \in Seq(Entries)
         /\ Unique(Erase(cs, n))
         /\ ~Holds(Erase(cs, n), n)
         /\ \A m : m # n /\ Holds(cs, m) => Holds(Erase(cs, n), m)
<1> DEFINE at == {i \in 1 .. Len(cs) : cs[i].command = n}
<1>1. CASE at = {}
  <2>1. Erase(cs, n) = cs
    BY <1>1 DEF Erase
  <2> QED BY <1>1, <2>1 DEF Holds
<1>2. CASE at # {}
  <2> PICK a \in 1 .. Len(cs) : cs[a].command = n
    BY <1>2
  <2>1. at = {a}
    BY DEF Unique
  <2>2. Least(at) = a
    BY <2>1, LeastOfOne
  <2> DEFINE rest == [k \in 1 .. Len(cs) - 1 |-> IF k < a THEN cs[k] ELSE cs[k + 1]]
  <2>3. Erase(cs, n) = rest
    BY <1>2, <2>2 DEF Erase
  <2>4. rest \in [1 .. Len(cs) - 1 -> Entries] /\ Len(cs) - 1 \in Nat
    OBVIOUS
  <2>5. rest \in Seq(Entries) /\ Len(rest) = Len(cs) - 1
    BY <2>4, FunctionIsSeq
  <2>6. Unique(rest)
    BY <2>5 DEF Unique
  <2>7. ~Holds(rest, n)
    <3>1. ASSUME NEW i \in 1 .. Len(cs) - 1 PROVE rest[i].command # n
      <4>1. CASE i < a
        <5>1. rest[i] = cs[i] /\ i \in 1 .. Len(cs) /\ i # a
          BY <4>1
        <5> QED BY <5>1 DEF Unique
      <4>2. CASE ~(i < a)
        <5>1. rest[i] = cs[i + 1] /\ i + 1 \in 1 .. Len(cs) /\ i + 1 # a
          BY <4>2
        <5> QED BY <5>1 DEF Unique
      <4> QED BY <4>1, <4>2
    <3> QED BY <2>5, <3>1 DEF Holds
  <2>8. ASSUME NEW m, m # n, Holds(cs, m) PROVE Holds(rest, m)
    <3> PICK i \in 1 .. Len(cs) : cs[i].command = m
      BY <2>8 DEF Holds
    <3>1. CASE i < a
      <4>1. i \in 1 .. Len(rest) /\ rest[i] = cs[i]
        BY <3>1, <2>5
      <4> QED BY <4>1 DEF Holds
    <3>2. CASE i > a
      <4>1. i - 1 \in 1 .. Len(rest) /\ rest[i - 1] = cs[i]
        BY <3>2, <2>5
      <4> QED BY <4>1 DEF Holds
    <3>3. i # a
      BY <2>8
    <3> QED BY <3>1, <3>2, <3>3
  <2> HIDE DEF rest
  <2> QED BY <2>3, <2>5, <2>6, <2>7, <2>8
<1> QED BY <1>1, <1>2

LEMMA VectorInit == Init => VectorInv
<1> SUFFICES ASSUME Init PROVE VectorInv
  OBVIOUS
<1>1. Command(HELP, {"RUN"}, 0) \in Entries /\ Command(INFO, {"RUN"}, 0) \in Entries
  BY ServerAssumption DEF Command, Entries
<1> DEFINE help == Command(HELP, {"RUN"}, 0)
           info == Command(INFO, {"RUN"}, 0)
<1>0. registered_commands = <<help, info>> /\ registrations = 0
  BY Zenon DEF Init
<1>a. help.command = HELP /\ info.command = INFO
  BY DEF Command
<1> HIDE DEF help, info
<1>2. registered_commands \in Seq(Entries) /\ Len(registered_commands) = 2
  BY <1>0, <1>1 DEF help, info
<1>3. registered_commands[1].command = HELP /\ registered_commands[2].command = INFO
  <2>1. registered_commands[1] = help /\ registered_commands[2] = info
    BY <1>0
  <2> QED BY <1>a, <2>1
<1>4. Unique(registered_commands)
  BY <1>2, <1>3, ServerAssumption DEF Unique
<1>5. Holds(registered_commands, HELP) /\ Holds(registered_commands, INFO)
  BY <1>2, <1>3 DEF Holds
<1>6. registrations \in 0 .. MaxRegistered
  BY <1>0, ServerAssumption
<1> QED BY <1>2, <1>4, <1>5, <1>6 DEF VectorInv

LEMMA RegisterStep ==
  ASSUME VectorInv, NEW n \in Names, NEW kinds \in Kinds, register_command(n, kinds)
  PROVE  VectorInv'
<1> DEFINE old == Erase(registered_commands, n)
           new == Command(n, kinds, registrations')
<1>1. registrations' \in 0 .. MaxRegistered
  BY ServerAssumption DEF register_command, NextHandler, VectorInv
<1>2. new \in Entries /\ new.command = n
  BY <1>1, ServerAssumption DEF Command, Entries
<1>3. /\ old \in Seq(Entries) /\ Unique(old) /\ ~Holds(old, n)
      /\ \A m : m # n /\ Holds(registered_commands, m) => Holds(old, m)
  BY ErasedVector DEF VectorInv
<1>4. registered_commands' = Append(old, new)
  BY DEF register_command
<1> HIDE DEF old, new
<1>5. /\ registered_commands' \in Seq(Entries)
      /\ Len(registered_commands') = Len(old) + 1
      /\ registered_commands'[Len(old) + 1] = new
      /\ \A i \in 1 .. Len(old) : registered_commands'[i] = old[i]
  BY <1>2, <1>3, <1>4
<1>6. Unique(registered_commands')
  BY <1>2, <1>3, <1>5 DEF Unique, Holds
<1>7. ASSUME NEW m, m = n \/ Holds(registered_commands, m)
      PROVE  Holds(registered_commands', m)
  <2>1. CASE m = n
    BY <1>2, <1>5, <2>1 DEF Holds
  <2>2. CASE m # n
    <3> PICK i \in 1 .. Len(old) : old[i].command = m
      BY <1>3, <1>7, <2>2 DEF Holds
    <3> QED BY <1>5 DEF Holds
  <2> QED BY <2>1, <2>2
<1> QED BY <1>1, <1>5, <1>6, <1>7 DEF VectorInv

LEMMA ReplaceStep ==
  ASSUME VectorInv, NEW n \in Names, NEW kinds \in Kinds, register_handlers(n, kinds)
  PROVE  VectorInv'
<1>1. registrations' \in 0 .. MaxRegistered
  BY ServerAssumption DEF register_handlers, NextHandler, VectorInv
<1>2. PICK a \in 1 .. Len(registered_commands) : registered_commands[a].command = n
  BY DEF register_handlers, Registered
<1>3. Registered(n) = {a}
  BY <1>2 DEF Registered, VectorInv, Unique
<1>4. Least(Registered(n)) = a
  BY <1>3, LeastOfOne
<1> DEFINE new == Command(n, kinds, registrations')
<1>5. new \in Entries /\ new.command = n
  BY <1>1, ServerAssumption DEF Command, Entries
<1>6. registered_commands' = [registered_commands EXCEPT ![a] = new]
  BY <1>4 DEF register_handlers
<1> HIDE DEF new
<1>7. /\ registered_commands' \in Seq(Entries)
      /\ Len(registered_commands') = Len(registered_commands)
      /\ \A i \in 1 .. Len(registered_commands) :
           registered_commands'[i].command = registered_commands[i].command
  BY <1>2, <1>5, <1>6 DEF VectorInv
<1> QED BY <1>1, <1>7 DEF VectorInv, Unique, Holds

LEMMA VectorStep == ASSUME VectorInv, [Next]_vars PROVE VectorInv'
<1>1. ASSUME NEW line, execute(line) PROVE VectorInv'
  BY <1>1 DEF execute, VectorInv
<1>2. CASE UNCHANGED vars
  BY <1>2 DEF vars, VectorInv
<1> QED BY <1>1, <1>2, RegisterStep, ReplaceStep DEF Next

\* Whatever is registered and replaced, each name is in the vector once, so
\* no command hides another, and the built-in commands stay
\* (ei_at_server.cpp:83-175).
THEOREM NoHiddenCommand == Spec => []NamesUnique
<1>1. VectorInv => NamesUnique
  BY DEF VectorInv, NamesUnique, Unique, Holds, Registered
<1> QED BY VectorInit, VectorStep, <1>1, PTL DEF Spec

-----------------------------------------------------------------------------
(* The vector is a table: what a registration changes of it *)

Has(cs, c) == \E i \in 1 .. Len(cs) : cs[i] = c

\* What cs, searched from the front, has for a name.
EntryOf(cs, n) ==
  LET at == {i \in 1 .. Len(cs) : cs[i].command = n}
  IN  IF at = {} THEN [kinds |-> {}, id |-> 0]
      ELSE [kinds |-> cs[Least(at)].kinds, id |-> cs[Least(at)].id]

Registrations == [n \in Names |-> Entry(n)]

LEMMA EntryIs == \A n : Entry(n) = EntryOf(registered_commands, n)
  BY Zenon DEF Entry, EntryOf, Registered

LEMMA Found ==
  ASSUME NEW cs \in Seq(Entries), Unique(cs), NEW c, Has(cs, c)
  PROVE  EntryOf(cs, c.command) = [kinds |-> c.kinds, id |-> c.id]
<1> DEFINE at == {i \in 1 .. Len(cs) : cs[i].command = c.command}
<1>1. PICK a \in 1 .. Len(cs) : cs[a] = c
  BY DEF Has
<1>2. at = {a}
  BY <1>1 DEF Unique
<1>3. Least(at) = a /\ at # {}
  BY <1>2, LeastOfOne
<1> HIDE DEF at
<1>4. EntryOf(cs, c.command)
        = IF at = {} THEN [kinds |-> {}, id |-> 0]
          ELSE [kinds |-> cs[Least(at)].kinds, id |-> cs[Least(at)].id]
  BY Zenon DEF EntryOf, at
<1> QED BY Zenon, <1>1, <1>3, <1>4

LEMMA NotFound ==
  ASSUME NEW cs, NEW n, ~Holds(cs, n)
  PROVE  EntryOf(cs, n) = [kinds |-> {}, id |-> 0]
<1>1. {i \in 1 .. Len(cs) : cs[i].command = n} = {}
  BY Zenon DEF Holds
<1> QED BY Zenon, <1>1 DEF EntryOf

\* Two vectors with the same entries under a name have the same for it.
LEMMA SameEntry ==
  ASSUME NEW cs \in Seq(Entries), Unique(cs), NEW ds \in Seq(Entries), Unique(ds), NEW n,
         \A c : c.command = n => (Has(cs, c) <=> Has(ds, c))
  PROVE  EntryOf(cs, n) = EntryOf(ds, n)
<1>1. CASE \E c : c.command = n /\ Has(cs, c)
  <2> PICK c : c.command = n /\ Has(cs, c)
    BY <1>1
  <2>1. Has(ds, c)
    OBVIOUS
  <2>2. EntryOf(cs, c.command) = [kinds |-> c.kinds, id |-> c.id]
        /\ EntryOf(ds, c.command) = [kinds |-> c.kinds, id |-> c.id]
    BY <2>1, Found
  <2> QED BY Zenon, <2>2
<1>2. CASE ~\E c : c.command = n /\ Has(cs, c)
  <2>1. ~Holds(cs, n)
    BY Zenon, <1>2 DEF Holds, Has
  <2>2. ~Holds(ds, n)
    BY Zenon, <1>2 DEF Holds, Has
  <2> QED BY Zenon, <2>1, <2>2, NotFound
<1> QED BY <1>1, <1>2

\* An erasure leaves every entry of another name, and brings none.
LEMMA ErasedEntries ==
  ASSUME NEW cs \in Seq(Entries), Unique(cs), NEW n, NEW c, c.command # n
  PROVE  Has(cs, c) <=> Has(Erase(cs, n), c)
<1> DEFINE at == {i \in 1 .. Len(cs) : cs[i].command = n}
<1>1. CASE at = {}
  <2>1. Erase(cs, n) = cs
    BY <1>1 DEF Erase
  <2> QED BY <2>1
<1>2. CASE at # {}
  <2> PICK a \in 1 .. Len(cs) : cs[a].command = n
    BY <1>2
  <2>1. at = {a}
    BY DEF Unique
  <2>2. Least(at) = a
    BY <2>1, LeastOfOne
  <2> DEFINE rest == [k \in 1 .. Len(cs) - 1 |-> IF k < a THEN cs[k] ELSE cs[k + 1]]
  <2>3. Erase(cs, n) = rest
    BY <1>2, <2>2 DEF Erase
  <2>4. rest \in [1 .. Len(cs) - 1 -> Entries] /\ Len(cs) - 1 \in Nat
    OBVIOUS
  <2>5. rest \in Seq(Entries) /\ Len(rest) = Len(cs) - 1
    BY <2>4, FunctionIsSeq
  <2>6. \A k \in 1 .. Len(cs) - 1 : rest[k] = IF k < a THEN cs[k] ELSE cs[k + 1]
    OBVIOUS
  <2> HIDE DEF rest
  <2>7. ASSUME NEW i \in 1 .. Len(cs), cs[i] = c PROVE Has(rest, c)
    <3>1. i # a
      BY <2>7
    <3>2. CASE i < a
      <4>1. i \in 1 .. Len(rest) /\ rest[i] = cs[i]
        BY <3>2, <2>5, <2>6
      <4> QED BY <4>1, <2>7 DEF Has
    <3>3. CASE i > a
      <4>1. i - 1 \in 1 .. Len(rest) /\ rest[i - 1] = cs[i]
        BY <3>3, <2>5, <2>6
      <4> QED BY <4>1, <2>7 DEF Has
    <3> QED BY <3>1, <3>2, <3>3
  <2>8. ASSUME NEW k \in 1 .. Len(rest), rest[k] = c PROVE Has(cs, c)
    <3>1. k \in 1 .. Len(cs) /\ k + 1 \in 1 .. Len(cs) /\ rest[k] \in {cs[k], cs[k + 1]}
      BY <2>5, <2>6
    <3> QED BY <3>1, <2>8 DEF Has
  <2> QED BY <2>3, <2>7, <2>8 DEF Has
<1> QED BY <1>1, <1>2

\* A registration of either kind changes what the vector has for one name, to
\* what was registered.
Registers(n, kinds) ==
  /\ EntryOf(registered_commands', n) = [kinds |-> kinds, id |-> registrations']
  /\ \A m \in Names \ {n} : EntryOf(registered_commands', m) = EntryOf(registered_commands, m)

LEMMA RegisterRegisters ==
  ASSUME VectorInv, VectorInv', NEW n \in Names, NEW kinds \in Kinds, register_command(n, kinds)
  PROVE  Registers(n, kinds)
<1> DEFINE cs == registered_commands
           ds == registered_commands'
           old == Erase(cs, n)
           new == Command(n, kinds, registrations')
<1>1. cs \in Seq(Entries) /\ Unique(cs) /\ ds \in Seq(Entries) /\ Unique(ds)
  BY DEF VectorInv
<1>2. ds = Append(old, new) /\ old \in Seq(Entries)
  BY <1>1, ErasedVector DEF register_command
<1>3. new.command = n /\ new.kinds = kinds /\ new.id = registrations'
  BY DEF Command
<1> HIDE DEF cs, ds, old, new
<1>4. /\ Len(ds) = Len(old) + 1 /\ Len(old) \in Nat /\ ds[Len(old) + 1] = new
      /\ \A i \in 1 .. Len(old) : ds[i] = old[i]
  BY <1>2
<1>5. Has(ds, new)
  BY <1>4 DEF Has
<1>6. EntryOf(ds, n) = [kinds |-> kinds, id |-> registrations']
  BY Zenon, <1>1, <1>3, <1>5, Found
<1>7. ASSUME NEW m \in Names \ {n} PROVE EntryOf(ds, m) = EntryOf(cs, m)
  <2>1. ASSUME NEW c, c.command = m PROVE Has(ds, c) <=> Has(cs, c)
    <3>1. c # new /\ c.command # n
      BY <2>1, <1>3
    <3>2. Has(ds, c) <=> Has(old, c)
      BY <3>1, <1>4 DEF Has
    <3>3. Has(cs, c) <=> Has(old, c)
      BY Zenon, <3>1, <1>1, ErasedEntries DEF old
    <3> QED BY <3>2, <3>3
  <2> QED BY Zenon, <2>1, <1>1, SameEntry
<1> QED BY Zenon, <1>6, <1>7 DEF Registers, cs, ds

LEMMA ReplaceRegisters ==
  ASSUME VectorInv, VectorInv', NEW n \in Names, NEW kinds \in Kinds, register_handlers(n, kinds)
  PROVE  Registers(n, kinds)
<1> DEFINE cs == registered_commands
           ds == registered_commands'
           new == Command(n, kinds, registrations')
<1>1. cs \in Seq(Entries) /\ Unique(cs) /\ ds \in Seq(Entries) /\ Unique(ds)
  BY DEF VectorInv
<1>2. PICK a \in 1 .. Len(cs) : cs[a].command = n
  BY DEF register_handlers, Registered
<1>3. Registered(n) = {a}
  BY <1>1, <1>2 DEF Registered, Unique
<1>4. Least(Registered(n)) = a
  BY <1>3, LeastOfOne
<1>5. ds = [cs EXCEPT ![a] = new]
  BY <1>4 DEF register_handlers
<1>6. new.command = n /\ new.kinds = kinds /\ new.id = registrations'
  BY DEF Command
<1> HIDE DEF cs, ds, new
<1>7. /\ Len(ds) = Len(cs) /\ ds[a] = new
      /\ \A i \in 1 .. Len(cs) : i # a => ds[i] = cs[i]
  BY <1>1, <1>2, <1>5
<1>8. Has(ds, new)
  BY <1>2, <1>7 DEF Has
<1>9. EntryOf(ds, n) = [kinds |-> kinds, id |-> registrations']
  BY Zenon, <1>1, <1>6, <1>8, Found
<1>10. ASSUME NEW m \in Names \ {n} PROVE EntryOf(ds, m) = EntryOf(cs, m)
  <2>1. ASSUME NEW c, c.command = m PROVE Has(ds, c) <=> Has(cs, c)
    <3>1. c # new /\ c # cs[a]
      BY <2>1, <1>2, <1>6
    <3> QED BY <3>1, <1>7 DEF Has
  <2> QED BY Zenon, <2>1, <1>1, SameEntry
<1> QED BY Zenon, <1>9, <1>10 DEF Registers, cs, ds

LEMMA RegistrationStep ==
  ASSUME VectorInv, VectorInv', [Next]_vars
  PROVE  Table!TRegister \/ UNCHANGED Registrations
<1>1. ASSUME NEW n \in Names, NEW kinds \in Kinds,
             register_command(n, kinds) \/ register_handlers(n, kinds)
      PROVE  Table!TRegister
  <2> DEFINE e == [kinds |-> kinds, id |-> registrations']
  <2>1. Registers(n, kinds)
    BY <1>1, RegisterRegisters, ReplaceRegisters
  <2>2. e \in [kinds : Kinds, id : 1 .. MaxRegistered]
    BY <1>1 DEF VectorInv, register_command, register_handlers, NextHandler
  <2>3. UNCHANGED answer /\ UNCHANGED asked
    BY <1>1 DEF register_command, register_handlers
  <2> HIDE DEF e
  <2>4. [m \in Names |-> EntryOf(registered_commands', m)]
          = [[m \in Names |-> EntryOf(registered_commands, m)] EXCEPT ![n] = e]
    BY <2>1 DEF Registers, e
  <2>5. \A m : Entry(m)' = EntryOf(registered_commands', m)
    BY Zenon DEF Entry, EntryOf, Registered
  <2>6. [m \in Names |-> Entry(m)]' = [[m \in Names |-> Entry(m)] EXCEPT ![n] = e]
    BY Zenon, <2>4, <2>5, EntryIs
  <2> QED BY Zenon, <2>2, <2>3, <2>6 DEF Table!TRegister
<1>2. ASSUME NEW line, execute(line) PROVE UNCHANGED Registrations
  BY Zenon, <1>2 DEF execute, Registrations, Entry, Registered
<1>3. CASE UNCHANGED vars
  BY Zenon, <1>3 DEF vars, Registrations, Entry, Registered
<1> QED BY Zenon, <1>1, <1>2, <1>3 DEF Next

\* What is registered in the vector and replaced in it is the table that
\* AtTable promises, for every set of names and handlers: a registration sets
\* the entry of one name to what was registered last, and touches no other
\* (ei_at_server.cpp:108-175).
THEOREM RegistrationsImplementTable == Spec => [][Table!TRegister]_Registrations
<1> QED BY VectorInit, VectorStep, RegistrationStep, PTL DEF Spec

\* Every set of numbers has a least one, and a bounded one a greatest.
LEMMA NatMin ==
  ASSUME NEW T, T \subseteq Nat, T # {}
  PROVE  \E x \in T : \A y \in T : x <= y
<1> DEFINE Below == {ss \in Nat \X Nat : ss[1] < ss[2]}
<1>1. IsWellFoundedOn(Below, Nat)
  BY NatLessThanWellFounded DEF OpToRel
<1>2. PICK x \in T : \A y \in T : ~ (<<y, x>> \in Below)
  <2> HIDE DEF Below
  <2> QED BY Zenon, <1>1, WFMin
<1>3. ASSUME NEW y \in T PROVE x <= y
  <2>1. <<y, x>> \in Nat \X Nat
    OBVIOUS
  <2>2. ~ (<<y, x>> \in Below)
    BY Zenon, <1>2
  <2>3. ~ (y < x)
    BY <2>1, <2>2
  <2> QED BY <2>3
<1> QED BY <1>3

LEMMA LeastIn ==
  ASSUME NEW T, T \subseteq Nat, T # {}
  PROVE  Least(T) \in T /\ \A j \in T : Least(T) <= j
<1>1. \E i \in T : \A j \in T : i <= j
  BY Zenon, NatMin
<1> QED BY Zenon, <1>1 DEF Least

LEMMA LeastIs ==
  ASSUME NEW T, T \subseteq Nat, NEW i \in T, \A j \in T : i <= j
  PROVE  Least(T) = i
<1>1. ASSUME NEW k \in T, \A j \in T : k <= j PROVE k = i
  <2>1. k <= i /\ i <= k /\ k \in Nat /\ i \in Nat
    BY Zenon, <1>1
  <2> QED BY <2>1
<1> QED BY Zenon, <1>1 DEF Least

LEMMA MostIs ==
  ASSUME NEW T, T \subseteq Nat, NEW i \in T, \A j \in T : i >= j
  PROVE  Most(T) = i
<1>1. ASSUME NEW k \in T, \A j \in T : k >= j PROVE k = i
  <2>1. k >= i /\ i >= k /\ k \in Nat /\ i \in Nat
    BY Zenon, <1>1
  <2> QED BY <2>1
<1> QED BY Zenon, <1>1 DEF Most

LEMMA MostIn ==
  ASSUME NEW n \in Nat, NEW T, T \subseteq 1 .. n, T # {}
  PROVE  Most(T) \in T /\ \A j \in T : Most(T) >= j
<1> DEFINE U == {n - i : i \in T}
<1>1. U \subseteq Nat /\ U # {}
  <2>1. \A i \in T : n - i \in Nat
    OBVIOUS
  <2>2. PICK i : i \in T
    BY Zenon
  <2>3. n - i \in U
    BY Zenon, <2>2
  <2> QED BY Zenon, <2>1, <2>3
<1>2. PICK u \in U : \A v \in U : u <= v
  <2> HIDE DEF U
  <2> QED BY Zenon, <1>1, NatMin
<1>3. PICK i \in T : u = n - i
  OBVIOUS
<1>4. ASSUME NEW j \in T PROVE i >= j
  <2>1. n - j \in U /\ i \in Nat /\ j \in Nat
    OBVIOUS
  <2>2. u <= n - j
    BY Zenon, <1>2, <2>1
  <2> QED BY <1>3, <2>1, <2>2
<1>5. \E k \in T : \A j \in T : k >= j
  BY Zenon, <1>4
<1> QED BY Zenon, <1>5 DEF Most

-----------------------------------------------------------------------------
(* What the parser makes of a line *)

LEMMA Spoken ==
  ASSUME NEW w \in Words
  PROVE  w \notin {"AT+", "SPACE", "TAB", "?", "=", ","} /\ w \in Pieces
  BY LineAssumption DEF Marks, Pieces

\* Blanks in front go, whatever follows from a piece that is none stays.
LEMMA TrimLeftIs ==
  ASSUME NEW s \in Seq(Pieces), NEW i \in 1 .. Len(s), s[i] \notin {"SPACE", "TAB"},
         \A j \in 1 .. i - 1 : s[j] \in {"SPACE", "TAB"}
  PROVE  TrimLeft(s) = SubSeq(s, i, Len(s))
<1> DEFINE T == NotAt(s, {"SPACE", "TAB"})
<1>1. T \subseteq Nat /\ i \in T
  BY DEF NotAt, At
<1>2. \A j \in T : i <= j
  BY DEF NotAt, At
<1> HIDE DEF T
<1>3. Least(T) = i
  BY Zenon, <1>1, <1>2, LeastIs
<1> QED BY Zenon, <1>3 DEF TrimLeft, T

\* Spaces at the end go, up to a piece that is none.
LEMMA TrimRightIs ==
  ASSUME NEW s \in Seq(Pieces), NEW i \in 1 .. Len(s), s[i] # "SPACE",
         \A j \in i + 1 .. Len(s) : s[j] = "SPACE"
  PROVE  TrimRight(s) = SubSeq(s, 1, i)
<1> DEFINE T == NotAt(s, {"SPACE"})
<1>1. T \subseteq Nat /\ i \in T
  BY DEF NotAt, At
<1>2. \A j \in T : i >= j
  BY DEF NotAt, At
<1>4. T # {}
  BY <1>1
<1> HIDE DEF T
<1>3. Most(T) = i
  BY Zenon, <1>1, <1>2, MostIs
<1> QED BY Zenon, <1>3, <1>4 DEF TrimRight, T

\* In any case something at the front of it is left, which ends in no space,
\* and nothing else went.
LEMMA TrimRightAny ==
  ASSUME NEW s \in Seq(Pieces)
  PROVE  \E m \in 0 .. Len(s) :
           /\ TrimRight(s) = SubSeq(s, 1, m)
           /\ \A j \in m + 1 .. Len(s) : s[j] = "SPACE"
<1> DEFINE T == NotAt(s, {"SPACE"})
           m == IF T = {} THEN 0 ELSE Most(T)
<1>0. Len(s) \in Nat /\ T \subseteq 1 .. Len(s)
  BY DEF NotAt
<1>1. m \in 0 .. Len(s) /\ \A j \in T : j <= m
  <2>1. CASE T = {}
    BY <2>1
  <2>2. CASE T # {}
    <3> HIDE DEF T
    <3>1. Most(T) \in T /\ \A j \in T : Most(T) >= j
      BY Zenon, <1>0, <2>2, MostIn
    <3>2. \A j \in T : j <= Most(T)
      BY <1>0, <3>1
    <3>3. Most(T) \in 0 .. Len(s)
      <4>1. Most(T) \in 1 .. Len(s)
        BY Zenon, <1>0, <3>1
      <4> QED BY <1>0, <4>1
    <3> QED BY Zenon, <2>2, <3>2, <3>3
  <2> QED BY <2>1, <2>2
<1>2. TrimRight(s) = SubSeq(s, 1, m)
  BY Zenon DEF TrimRight
<1>3. ASSUME NEW j \in m + 1 .. Len(s) PROVE s[j] = "SPACE"
  <2>1. j \in 1 .. Len(s) /\ ~ (j <= m)
    BY <1>1
  <2>2. j \notin T
    BY Zenon, <1>1, <2>1
  <2> QED BY Zenon, <2>1, <2>2 DEF NotAt, At
<1> HIDE DEF m, T
<1> QED BY <1>1, <1>2, <1>3

\* Two lines with the same pieces are the same.
LEMMA SameLine ==
  ASSUME NEW x \in Seq(Pieces), NEW y \in Seq(Pieces), NEW n \in Nat, Len(x) = n, Len(y) = n,
         \A i \in 1 .. n : x[i] = y[i]
  PROVE  x = y
  OBVIOUS

LEMMA SubLine ==
  ASSUME NEW s \in Seq(Pieces), NEW m \in Nat, NEW n \in Nat, m <= n, n <= Len(s)
  PROVE  /\ SubSeq(s, m + 1, n) \in Seq(Pieces) /\ Len(SubSeq(s, m + 1, n)) = n - m
         /\ \A i \in 1 .. n - m : SubSeq(s, m + 1, n)[i] = s[m + i]
  OBVIOUS

\* What follows AT+ in a line that begins with it, without the spaces at the end.
Input(s) == TrimRight(Tail(TrimLeft(s)))

LEMMA InputIs ==
  ASSUME NEW s \in Seq(Pieces), NEW p \in Nat, p + 1 <= Len(s), s[p + 1] \notin {"SPACE", "TAB"},
         \A j \in 1 .. p : s[j] \in {"SPACE", "TAB"}
  PROVE  /\ TrimLeft(s) \in Seq(Pieces) /\ Head(TrimLeft(s)) = s[p + 1]
         /\ Tail(TrimLeft(s)) \in Seq(Pieces)
         /\ Len(Tail(TrimLeft(s))) = Len(s) - p - 1
         /\ \A j \in 1 .. Len(s) - p - 1 : Tail(TrimLeft(s))[j] = s[p + 1 + j]
<1> DEFINE t == SubSeq(s, p + 1, Len(s))
<1>1. TrimLeft(s) = t
  <2>1. p + 1 \in 1 .. Len(s) /\ (p + 1) - 1 = p
    OBVIOUS
  <2> QED BY Zenon, <2>1, TrimLeftIs
<1>2. /\ t \in Seq(Pieces) /\ Len(t) = Len(s) - p
      /\ \A j \in 1 .. Len(s) - p : t[j] = s[p + j]
  OBVIOUS
<1>3. 1 \in 1 .. Len(s) - p /\ \A j \in 1 .. Len(s) - p - 1 : j + 1 \in 1 .. Len(s) - p
  OBVIOUS
<1> HIDE DEF t
<1>4. /\ Head(t) = t[1] /\ Tail(t) \in Seq(Pieces) /\ Len(Tail(t)) = Len(s) - p - 1
      /\ \A j \in 1 .. Len(s) - p - 1 : Tail(t)[j] = t[j + 1]
  BY <1>2
<1>5. \A j \in 1 .. Len(s) - p - 1 : t[j + 1] = s[p + 1 + j]
  BY <1>2, <1>3
<1> QED BY Zenon, <1>1, <1>2, <1>3, <1>4, <1>5

\* p blanks, AT+, the name c, what follows it, and spaces.
Shape(s, p, c, rest) ==
  /\ p + 2 + Len(rest) <= Len(s)
  /\ \A j \in 1 .. p : s[j] \in {"SPACE", "TAB"}
  /\ s[p + 1] = "AT+" /\ s[p + 2] = c
  /\ \A j \in 1 .. Len(rest) : s[p + 2 + j] = rest[j]
  /\ \A j \in p + 3 + Len(rest) .. Len(s) : s[j] = "SPACE"
  /\ Len(rest) > 0 => rest[1] \in {"?", "="} /\ rest[Len(rest)] # "SPACE"

LEMMA ParseIs ==
  ASSUME NEW s \in Seq(Pieces), NEW p \in Nat, NEW c \in Words, NEW rest \in Seq(Pieces),
         Shape(s, p, c, rest)
  PROVE  parse(s) = [type |-> IF Len(rest) = 0 THEN "RUN"
                              ELSE IF rest[1] = "=" THEN "WRITE" ELSE "READ",
                     command |-> <<c>>,
                     arguments |-> IF Len(rest) > 0 /\ rest[1] = "="
                                   THEN Split(Tail(rest)) ELSE <<>>]
<1> DEFINE t == Tail(TrimLeft(s))
           n == Len(rest)
           in == SubSeq(t, 1, n + 1)
           marks == At(in, {"?", "="})
           pos == IF marks = {} THEN Len(in) + 1 ELSE Least(marks)
           type == IF marks = {} THEN "RUN" ELSE IF in[pos] = "=" THEN "WRITE" ELSE "READ"
<1>0. n \in Nat
  OBVIOUS
<1>s. /\ p + 2 + Len(rest) <= Len(s)
      /\ \A j \in 1 .. p : s[j] \in {"SPACE", "TAB"}
      /\ s[p + 1] = "AT+" /\ s[p + 2] = c
      /\ \A j \in 1 .. Len(rest) : s[p + 2 + j] = rest[j]
      /\ \A j \in p + 3 + Len(rest) .. Len(s) : s[j] = "SPACE"
      /\ Len(rest) > 0 => rest[1] \in {"?", "="} /\ rest[Len(rest)] # "SPACE"
  BY Zenon DEF Shape
<1>a. c \notin {"AT+", "SPACE", "TAB", "?", "=", ","} /\ c \in Pieces
  BY Zenon, Spoken
<1>1. /\ Head(TrimLeft(s)) = "AT+"
      /\ t \in Seq(Pieces) /\ Len(t) = Len(s) - p - 1
      /\ \A j \in 1 .. Len(s) - p - 1 : t[j] = s[p + 1 + j]
  <2>1. p + 1 <= Len(s) /\ s[p + 1] \notin {"SPACE", "TAB"}
    BY <1>s
  <2> QED BY Zenon, <1>s, <2>1, InputIs
<1> HIDE DEF t
<1>2. n + 1 \in 1 .. Len(t)
  BY <1>0, <1>1, <1>s
<1>3. t[1] = c /\ \A j \in 1 .. n : t[j + 1] = rest[j]
  BY <1>1, <1>s
<1>4. \A j \in (n + 1) + 1 .. Len(t) : t[j] = "SPACE"
  <2> TAKE j \in (n + 1) + 1 .. Len(t)
  <2>1. j \in 1 .. Len(s) - p - 1 /\ p + 1 + j \in p + 3 + Len(rest) .. Len(s)
    BY <1>1
  <2> QED BY Zenon, <2>1, <1>1, <1>s
<1>5. t[n + 1] # "SPACE"
  <2>1. CASE n = 0
    <3>1. n + 1 = 1
      BY <2>1
    <3> QED BY Zenon, <3>1, <1>3, <1>a
  <2>2. CASE n > 0
    <3>1. n \in 1 .. n /\ rest[n] # "SPACE"
      BY <1>0, <1>s, <2>2
    <3> QED BY Zenon, <3>1, <1>3
  <2> QED BY <1>0, <2>1, <2>2
<1>6. TrimRight(t) = in
  BY Zenon, <1>1, <1>2, <1>4, <1>5, TrimRightIs
<1>7. /\ in \in Seq(Pieces) /\ Len(in) = n + 1
      /\ in[1] = c /\ \A j \in 1 .. n : in[j + 1] = rest[j]
  <2>1. /\ in \in Seq(Pieces) /\ Len(in) = n + 1
        /\ \A j \in 1 .. n + 1 : in[j] = t[j]
    BY <1>1, <1>2
  <2>2. 1 \in 1 .. n + 1 /\ \A j \in 1 .. n : j + 1 \in 1 .. n + 1
    OBVIOUS
  <2> QED BY Zenon, <1>3, <2>1, <2>2
<1>8. parse(s) = [type |-> type, command |-> SubSeq(in, 1, pos - 1),
                  arguments |-> IF type = "WRITE"
                                THEN Split(SubSeq(in, pos + 1, Len(in))) ELSE <<>>]
  BY Zenon, <1>1, <1>6 DEF parse, t
<1> HIDE DEF in
<1>9. SubSeq(in, 1, 1) = <<c>>
  <2> DEFINE x == SubSeq(in, 1, 1)
  <2>1. x \in Seq(Pieces) /\ Len(x) = 1 /\ x[1] = c
    BY <1>0, <1>7
  <2> HIDE DEF x
  <2>2. x = <<c>>
    BY <2>1
  <2> QED BY Zenon, <2>2 DEF x
<1>10. CASE n = 0
  <2>1. marks = {}
    <3>1. Len(in) = 1 /\ in[1] \notin {"?", "="}
      <4>1. in[1] \notin {"?", "="}
        BY Zenon, <1>7, <1>a
      <4> QED BY <4>1, <1>7, <1>10
    <3> QED BY <3>1 DEF At
  <2> HIDE DEF marks
  <2>2. type = "RUN" /\ pos - 1 = 1
    BY <1>7, <1>10, <2>1
  <2> HIDE DEF type, pos
  <2>3. parse(s) = [type |-> "RUN", command |-> <<c>>, arguments |-> <<>>]
    BY Zenon, <1>8, <1>9, <2>2
  <2> QED BY <2>3, <1>10
<1>11. CASE n > 0
  <2>1. in[2] = rest[1] /\ 2 \in 1 .. Len(in)
    BY <1>7, <1>11
  <2>2. 2 \in marks /\ marks \subseteq Nat /\ \A j \in marks : 2 <= j
    <3>1. 1 \notin marks
      BY <1>7, <1>a DEF At
    <3>2. in[2] \in {"?", "="}
      BY Zenon, <1>s, <1>11, <2>1
    <3> QED BY <2>1, <3>1, <3>2 DEF At
  <2>3. marks # {}
    BY Zenon, <2>2
  <2> HIDE DEF marks
  <2>4. pos = 2
    BY Zenon, <2>2, <2>3, LeastIs
  <2>5. type = IF rest[1] = "=" THEN "WRITE" ELSE "READ"
    BY Zenon, <2>1, <2>3, <2>4
  <2> HIDE DEF type, pos
  <2>6. SubSeq(in, 2 + 1, n + 1) = Tail(rest)
    <3> DEFINE x == SubSeq(in, 2 + 1, n + 1)
               y == Tail(rest)
    <3>1. x \in Seq(Pieces) /\ Len(x) = n - 1 /\ \A j \in 1 .. n - 1 : x[j] = in[j + 2]
      <4>1. 2 \in Nat /\ n + 1 \in Nat /\ n + 1 <= Len(in) /\ (n + 1) - 2 = n - 1 /\ 2 <= n + 1
        BY <1>0, <1>7, <1>11
      <4>2. /\ x \in Seq(Pieces) /\ Len(x) = (n + 1) - 2
            /\ \A j \in 1 .. (n + 1) - 2 : x[j] = in[2 + j]
        BY <1>7, <4>1, SubLine
      <4>3. \A j \in 1 .. n - 1 : 2 + j = j + 2
        BY <1>0
      <4> QED BY Zenon, <4>1, <4>2, <4>3
    <3>2. y \in Seq(Pieces) /\ Len(y) = n - 1 /\ \A j \in 1 .. n - 1 : y[j] = rest[j + 1]
      BY <1>11
    <3>3. \A j \in 1 .. n - 1 : in[j + 2] = rest[j + 1]
      <4> TAKE j \in 1 .. n - 1
      <4>1. j + 1 \in 1 .. n /\ (j + 1) + 1 = j + 2
        BY <1>0
      <4> QED BY Zenon, <4>1, <1>7
    <3>4. n - 1 \in Nat
      BY <1>0, <1>11
    <3> HIDE DEF x, y
    <3>5. \A j \in 1 .. n - 1 : x[j] = y[j]
      BY Zenon, <3>1, <3>2, <3>3
    <3>6. x = y
      BY <3>1, <3>2, <3>4, <3>5, SameLine
    <3> QED BY Zenon, <3>6 DEF x, y
  <2>7. pos - 1 = 1 /\ pos + 1 = 2 + 1 /\ Len(in) = n + 1
    BY <1>7, <2>4
  <2>8. CASE rest[1] = "="
    <3>1. type = "WRITE"
      BY <2>5, <2>8
    <3>2. parse(s) = [type |-> "WRITE", command |-> <<c>>, arguments |-> Split(Tail(rest))]
      BY Zenon, <1>8, <1>9, <2>6, <2>7, <3>1
    <3> QED BY <3>2, <2>8, <1>11
  <2>9. CASE rest[1] # "="
    <3>1. type = "READ" /\ type # "WRITE"
      BY <2>5, <2>9
    <3>2. parse(s) = [type |-> "READ", command |-> <<c>>, arguments |-> <<>>]
      BY Zenon, <1>8, <1>9, <2>7, <3>1
    <3> QED BY <3>2, <2>9, <1>11
  <2> QED BY <2>8, <2>9
<1> QED BY <1>0, <1>10, <1>11

-----------------------------------------------------------------------------
(* The arguments of a line *)

\* Of numbers that grow with their index there are k up to the k-th.
LEMMA Counted ==
  ASSUME NEW k \in Nat, NEW f \in [1 .. k -> Nat], \A m, n \in 1 .. k : m < n => f[m] < f[n]
  PROVE  Cardinality({f[m] : m \in 1 .. k}) = k
<1> DEFINE T == {f[m] : m \in 1 .. k}
<1>1. IsFiniteSet(1 .. k) /\ Cardinality(1 .. k) = k
  BY FS_Interval
<1>2. f \in [1 .. k -> T]
  OBVIOUS
<1>3. ASSUME NEW m \in 1 .. k, NEW n \in 1 .. k, f[m] = f[n] PROVE m = n
  <2>1. ~ (m < n) /\ ~ (n < m)
    BY <1>3
  <2> QED BY <2>1
<1>4. \A t \in T : \E m \in 1 .. k : f[m] = t
  OBVIOUS
<1> HIDE DEF T
<1>5. f \in Injection(1 .. k, T)
  BY Zenon, <1>2, <1>3 DEF Injection, IsInjective
<1>6. f \in Surjection(1 .. k, T)
  BY Zenon, <1>2, <1>4 DEF Surjection
<1>7. ExistsBijection(1 .. k, T)
  BY Zenon, <1>5, <1>6 DEF ExistsBijection, Bijection
<1>8. Cardinality(T) = Cardinality(1 .. k)
  BY Zenon, <1>1, <1>7, FS_Bijection
<1> QED BY Zenon, <1>1, <1>8 DEF T

LEMMA ArgumentIs ==
  ASSUME NEW a \in Argument, a # <<>>
  PROVE  Len(a) = 1 /\ a[1] \in Pieces \ {"SPACE", ","} /\ a = <<a[1]>>
<1>1. PICK w \in Pieces \ {"SPACE", ","} : a = <<w>>
  BY Zenon DEF Argument
<1>2. Len(<<w>>) = 1 /\ <<w>>[1] = w
  OBVIOUS
<1> QED BY Zenon, <1>1, <1>2

LEMMA StartIs ==
  ASSUME NEW args \in Seq(Argument)
  PROVE  /\ Start(args, 1) = 1
         /\ \A k \in 1 .. Len(args) + 1 : Start(args, k) \in Nat
         /\ \A k \in 1 .. Len(args) :
              Start(args, k + 1) = IF args[k] = <<>> THEN Start(args, k) + 1 ELSE Start(args, k) + 2
         /\ \A j, k \in 1 .. Len(args) + 1 : j < k => Start(args, j) < Start(args, k)
<1> DEFINE N == Len(args)
           Full(k) == {j \in 1 .. k - 1 : args[j] # <<>>}
           S(k) == Start(args, k)
<1>0. N \in Nat
  OBVIOUS
<1>1. ASSUME NEW k \in 1 .. N + 1
      PROVE  IsFiniteSet(Full(k)) /\ Cardinality(Full(k)) \in Nat
  <2>1. IsFiniteSet(1 .. k - 1)
    BY <1>0, FS_Interval
  <2>2. Full(k) \subseteq 1 .. k - 1
    OBVIOUS
  <2>3. IsFiniteSet(Full(k))
    BY Zenon, <2>1, <2>2, FS_Subset
  <2> QED BY Zenon, <2>3, FS_CardinalityType
<1>2. \A k : S(k) = k + Cardinality(Full(k))
  BY Zenon DEF Start
<1>3. S(1) = 1
  <2>1. Full(1) = {}
    OBVIOUS
  <2>2. Cardinality(Full(1)) = 0
    BY Zenon, <2>1, FS_EmptySet
  <2>3. S(1) = 1 + 0
    BY Zenon, <1>2, <2>2
  <2> HIDE DEF S
  <2> QED BY <2>3
<1>4. ASSUME NEW k \in 1 .. N + 1 PROVE S(k) \in Nat
  <2> HIDE DEF Full
  <2>1. Cardinality(Full(k)) \in Nat
    BY Zenon, <1>1
  <2>2. k \in Nat
    BY <1>0
  <2>3. k + Cardinality(Full(k)) \in Nat
    BY <2>1, <2>2
  <2> QED BY Zenon, <1>2, <2>3
<1>5. ASSUME NEW k \in 1 .. N
      PROVE  S(k + 1) = IF args[k] = <<>> THEN S(k) + 1 ELSE S(k) + 2
  <2>0. k \in 1 .. N + 1 /\ k \in Nat /\ (k + 1) - 1 = k
    BY <1>0
  <2>1. CASE args[k] = <<>>
    <3>1. Full(k + 1) = Full(k)
      BY <2>1, <2>0
    <3> HIDE DEF Full
    <3>2. Cardinality(Full(k)) \in Nat
      BY Zenon, <1>1, <2>0
    <3>3. S(k + 1) = (k + 1) + Cardinality(Full(k)) /\ S(k) = k + Cardinality(Full(k))
      BY Zenon, <1>2, <3>1
    <3> HIDE DEF S
    <3>4. S(k + 1) = S(k) + 1
      BY <2>0, <3>2, <3>3
    <3> QED BY Zenon, <2>1, <3>4
  <2>2. CASE args[k] # <<>>
    <3>1. Full(k + 1) = Full(k) \cup {k} /\ k \notin Full(k)
      BY <2>2, <2>0
    <3> HIDE DEF Full
    <3>2. Cardinality(Full(k)) \in Nat /\ IsFiniteSet(Full(k))
      BY Zenon, <1>1, <2>0
    <3>3. Cardinality(Full(k + 1)) = Cardinality(Full(k)) + 1
      BY Zenon, <3>1, <3>2, FS_AddElement
    <3>4. S(k + 1) = (k + 1) + (Cardinality(Full(k)) + 1) /\ S(k) = k + Cardinality(Full(k))
      BY Zenon, <1>2, <3>3
    <3> HIDE DEF S
    <3>5. S(k + 1) = S(k) + 2
      BY <2>0, <3>2, <3>4
    <3> QED BY Zenon, <2>2, <3>5
  <2> QED BY <2>1, <2>2
<1>6. ASSUME NEW j \in 1 .. N + 1, NEW k \in 1 .. N + 1, j < k PROVE S(j) < S(k)
  <2>1. Full(j) \subseteq Full(k)
    BY <1>6
  <2> HIDE DEF Full
  <2>2. Cardinality(Full(j)) <= Cardinality(Full(k))
    BY Zenon, <1>1, <2>1, FS_Subset
  <2>3. Cardinality(Full(j)) \in Nat /\ Cardinality(Full(k)) \in Nat
    BY Zenon, <1>1
  <2>4. S(j) = j + Cardinality(Full(j)) /\ S(k) = k + Cardinality(Full(k))
    BY Zenon, <1>2
  <2> HIDE DEF S
  <2> QED BY <1>6, <2>2, <2>3, <2>4
<1> QED BY Zenon, <1>3, <1>4, <1>5, <1>6

\* Which piece of a line is which: the argument at its start, the comma behind it.
LEMMA JoinedIs ==
  ASSUME NEW args \in Seq(Argument), Len(args) > 0
  PROVE  /\ Joined(args) \in Seq(Pieces) /\ Len(Joined(args)) = Start(args, Len(args) + 1) - 2
         /\ \A i \in 1 .. Len(Joined(args)) : \E k \in 1 .. Len(args) :
              /\ Start(args, k) <= i /\ i < Start(args, k + 1)
              /\ Joined(args)[i] = IF args[k] # <<>> /\ i = Start(args, k) THEN args[k][1] ELSE ","
<1> DEFINE N == Len(args)
           S(k) == Start(args, k)
           L == S(N + 1) - 2
           Began(i) == {j \in 1 .. N : S(j) <= i}
           K(i) == Most(Began(i))
           V(i) == IF args[K(i)] # <<>> /\ i = S(K(i)) THEN args[K(i)][1] ELSE ","
<1>0. N \in Nat /\ 1 <= N
  OBVIOUS
<1>1. /\ S(1) = 1 /\ \A k \in 1 .. N + 1 : S(k) \in Nat
      /\ \A k \in 1 .. N : S(k + 1) = IF args[k] = <<>> THEN S(k) + 1 ELSE S(k) + 2
  BY Zenon, StartIs
<1>2. \A j, k \in 1 .. N + 1 : j < k => S(j) < S(k)
  BY Zenon, StartIs
<1>3. Joined(args) = [i \in 1 .. L |-> V(i)]
  BY Zenon DEF Joined
<1> HIDE DEF S
<1>4. L \in Nat
  <2>1. N \in 1 .. N /\ N \in 1 .. N + 1 /\ (N = 1 \/ 1 < N)
    BY <1>0
  <2>2. S(N) \in Nat /\ S(N) >= 1
    BY <1>0, <1>1, <1>2, <2>1
  <2>3. S(N + 1) \in {S(N) + 1, S(N) + 2}
    BY Zenon, <1>1, <2>1
  <2> QED BY <2>2, <2>3
<1>5. ASSUME NEW i \in 1 .. L
      PROVE  K(i) \in 1 .. N /\ S(K(i)) <= i /\ i < S(K(i) + 1)
  <2> DEFINE B == Began(i)
             k == K(i)
  <2>1. B \subseteq 1 .. N /\ 1 \in B
    <3>1. 1 \in 1 .. N /\ 1 <= i
      BY <1>0
    <3> QED BY <3>1, <1>1
  <2>2. k \in B /\ \A j \in B : k >= j
    <3> HIDE DEF B
    <3>1. B # {}
      BY <2>1
    <3> QED BY Zenon, <1>0, <2>1, <3>1, MostIn DEF B
  <2>3. k \in 1 .. N /\ S(k) <= i
    BY Zenon, <2>2
  <2>4. \A j \in 1 .. N : S(j) <= i => k >= j
    BY Zenon, <2>2
  <2> HIDE DEF k
  <2>5. i < S(k + 1)
    <3>1. CASE k = N
      <4>1. S(N + 1) \in Nat
        BY <1>0, <1>1
      <4>2. i < S(N + 1)
        BY <4>1
      <4> QED BY Zenon, <3>1, <4>2
    <3>2. CASE k < N
      <4>1. k + 1 \in 1 .. N /\ k + 1 \in 1 .. N + 1 /\ ~ (k >= k + 1)
        BY <1>0, <2>3, <3>2
      <4>2. S(k + 1) \in Nat /\ ~ (S(k + 1) <= i)
        BY Zenon, <1>1, <2>4, <4>1
      <4> QED BY <4>2, <1>4
    <3> QED BY <1>0, <2>3, <3>1, <3>2
  <2> QED BY Zenon, <2>3, <2>5 DEF k
<1>6. \A k \in 1 .. N : args[k] \in Argument
  OBVIOUS
<1>7. "," \in Pieces
  BY DEF Pieces, Marks
<1>8. ASSUME NEW i \in 1 .. L PROVE V(i) \in Pieces
  <2> DEFINE k == K(i)
  <2>1. k \in 1 .. N
    BY Zenon, <1>5
  <2> HIDE DEF k
  <2>2. args[k] # <<>> => args[k][1] \in Pieces
    BY Zenon, <1>6, <2>1, ArgumentIs
  <2> QED BY Zenon, <1>7, <2>2 DEF k
<1> HIDE DEF L, V
<1>9. Joined(args) \in Seq(Pieces) /\ Len(Joined(args)) = L
      /\ \A i \in 1 .. L : Joined(args)[i] = V(i)
  <2> DEFINE f == [i \in 1 .. L |-> V(i)]
  <2>1. f \in [1 .. L -> Pieces]
    BY <1>8
  <2>2. \A i \in 1 .. L : f[i] = V(i)
    OBVIOUS
  <2> HIDE DEF f
  <2>3. f \in Seq(Pieces) /\ Len(f) = L
    BY <1>4, <2>1
  <2> QED BY Zenon, <1>3, <2>2, <2>3 DEF f
<1>10. ASSUME NEW i \in 1 .. L
       PROVE  \E k \in 1 .. N :
                /\ S(k) <= i /\ i < S(k + 1)
                /\ Joined(args)[i] = IF args[k] # <<>> /\ i = S(k) THEN args[k][1] ELSE ","
  BY Zenon, <1>5, <1>9 DEF V
<1> QED BY Zenon, <1>9, <1>10 DEF S, L

\* The piece at a position, from the argument that lies there.
LEMMA PieceAt ==
  ASSUME NEW args \in Seq(Argument), NEW k \in 1 .. Len(args),
         NEW i \in 1 .. Start(args, Len(args) + 1) - 2,
         Start(args, k) <= i, i < Start(args, k + 1)
  PROVE  Joined(args)[i] = IF args[k] # <<>> /\ i = Start(args, k) THEN args[k][1] ELSE ","
<1> DEFINE N == Len(args)
           S(m) == Start(args, m)
<1>0. N \in Nat /\ N > 0 /\ k \in 1 .. N
  OBVIOUS
<1>1. /\ \A m \in 1 .. N + 1 : S(m) \in Nat
      /\ \A m, n \in 1 .. N + 1 : m < n => S(m) < S(n)
  BY Zenon, StartIs
<1>2. PICK m \in 1 .. N :
        /\ S(m) <= i /\ i < S(m + 1)
        /\ Joined(args)[i] = IF args[m] # <<>> /\ i = S(m) THEN args[m][1] ELSE ","
  BY Zenon, <1>0, JoinedIs
<1>3. S(k) <= i /\ i < S(k + 1)
  OBVIOUS
<1> HIDE DEF S
<1>4. m = k
  <2>0. m \in 1 .. N + 1 /\ k \in 1 .. N + 1 /\ m + 1 \in 1 .. N + 1 /\ k + 1 \in 1 .. N + 1
    BY <1>0
  <2>a. S(m) \in Nat /\ S(k) \in Nat /\ S(m + 1) \in Nat /\ S(k + 1) \in Nat
    BY Zenon, <1>1, <2>0
  <2>b. S(m) <= i /\ i < S(m + 1) /\ S(k) <= i /\ i < S(k + 1) /\ i \in Nat
    <3>1. i \in Nat
      OBVIOUS
    <3> QED BY Zenon, <3>1, <1>2, <1>3
  <2>1. CASE m < k
    <3>1. m + 1 < k \/ m + 1 = k
      BY <1>0, <2>1
    <3>2. S(m + 1) < S(k) \/ S(m + 1) = S(k)
      BY Zenon, <3>1, <1>1, <2>0
    <3> QED BY <3>2, <2>a, <2>b
  <2>2. CASE k < m
    <3>1. k + 1 < m \/ k + 1 = m
      BY <1>0, <2>2
    <3>2. S(k + 1) < S(m) \/ S(k + 1) = S(m)
      BY Zenon, <3>1, <1>1, <2>0
    <3> QED BY <3>2, <2>a, <2>b
  <2> QED BY <1>0, <2>1, <2>2
<1> QED BY Zenon, <1>2, <1>4 DEF S

LEMMA CommasIs ==
  ASSUME NEW args \in Seq(Argument), Len(args) > 0
  PROVE  At(Joined(args), {","}) = {Start(args, k + 1) - 1 : k \in 1 .. Len(args) - 1}
<1> DEFINE N == Len(args)
           S(m) == Start(args, m)
           s == Joined(args)
           L == S(N + 1) - 2
<1>0. N \in Nat /\ N > 0
  OBVIOUS
<1>1. /\ S(1) = 1
      /\ \A m \in 1 .. N + 1 : S(m) \in Nat
      /\ \A m \in 1 .. N : S(m + 1) = IF args[m] = <<>> THEN S(m) + 1 ELSE S(m) + 2
      /\ \A m, n \in 1 .. N + 1 : m < n => S(m) < S(n)
  BY Zenon, StartIs
<1>2. /\ Len(s) = L
      /\ \A i \in 1 .. L : \E k \in 1 .. N :
           /\ S(k) <= i /\ i < S(k + 1)
           /\ s[i] = IF args[k] # <<>> /\ i = S(k) THEN args[k][1] ELSE ","
  BY Zenon, <1>0, JoinedIs
<1>3. \A k \in 1 .. N, i \in 1 .. L :
        S(k) <= i /\ i < S(k + 1)
          => s[i] = IF args[k] # <<>> /\ i = S(k) THEN args[k][1] ELSE ","
  BY Zenon, PieceAt
<1>4. \A k \in 1 .. N : args[k] # <<>> => args[k][1] # ","
  <2> TAKE k \in 1 .. N
  <2>1. args[k] \in Argument
    OBVIOUS
  <2>2. args[k] # <<>> => args[k][1] \in Pieces \ {"SPACE", ","}
    BY Zenon, <2>1, ArgumentIs
  <2> QED BY Zenon, <2>2
<1> HIDE DEF S, s
<1>5. ASSUME NEW i \in 1 .. L, s[i] = ","
      PROVE  \E k \in 1 .. N - 1 : i = S(k + 1) - 1
  <2>1. PICK k \in 1 .. N :
           /\ S(k) <= i /\ i < S(k + 1)
           /\ s[i] = IF args[k] # <<>> /\ i = S(k) THEN args[k][1] ELSE ","
    BY Zenon, <1>2
  <2>2. ~ (args[k] # <<>> /\ i = S(k))
    BY Zenon, <1>4, <1>5, <2>1
  <2>3. S(k) \in Nat /\ S(k + 1) = IF args[k] = <<>> THEN S(k) + 1 ELSE S(k) + 2
    <3>1. k \in 1 .. N + 1
      BY <1>0
    <3> QED BY Zenon, <1>1, <3>1
  <2>4. i = S(k + 1) - 1
    <3>1. S(k) <= i /\ i < S(k + 1)
      BY Zenon, <2>1
    <3> QED BY <2>2, <2>3, <3>1
  <2>5. k # N
    <3>1. SUFFICES ASSUME k = N PROVE FALSE
      OBVIOUS
    <3>2. i = S(N + 1) - 1
      BY Zenon, <2>4, <3>1
    <3>3. S(N + 1) \in Nat
      BY <1>0, <1>1
    <3> QED BY <3>2, <3>3
  <2>6. k \in 1 .. N - 1
    BY <1>0, <2>5
  <2> QED BY Zenon, <2>4, <2>6
<1>6. ASSUME NEW k \in 1 .. N - 1
      PROVE  S(k + 1) - 1 \in 1 .. L /\ s[S(k + 1) - 1] = ","
  <2> DEFINE i == S(k + 1) - 1
  <2>0. k \in 1 .. N /\ k \in 1 .. N + 1 /\ k + 1 \in 1 .. N + 1 /\ N + 1 \in 1 .. N + 1
        /\ k + 1 < N + 1 /\ 1 \in 1 .. N + 1 /\ (k = 1 \/ 1 < k)
    BY <1>0
  <2>1. /\ S(k) \in Nat /\ S(k + 1) \in Nat /\ S(N + 1) \in Nat /\ S(k + 1) < S(N + 1)
        /\ S(k + 1) = IF args[k] = <<>> THEN S(k) + 1 ELSE S(k) + 2
        /\ (S(k) = 1 \/ 1 < S(k))
    BY Zenon, <1>1, <2>0
  <2>2. i \in 1 .. L /\ S(k) <= i /\ i < S(k + 1)
    BY <2>1
  <2>3. s[i] = IF args[k] # <<>> /\ i = S(k) THEN args[k][1] ELSE ","
    BY Zenon, <1>3, <2>0, <2>2
  <2>4. ~ (args[k] # <<>> /\ i = S(k))
    BY <2>1
  <2> QED BY Zenon, <2>2, <2>3, <2>4
<1> DEFINE T == {S(k + 1) - 1 : k \in 1 .. N - 1}
<1>7. At(s, {","}) = {i \in 1 .. L : s[i] = ","}
  BY Zenon, <1>2 DEF At
<1> HIDE DEF L
<1>8. At(s, {","}) = T
  <2>1. ASSUME NEW i \in At(s, {","}) PROVE i \in T
    BY Zenon, <1>5, <1>7
  <2>2. ASSUME NEW i \in T PROVE i \in At(s, {","})
    BY Zenon, <1>6, <1>7
  <2> QED BY Zenon, <2>1, <2>2
<1> QED BY Zenon, <1>8 DEF S, s

\* What is between two commas is the argument that was written there, and there
\* are as many of them.
LEMMA SplitJoined ==
  ASSUME NEW args \in Seq(Argument), Len(args) > 0
  PROVE  Split(Joined(args)) = args
<1> DEFINE N == Len(args)
           S(m) == Start(args, m)
           s == Joined(args)
           L == S(N + 1) - 2
           P(k) == S(k + 1) - 1
           commas == At(s, {","})
           Cut(k) == CASE k = 0 -> 0
                       [] k > Cardinality(commas) -> Len(s) + 1
                       [] OTHER -> CHOOSE i \in commas :
                                     Cardinality({j \in commas : j <= i}) = k
<1>0. N \in Nat /\ N > 0
  OBVIOUS
<1>1. /\ S(1) = 1
      /\ \A m \in 1 .. N + 1 : S(m) \in Nat
      /\ \A m \in 1 .. N : S(m + 1) = IF args[m] = <<>> THEN S(m) + 1 ELSE S(m) + 2
      /\ \A m, n \in 1 .. N + 1 : m < n => S(m) < S(n)
  BY Zenon, StartIs
<1>2. s \in Seq(Pieces) /\ Len(s) = L
  BY Zenon, <1>0, JoinedIs
<1>3. \A k \in 1 .. N, i \in 1 .. L :
        S(k) <= i /\ i < S(k + 1)
          => s[i] = IF args[k] # <<>> /\ i = S(k) THEN args[k][1] ELSE ","
  BY Zenon, PieceAt
<1>4. commas = {P(k) : k \in 1 .. N - 1}
  BY Zenon, <1>0, CommasIs
<1>5. \A k \in 1 .. N : args[k] # <<>> => args[k] = <<args[k][1]>> /\ Len(args[k]) = 1
  <2> TAKE k \in 1 .. N
  <2>1. args[k] \in Argument
    OBVIOUS
  <2> QED BY Zenon, <2>1, ArgumentIs
<1>6. Split(s) = [k \in 1 .. Cardinality(commas) + 1 |-> SubSeq(s, Cut(k - 1) + 1, Cut(k) - 1)]
  BY Zenon DEF Split
<1> HIDE DEF S, s, commas
<1>7. /\ \A k \in 0 .. N : P(k) \in Nat
      /\ \A k, m \in 0 .. N : m < k => P(m) < P(k)
  <2>1. ASSUME NEW k \in 0 .. N PROVE P(k) \in Nat
    <3>1. k + 1 \in 1 .. N + 1 /\ 1 \in 1 .. N + 1 /\ (k + 1 = 1 \/ 1 < k + 1)
      BY <1>0
    <3>2. S(k + 1) \in Nat /\ (S(k + 1) = 1 \/ 1 < S(k + 1))
      BY Zenon, <3>1, <1>1
    <3> QED BY <3>2
  <2>2. ASSUME NEW k \in 0 .. N, NEW m \in 0 .. N, m < k PROVE P(m) < P(k)
    <3>1. k + 1 \in 1 .. N + 1 /\ m + 1 \in 1 .. N + 1 /\ m + 1 < k + 1
      BY <1>0, <2>2
    <3>2. S(k + 1) \in Nat /\ S(m + 1) \in Nat /\ S(m + 1) < S(k + 1)
      BY Zenon, <3>1, <1>1
    <3> QED BY <3>2
  <2> QED BY Zenon, <2>1, <2>2
<1>8. P(0) = 0 /\ P(N) = L + 1
  BY <1>0, <1>1
<1>9. \A k \in 1 .. N : (P(k - 1) + 1) = S(k)
  <2> TAKE k \in 1 .. N
  <2>1. (k - 1) + 1 = k /\ k \in 1 .. N + 1
    BY <1>0
  <2>2. S(k) \in Nat
    BY Zenon, <2>1, <1>1
  <2>3. P(k - 1) = S(k) - 1
    BY Zenon, <2>1
  <2> HIDE DEF P
  <2> QED BY <2>2, <2>3
<1>10. ASSUME NEW k \in 1 .. N - 1
       PROVE  Cardinality({j \in commas : j <= P(k)}) = k
  <2> DEFINE f == [m \in 1 .. k |-> P(m)]
             T == {f[m] : m \in 1 .. k}
  <2>0. 1 .. k \subseteq 1 .. N - 1 /\ 1 .. k \subseteq 0 .. N /\ k \in Nat
    BY <1>0
  <2> HIDE DEF P
  <2>1. f \in [1 .. k -> Nat]
    BY <2>0, <1>7
  <2>2. \A m, n \in 1 .. k : m < n => f[m] < f[n]
    BY <2>0, <1>7
  <2>3. \A m \in 1 .. k : f[m] = P(m)
    OBVIOUS
  <2> HIDE DEF f
  <2>4. Cardinality(T) = k
    BY Zenon, <2>0, <2>1, <2>2, Counted
  <2>5. ASSUME NEW m \in 1 .. N - 1 PROVE P(m) <= P(k) <=> m \in 1 .. k
    <3>0. m \in 0 .. N /\ k \in 0 .. N
      BY <1>0
    <3>1. P(m) \in Nat /\ P(k) \in Nat /\ (m < k => P(m) < P(k)) /\ (k < m => P(k) < P(m))
      BY Zenon, <3>0, <1>7
    <3>2. CASE m < k
      BY <3>1, <3>2
    <3>3. CASE m = k
      BY <3>1, <3>3
    <3>4. CASE k < m
      BY <3>1, <3>4
    <3> QED BY <3>2, <3>3, <3>4
  <2>6. {j \in commas : j <= P(k)} = T
    <3>1. ASSUME NEW j \in commas, j <= P(k) PROVE j \in T
      <4>1. PICK m \in 1 .. N - 1 : j = P(m)
        BY Zenon, <1>4
      <4>2. m \in 1 .. k
        BY Zenon, <4>1, <3>1, <2>5
      <4> QED BY Zenon, <4>1, <4>2, <2>3
    <3>2. ASSUME NEW m \in 1 .. k PROVE f[m] \in commas /\ f[m] <= P(k)
      <4>1. m \in 1 .. N - 1
        BY Zenon, <2>0
      <4> QED BY Zenon, <4>1, <2>3, <2>5, <1>4
    <3> QED BY Zenon, <3>1, <3>2
  <2> QED BY Zenon, <2>4, <2>6
<1>11. Cardinality(commas) = N - 1
  <2>1. CASE N = 1
    <3>1. commas = {}
      BY <1>4, <2>1
    <3>2. Cardinality(commas) = 0
      BY Zenon, <3>1, FS_EmptySet
    <3> QED BY <3>2, <2>1
  <2>2. CASE N > 1
    <3> DEFINE k == N - 1
    <3>1. k \in 1 .. N - 1 /\ \A m \in 1 .. N - 1 : m < k \/ m = k
      BY <1>0, <2>2
    <3>2. \A m \in 1 .. N - 1 : m \in 0 .. N
      BY <1>0
    <3>3. \A m \in 1 .. N - 1 : P(m) \in Nat /\ P(k) \in Nat /\ (P(m) < P(k) \/ P(m) = P(k))
      BY Zenon, <3>1, <3>2, <1>7
    <3> HIDE DEF P, k
    <3>4. \A m \in 1 .. N - 1 : P(m) <= P(k)
      BY <3>3
    <3>5. {j \in commas : j <= P(k)} = commas
      BY Zenon, <3>4, <1>4
    <3>6. Cardinality({j \in commas : j <= P(k)}) = k
      BY Zenon, <3>1, <1>10 DEF k
    <3> QED BY Zenon, <3>5, <3>6 DEF k
  <2>3. N = 1 \/ N > 1
    <3> HIDE DEF N
    <3> QED BY <1>0
  <2> QED BY Zenon, <2>1, <2>2, <2>3
<1>12. ASSUME NEW k \in 0 .. N PROVE Cut(k) = P(k)
  <2>1. CASE k = 0
    <3>1. ~ (k > N - 1)
      BY <1>0, <2>1
    <3>2. Cut(k) = 0
      BY Zenon, <2>1, <3>1, <1>11
    <3> QED BY Zenon, <2>1, <3>2, <1>8
  <2>2. CASE k = N
    <3>1. k # 0 /\ k > N - 1
      BY <2>2, <1>0
    <3>2. Cut(k) = Len(s) + 1
      BY Zenon, <3>1, <1>11
    <3> QED BY Zenon, <3>2, <2>2, <1>2, <1>8
  <2>3. CASE k \in 1 .. N - 1
    <3>1. k # 0 /\ ~ (k > N - 1)
      BY <2>3, <1>0
    <3>2. P(k) \in commas /\ Cardinality({j \in commas : j <= P(k)}) = k
      BY Zenon, <2>3, <1>4, <1>10
    <3>3. \A i \in commas : Cardinality({j \in commas : j <= i}) = k => i = P(k)
      <4> TAKE i \in commas
      <4>1. PICK m \in 1 .. N - 1 : i = P(m)
        BY Zenon, <1>4
      <4>2. Cardinality({j \in commas : j <= i}) = m
        BY Zenon, <4>1, <1>10
      <4> QED BY Zenon, <4>1, <4>2
    <3>4. (CHOOSE i \in commas : Cardinality({j \in commas : j <= i}) = k) = P(k)
      BY Zenon, <3>2, <3>3
    <3> QED BY Zenon, <3>1, <3>4, <1>11
  <2> QED BY <1>0, <2>1, <2>2, <2>3
<1>13. ASSUME NEW k \in 1 .. N
       PROVE  SubSeq(s, Cut(k - 1) + 1, Cut(k) - 1) = args[k]
  <2>0. k \in 0 .. N /\ k - 1 \in 0 .. N /\ k \in 1 .. N + 1 /\ k + 1 \in 1 .. N + 1
    BY <1>0
  <2>1. Cut(k - 1) + 1 = S(k) /\ Cut(k) = S(k + 1) - 1
    BY Zenon, <2>0, <1>9, <1>12
  <2>2. /\ S(k) \in Nat /\ S(k + 1) \in Nat
        /\ S(k + 1) = IF args[k] = <<>> THEN S(k) + 1 ELSE S(k) + 2
    BY Zenon, <2>0, <1>1
  <2>a. S(k) >= 1 /\ S(k + 1) <= L + 2
    <3>1. 1 \in 1 .. N + 1 /\ N + 1 \in 1 .. N + 1 /\ (k = 1 \/ 1 < k)
          /\ (k + 1 = N + 1 \/ k + 1 < N + 1)
      BY <1>0
    <3>2. /\ (S(k) = 1 \/ 1 < S(k)) /\ S(N + 1) \in Nat
          /\ (S(k + 1) = S(N + 1) \/ S(k + 1) < S(N + 1))
      BY Zenon, <3>1, <2>0, <1>1
    <3> QED BY <3>2, <2>2
  <2> HIDE DEF Cut, P, L
  <2>3. CASE args[k] = <<>>
    <3>1. Cut(k) - 1 < S(k) /\ S(k) \in Int /\ Cut(k) - 1 \in Int
      BY <2>1, <2>2, <2>3
    <3>2. SubSeq(s, S(k), Cut(k) - 1) = <<>>
      BY Zenon, <3>1, SubSeqEmpty
    <3> QED BY Zenon, <3>2, <2>1, <2>3
  <2>4. CASE args[k] # <<>>
    <3> DEFINE a == S(k)
    <3>1. a \in Nat /\ a >= 1 /\ S(k + 1) = a + 2 /\ Cut(k) - 1 = a
      BY <2>1, <2>2, <2>4, <2>a
    <3>2. a <= L /\ L \in Nat /\ a \in 1 .. L /\ S(k) <= a /\ a < S(k + 1)
      <4>1. L \in Int
        BY <1>0, <1>1 DEF L
      <4> QED BY <3>1, <2>a, <4>1
    <3>3. s[a] = args[k][1]
      BY Zenon, <1>3, <2>4, <3>2
    <3> HIDE DEF a
    <3>4. SubSeq(s, a, a) = <<s[a]>>
      <4> DEFINE x == SubSeq(s, a, a)
      <4>1. x \in Seq(Pieces) /\ Len(x) = 1 /\ x[1] = s[a]
        BY <1>2, <3>1, <3>2
      <4> HIDE DEF x
      <4>2. x = <<s[a]>>
        BY <4>1
      <4> QED BY Zenon, <4>2 DEF x
    <3>5. args[k] = <<args[k][1]>>
      BY Zenon, <1>5, <2>4
    <3> QED BY Zenon, <2>1, <3>1, <3>3, <3>4, <3>5 DEF a
  <2> QED BY <2>3, <2>4
<1>14. Cardinality(commas) + 1 = N
  BY <1>0, <1>11
<1> HIDE DEF Cut
<1>15. Split(s) = [k \in 1 .. N |-> args[k]]
  BY Zenon, <1>6, <1>13, <1>14
<1>16. args = [k \in 1 .. N |-> args[k]]
  OBVIOUS
<1> QED BY Zenon, <1>15, <1>16 DEF s

LEMMA TwoLines ==
  ASSUME NEW x \in Seq(Pieces), NEW y \in Seq(Pieces)
  PROVE  /\ x \o y \in Seq(Pieces) /\ Len(x \o y) = Len(x) + Len(y)
         /\ \A i \in 1 .. Len(x) + Len(y) : (x \o y)[i] = IF i <= Len(x) THEN x[i] ELSE y[i - Len(x)]
  BY ConcatProperties

\* A request as it is typed, piece by piece.
Padded(lead, c, rest, trail) == lead \o (<<"AT+", c>> \o rest) \o trail

IsPadded(line, lead, c, rest, trail) ==
  /\ line \in Seq(Pieces) /\ Len(line) = Len(lead) + 2 + Len(rest) + Len(trail)
  /\ \A j \in 1 .. Len(lead) : line[j] = lead[j]
  /\ line[Len(lead) + 1] = "AT+" /\ line[Len(lead) + 2] = c
  /\ \A j \in 1 .. Len(rest) : line[Len(lead) + 2 + j] = rest[j]
  /\ \A j \in 1 .. Len(trail) : line[Len(lead) + 2 + Len(rest) + j] = trail[j]

LEMMA LineOf ==
  ASSUME NEW lead \in Seq(Pieces), NEW c \in Words, NEW rest \in Seq(Pieces),
         NEW trail \in Seq(Pieces)
  PROVE  IsPadded(Padded(lead, c, rest, trail), lead, c, rest, trail)
<1> DEFINE head == <<"AT+", c>>
           w == head \o rest
           x == lead \o w
           line == x \o trail
           p == Len(lead)
           n == Len(rest)
           q == Len(trail)
<1>0. p \in Nat /\ n \in Nat /\ q \in Nat
  OBVIOUS
<1>a. "AT+" \in Pieces /\ c \in Pieces
  BY Zenon, Spoken DEF Pieces, Marks
<1>1. head \in Seq(Pieces) /\ Len(head) = 2 /\ head[1] = "AT+" /\ head[2] = c
  BY <1>a
<1> HIDE DEF head
<1>2. /\ w \in Seq(Pieces) /\ Len(w) = Len(head) + Len(rest)
      /\ \A i \in 1 .. Len(head) + Len(rest) :
           w[i] = IF i <= Len(head) THEN head[i] ELSE rest[i - Len(head)]
  BY Zenon, <1>1, TwoLines
<1>3. /\ w[1] = "AT+" /\ w[2] = c /\ Len(w) = n + 2
      /\ \A j \in 1 .. n : w[2 + j] = rest[j]
  <2> HIDE DEF w
  <2>1. Len(w) = n + 2 /\ 1 \in 1 .. 2 + n /\ 2 \in 1 .. 2 + n /\ 1 <= 2 /\ 2 <= 2
    BY <1>0, <1>1, <1>2
  <2>2. \A i \in 1 .. 2 + n : w[i] = IF i <= 2 THEN head[i] ELSE rest[i - 2]
    BY Zenon, <1>1, <1>2
  <2>3. \A j \in 1 .. n : 2 + j \in 1 .. 2 + n /\ ~ (2 + j <= 2) /\ (2 + j) - 2 = j
    BY <1>0
  <2>4. ASSUME NEW j \in 1 .. n PROVE w[2 + j] = rest[j]
    BY Zenon, <2>2, <2>3
  <2>5. w[1] = head[1] /\ w[2] = head[2]
    BY Zenon, <2>1, <2>2
  <2> QED BY Zenon, <1>1, <2>1, <2>4, <2>5
<1> HIDE DEF w
<1>4. /\ x \in Seq(Pieces) /\ Len(x) = p + Len(w)
      /\ \A i \in 1 .. p + Len(w) : x[i] = IF i <= p THEN lead[i] ELSE w[i - p]
  BY Zenon, <1>2, TwoLines
<1>5. /\ x \in Seq(Pieces) /\ Len(x) = p + 2 + n
      /\ \A j \in 1 .. p : x[j] = lead[j]
      /\ \A j \in 1 .. n + 2 : x[p + j] = w[j]
  <2> HIDE DEF x, p, n
  <2>1. Len(x) = p + 2 + n
    BY <1>0, <1>3, <1>4
  <2>2. \A j \in 1 .. p : j \in 1 .. p + (n + 2) /\ j <= p
    BY <1>0
  <2>3. \A j \in 1 .. n + 2 : p + j \in 1 .. p + (n + 2) /\ ~ (p + j <= p) /\ (p + j) - p = j
    BY <1>0
  <2>4. \A i \in 1 .. p + (n + 2) : x[i] = IF i <= p THEN lead[i] ELSE w[i - p]
    BY Zenon, <1>3, <1>4
  <2>5. ASSUME NEW j \in 1 .. n + 2 PROVE x[p + j] = w[j]
    BY Zenon, <2>3, <2>4
  <2>6. ASSUME NEW j \in 1 .. p PROVE x[j] = lead[j]
    BY Zenon, <2>2, <2>4
  <2> QED BY Zenon, <1>4, <2>1, <2>5, <2>6
<1> HIDE DEF x
<1>6. /\ line \in Seq(Pieces) /\ Len(line) = Len(x) + q
      /\ \A i \in 1 .. Len(x) + q : line[i] = IF i <= Len(x) THEN x[i] ELSE trail[i - Len(x)]
  BY Zenon, <1>5, TwoLines
<1>7. /\ line \in Seq(Pieces) /\ Len(line) = p + 2 + n + q
      /\ \A j \in 1 .. p + 2 + n : line[j] = x[j]
      /\ \A j \in 1 .. q : line[p + 2 + n + j] = trail[j]
  <2> DEFINE m == p + 2 + n
  <2>0. m \in Nat /\ Len(x) = m
    BY <1>0, <1>5
  <2> HIDE DEF line, q, m
  <2>2. \A j \in 1 .. m : j \in 1 .. m + q /\ j <= m
    BY <1>0, <2>0
  <2>3. \A j \in 1 .. q : m + j \in 1 .. m + q /\ ~ (m + j <= m) /\ (m + j) - m = j
    BY <1>0, <2>0
  <2>4. \A i \in 1 .. m + q : line[i] = IF i <= m THEN x[i] ELSE trail[i - m]
    BY Zenon, <1>6, <2>0
  <2>5. ASSUME NEW j \in 1 .. q PROVE line[m + j] = trail[j]
    BY Zenon, <2>3, <2>4
  <2>6. ASSUME NEW j \in 1 .. m PROVE line[j] = x[j]
    BY Zenon, <2>2, <2>4
  <2> QED BY Zenon, <1>6, <2>0, <2>5, <2>6 DEF m
<1> HIDE DEF line
<1>8. /\ \A j \in 1 .. p : j \in 1 .. p + 2 + n
      /\ p + 1 \in 1 .. p + 2 + n /\ p + 2 \in 1 .. p + 2 + n
      /\ 1 \in 1 .. n + 2 /\ 2 \in 1 .. n + 2
      /\ \A j \in 1 .. n : p + 2 + j \in 1 .. p + 2 + n /\ p + 2 + j = p + (2 + j)
                           /\ 2 + j \in 1 .. n + 2
  BY <1>0
<1>9. \A j \in 1 .. p : line[j] = lead[j]
  BY Zenon, <1>5, <1>7, <1>8
<1>10. line[p + 1] = "AT+" /\ line[p + 2] = c
  BY Zenon, <1>3, <1>5, <1>7, <1>8
<1>11. ASSUME NEW j \in 1 .. n PROVE line[p + 2 + j] = rest[j]
  <2>1. line[p + 2 + j] = x[p + 2 + j]
    BY Zenon, <1>7, <1>8
  <2>2. x[p + 2 + j] = x[p + (2 + j)]
    BY Zenon, <1>8
  <2>3. x[p + (2 + j)] = w[2 + j] /\ w[2 + j] = rest[j]
    BY Zenon, <1>3, <1>5, <1>8
  <2> QED BY Zenon, <2>1, <2>2, <2>3
<1>12. line = Padded(lead, c, rest, trail)
  BY Zenon DEF Padded, line, x, w, head
<1> HIDE DEF line
<1>13. IsPadded(line, lead, c, rest, trail)
  BY Zenon, <1>7, <1>9, <1>10, <1>11 DEF IsPadded
<1> QED BY Zenon, <1>12, <1>13

Rest(r) == CASE r.type = "RUN"   -> <<>>
             [] r.type = "READ"  -> <<"?">>
             [] r.type = "WRITE" -> <<"=">> \o Joined(r.arguments)

\* However a request is padded, it is parsed as it was meant.
LEMMA RequestParsed ==
  ASSUME NEW r, IsRequest(r), NEW line \in Typed(r)
  PROVE  /\ line \in Seq(Pieces)
         /\ parse(line) = [type |-> r.type, command |-> <<r.command>>, arguments |-> r.arguments]
<1> DEFINE rest == Rest(r)
           c == r.command
           n == Len(rest)
<1>0. c \in Words
  BY Zenon DEF IsRequest
<1>a. "SPACE" \in Pieces /\ "TAB" \in Pieces /\ "=" \in Pieces /\ "?" \in Pieces
  BY DEF Pieces, Marks
<1>1. /\ rest \in Seq(Pieces)
      /\ n > 0 => rest[1] \in {"?", "="} /\ rest[n] # "SPACE"
      /\ r.type = IF n = 0 THEN "RUN" ELSE IF rest[1] = "=" THEN "WRITE" ELSE "READ"
      /\ r.arguments = IF n > 0 /\ rest[1] = "=" THEN Split(Tail(rest)) ELSE <<>>
  <2>1. CASE r.type = "RUN"
    <3>1. r.arguments = <<>>
      BY <2>1 DEF IsRequest
    <3>2. rest = <<>>
      BY <2>1 DEF Rest
    <3> HIDE DEF rest
    <3>3. n = 0 /\ rest \in Seq(Pieces)
      BY <3>2
    <3> QED BY <2>1, <3>1, <3>3
  <2>2. CASE r.type = "READ"
    <3>1. r.arguments = <<>>
      BY <2>2 DEF IsRequest
    <3>2. rest = <<"?">>
      BY <2>2 DEF Rest
    <3> HIDE DEF rest
    <3>3. n = 1 /\ rest \in Seq(Pieces) /\ rest[1] = "?"
      BY <1>a, <3>2
    <3> QED BY <2>2, <3>1, <3>3
  <2>3. CASE r.type = "WRITE"
    <3> DEFINE args == r.arguments
               s == Joined(args)
               eq == <<"=">>
    <3>1. args \in Seq(Argument) /\ args # <<>>
      BY <2>3 DEF IsRequest
    <3>2. Len(args) > 0
      <4> HIDE DEF args
      <4> QED BY <3>1
    <3>3. rest = eq \o s
      BY <2>3 DEF Rest
    <3>4. s \in Seq(Pieces) /\ Split(s) = args
      BY Zenon, <3>1, <3>2, JoinedIs, SplitJoined
    <3>5. \A i \in 1 .. Len(s) : s[i] # "SPACE"
      <4> TAKE i \in 1 .. Len(s)
      <4>1. PICK k \in 1 .. Len(args) :
              s[i] = IF args[k] # <<>> /\ i = Start(args, k) THEN args[k][1] ELSE ","
        BY Zenon, <3>1, <3>2, JoinedIs
      <4>2. args[k] \in Argument
        <5> HIDE DEF args
        <5> QED BY <3>1
      <4>3. args[k] # <<>> => args[k][1] # "SPACE"
        <5>1. args[k] # <<>> => args[k][1] \in Pieces \ {"SPACE", ","}
          BY Zenon, <4>2, ArgumentIs
        <5> QED BY Zenon, <5>1
      <4>4. s[i] = "," \/ s[i] # "SPACE"
        BY Zenon, <4>1, <4>3
      <4>5. "," # "SPACE"
        OBVIOUS
      <4> QED BY Zenon, <4>4, <4>5
    <3> HIDE DEF rest, s, args
    <3>6. eq \in Seq(Pieces) /\ Len(eq) = 1 /\ eq[1] = "="
      BY <1>a
    <3> HIDE DEF eq
    <3>7. /\ rest \in Seq(Pieces) /\ n = Len(eq) + Len(s)
          /\ \A i \in 1 .. Len(eq) + Len(s) : rest[i] = IF i <= Len(eq) THEN eq[i] ELSE s[i - Len(eq)]
      BY Zenon, <3>3, <3>4, <3>6, TwoLines
    <3>8. /\ n = 1 + Len(s) /\ Len(s) \in Nat
          /\ \A i \in 1 .. n : rest[i] = IF i <= 1 THEN "=" ELSE s[i - 1]
      <4>1. Len(s) \in Nat
        BY <3>4
      <4>2. \A i \in 1 .. n : i <= 1 => i = 1
        OBVIOUS
      <4> HIDE DEF n
      <4> QED BY Zenon, <3>6, <3>7, <4>1, <4>2
    <3>9. rest[1] = "=" /\ rest[n] # "SPACE"
      <4>1. 1 \in 1 .. n /\ 1 <= 1 /\ n \in 1 .. n /\ (n <= 1 \/ n - 1 \in 1 .. Len(s))
        BY <3>8
      <4>2. "=" # "SPACE"
        OBVIOUS
      <4> HIDE DEF n
      <4> QED BY Zenon, <3>5, <3>8, <4>1, <4>2
    <3>10. Tail(rest) = s
      <4> DEFINE t == Tail(rest)
      <4>1. t \in Seq(Pieces) /\ Len(t) = Len(s) /\ \A i \in 1 .. Len(s) : t[i] = rest[i + 1]
        BY <3>7, <3>8
      <4>2. \A i \in 1 .. Len(s) : i + 1 \in 1 .. n /\ ~ (i + 1 <= 1) /\ (i + 1) - 1 = i
        BY <3>8
      <4> HIDE DEF t, n
      <4>3. \A i \in 1 .. Len(s) : t[i] = s[i]
        BY Zenon, <3>8, <4>1, <4>2
      <4>4. t = s
        BY <3>4, <3>8, <4>1, <4>3, SameLine
      <4> QED BY Zenon, <4>4 DEF t
    <3>11. n > 0 /\ ~ (n = 0)
      BY <3>8
    <3> HIDE DEF n
    <3> QED BY Zenon, <2>3, <3>4, <3>7, <3>9, <3>10, <3>11 DEF args
  <2>4. r.type \in {"RUN", "READ", "WRITE"}
    BY DEF IsRequest
  <2> QED BY Zenon, <2>1, <2>2, <2>3, <2>4
<1>r. rest \in Seq(Pieces)
  BY Zenon, <1>1
<1>2. PICK lead \in Leads, trail \in Blanks :
        line = lead \o Written(r) \o trail
  BY DEF Typed
<1>3. Written(r) = <<"AT+", c>> \o rest
  BY Zenon DEF Written, Rest
<1>4. lead \in Seq(Pieces) /\ \A j \in 1 .. Len(lead) : lead[j] \in {"SPACE", "TAB"}
  <2>1. lead = <<>> \/ lead = <<"SPACE">> \/ lead = <<"TAB">>
    BY Zenon DEF Leads, Blanks
  <2>2. CASE lead = <<>>
    BY <2>2
  <2>3. CASE lead = <<"SPACE">>
    BY <1>a, <2>3
  <2>4. CASE lead = <<"TAB">>
    BY <1>a, <2>4
  <2> QED BY Zenon, <2>1, <2>2, <2>3, <2>4
<1>5. trail \in Seq(Pieces) /\ \A j \in 1 .. Len(trail) : trail[j] = "SPACE"
  <2>1. trail = <<>> \/ trail = <<"SPACE">>
    BY Zenon DEF Blanks
  <2>2. CASE trail = <<>>
    BY <2>2
  <2>3. CASE trail = <<"SPACE">>
    BY <1>a, <2>3
  <2> QED BY Zenon, <2>1, <2>2, <2>3
<1> HIDE DEF rest
<1> DEFINE p == Len(lead)
           q == Len(trail)
<1>6. line = Padded(lead, c, rest, trail)
  BY Zenon, <1>2, <1>3 DEF Padded
<1>7. /\ line \in Seq(Pieces) /\ Len(line) = p + 2 + n + q
      /\ \A j \in 1 .. p : line[j] = lead[j]
      /\ line[p + 1] = "AT+" /\ line[p + 2] = c
      /\ \A j \in 1 .. n : line[p + 2 + j] = rest[j]
      /\ \A j \in 1 .. q : line[p + 2 + n + j] = trail[j]
  <2>0. lead \in Seq(Pieces) /\ trail \in Seq(Pieces)
    BY Zenon, <1>4, <1>5
  <2>1. IsPadded(line, lead, c, rest, trail)
    BY Zenon, <1>0, <1>r, <1>6, <2>0, LineOf
  <2> QED BY Zenon, <2>1 DEF IsPadded
<1>8. p \in Nat /\ q \in Nat /\ n \in Nat
  BY <1>1, <1>4, <1>5
<1>9. \A j \in 1 .. p : line[j] \in {"SPACE", "TAB"}
  BY Zenon, <1>4, <1>7
<1> HIDE DEF p, q, n
<1>10. ASSUME NEW j \in p + 3 + n .. Len(line) PROVE line[j] = "SPACE"
  <2> DEFINE i == j - (p + 2 + n)
  <2>0. j \in Nat
    BY <1>8
  <2>1. i \in 1 .. q /\ p + 2 + n + i = j
    BY <1>7, <1>8, <2>0
  <2> HIDE DEF i
  <2> QED BY Zenon, <2>1, <1>5, <1>7 DEF q
<1>11. p + 2 + n <= Len(line)
  BY <1>7, <1>8
<1>12. parse(line) = [type |-> IF n = 0 THEN "RUN" ELSE IF rest[1] = "=" THEN "WRITE" ELSE "READ",
                      command |-> <<c>>,
                      arguments |-> IF n > 0 /\ rest[1] = "=" THEN Split(Tail(rest)) ELSE <<>>]
  <2>1. /\ p + 2 + Len(rest) <= Len(line)
        /\ \A j \in 1 .. Len(rest) : line[p + 2 + j] = rest[j]
        /\ \A j \in p + 3 + Len(rest) .. Len(line) : line[j] = "SPACE"
    BY Zenon, <1>7, <1>10, <1>11 DEF n
  <2>2. Len(rest) > 0 => rest[1] \in {"?", "="} /\ rest[Len(rest)] # "SPACE"
    BY Zenon, <1>1 DEF n
  <2>a. Shape(line, p, c, rest)
    BY Zenon, <1>7, <1>9, <2>1, <2>2 DEF Shape
  <2>3. parse(line) = [type |-> IF Len(rest) = 0 THEN "RUN"
                                ELSE IF rest[1] = "=" THEN "WRITE" ELSE "READ",
                       command |-> <<c>>,
                       arguments |-> IF Len(rest) > 0 /\ rest[1] = "="
                                     THEN Split(Tail(rest)) ELSE <<>>]
    BY Zenon, <1>0, <1>1, <1>7, <1>8, <2>a, ParseIs
  <2> QED BY Zenon, <2>3 DEF n
<1> QED BY Zenon, <1>1, <1>7, <1>12

\* And a line that asks for nothing names no command.
LEMMA JunkParsed ==
  ASSUME NEW line \in Seq(Pieces), AsksNothing(line)
  PROVE  \/ parse(line) = Unknown
         \/ \A n \in Names : parse(line).command # <<n>>
<1>1. PICK i \in 1 .. Len(line) :
        /\ line[i] \notin {"SPACE", "TAB"}
        /\ \A j \in 1 .. i - 1 : line[j] \in {"SPACE", "TAB"}
        /\ \/ line[i] # "AT+"
           \/ i = Len(line)
           \/ line[i + 1] \notin Names
           \/ /\ \E j \in i + 2 .. Len(line) : line[j] # "SPACE"
              /\ line[i + 2] \notin {"?", "="}
  BY Zenon DEF AsksNothing
<1> DEFINE p == i - 1
           t == Tail(TrimLeft(line))
           N == Len(line) - p - 1
<1>2. p \in Nat /\ p + 1 = i /\ p + 1 <= Len(line) /\ Len(line) \in Nat /\ N \in Nat
  OBVIOUS
<1>3. /\ Head(TrimLeft(line)) = line[i]
      /\ t \in Seq(Pieces) /\ Len(t) = N
      /\ \A j \in 1 .. N : t[j] = line[i + j]
  <2>1. line[p + 1] \notin {"SPACE", "TAB"} /\ \A j \in 1 .. p : line[j] \in {"SPACE", "TAB"}
    BY Zenon, <1>1, <1>2
  <2> HIDE DEF p
  <2>2. /\ Head(TrimLeft(line)) = line[p + 1]
        /\ t \in Seq(Pieces) /\ Len(t) = N
        /\ \A j \in 1 .. N : t[j] = line[p + 1 + j]
    BY Zenon, <1>2, <2>1, InputIs
  <2> QED BY Zenon, <1>2, <2>2
<1>4. CASE line[i] # "AT+"
  BY Zenon, <1>3, <1>4 DEF parse
<1>5. CASE line[i] = "AT+"
  <2> DEFINE in == TrimRight(t)
             marks == At(in, {"?", "="})
             pos == IF marks = {} THEN Len(in) + 1 ELSE Least(marks)
             type == IF marks = {} THEN "RUN" ELSE IF in[pos] = "=" THEN "WRITE" ELSE "READ"
  <2>1. parse(line) = [type |-> type, command |-> SubSeq(in, 1, pos - 1),
                       arguments |-> IF type = "WRITE"
                                     THEN Split(SubSeq(in, pos + 1, Len(in))) ELSE <<>>]
    BY Zenon, <1>3, <1>5 DEF parse
  <2>2. parse(line).command = SubSeq(in, 1, pos - 1)
    <3> DEFINE cmd == SubSeq(in, 1, pos - 1)
               args == IF type = "WRITE" THEN Split(SubSeq(in, pos + 1, Len(in))) ELSE <<>>
    <3>1. parse(line) = [type |-> type, command |-> cmd, arguments |-> args]
      BY Zenon, <2>1
    <3> HIDE DEF in, pos, type, cmd, args
    <3>2. parse(line).command = cmd
      BY <3>1
    <3> QED BY Zenon, <3>2 DEF cmd
  <2> HIDE DEF t, N
  <2>3. PICK m \in 0 .. Len(t) :
          /\ in = SubSeq(t, 1, m)
          /\ \A j \in m + 1 .. Len(t) : t[j] = "SPACE"
    BY Zenon, <1>3, TrimRightAny
  <2> HIDE DEF in
  <2>4. in \in Seq(Pieces) /\ Len(in) = m /\ m \in Nat /\ \A j \in 1 .. m : in[j] = t[j]
    BY <1>2, <1>3, <2>3
  <2>5. marks \subseteq 1 .. m /\ marks \subseteq Nat
    BY <2>4 DEF At
  <2>6. pos \in 1 .. m + 1 /\ (marks = {} => pos = m + 1) /\ (marks # {} => pos \in marks)
    <3>1. CASE marks = {}
      BY <2>4, <3>1
    <3>2. CASE marks # {}
      <4>1. pos = Least(marks)
        BY Zenon, <3>2
      <4> HIDE DEF marks, pos
      <4>2. Least(marks) \in marks
        BY Zenon, <2>5, <3>2, LeastIn
      <4>3. pos \in marks /\ pos \in 1 .. m
        BY Zenon, <2>5, <4>1, <4>2
      <4>4. pos \in 1 .. m + 1
        BY <2>4, <4>3
      <4> QED BY Zenon, <3>2, <4>3, <4>4
    <3> QED BY <3>1, <3>2
  <2>7. ASSUME NEW n \in Names, SubSeq(in, 1, pos - 1) = <<n>> PROVE FALSE
    <3> HIDE DEF pos
    <3>0. pos \in Nat
      BY <2>4, <2>6
    <3>1. pos = 2 /\ m >= 1 /\ in[1] = n
      <4> DEFINE x == SubSeq(in, 1, pos - 1)
      <4>1. Len(x) = pos - 1 /\ (pos - 1 >= 1 => x[1] = in[1])
        BY <2>4, <2>6, <3>0
      <4>2. Len(x) = 1 /\ x[1] = n
        <5>1. x = <<n>>
          BY Zenon, <2>7
        <5> HIDE DEF x
        <5> QED BY <5>1
      <4> HIDE DEF x
      <4>3. pos \in 1 .. m + 1 /\ m \in Nat
        BY Zenon, <2>4, <2>6
      <4>4. pos = 2 /\ m >= 1
        <5>1. pos - 1 = 1
          BY Zenon, <4>1, <4>2
        <5> QED BY <3>0, <4>3, <5>1
      <4>5. pos - 1 >= 1
        BY <4>4
      <4> QED BY Zenon, <4>1, <4>2, <4>4, <4>5
    <3>2. 1 \in 1 .. N /\ t[1] = n
      BY <1>3, <2>3, <2>4, <3>1
    <3>3. line[i + 1] \in Names /\ i # Len(line)
      <4>1. line[i + 1] = n
        BY Zenon, <1>3, <3>2
      <4>2. i # Len(line)
        BY <1>2, <3>2 DEF N
      <4> QED BY Zenon, <4>1, <4>2
    <3>4. PICK j \in i + 2 .. Len(line) : line[j] # "SPACE"
      BY Zenon, <1>1, <1>5, <3>3
    <3>5. line[i + 2] \notin {"?", "="}
      BY Zenon, <1>1, <1>5, <3>3
    <3>6. j - i \in 2 .. N /\ j - i \in 1 .. N /\ 2 \in 1 .. N /\ i + (j - i) = j
      BY <1>2 DEF N
    <3>7. t[j - i] # "SPACE" /\ t[2] \notin {"?", "="}
      BY Zenon, <1>3, <3>4, <3>5, <3>6
    <3>8. m >= 2
      <4>1. j - i \notin m + 1 .. Len(t)
        BY Zenon, <2>3, <3>7
      <4> QED BY <1>3, <2>4, <3>6, <4>1
    <3>9. marks # {} /\ pos \in marks
      BY <2>6, <2>4, <3>1, <3>8
    <3>10. in[2] \in {"?", "="}
      BY Zenon, <3>1, <3>9 DEF At
    <3>11. 2 \in 1 .. m
      BY <2>4, <3>8
    <3> QED BY Zenon, <2>4, <3>7, <3>10, <3>11
  <2> QED BY Zenon, <2>2, <2>7
<1> QED BY Zenon, <1>4, <1>5

-----------------------------------------------------------------------------
(* A line is answered from the table *)

\* Only the built-in commands have no number.
Numbered(cs) == \A c : Has(cs, c) /\ c.id = 0 => c.kinds = {"RUN"}

LEMMA NumberedInit == Init => Numbered(registered_commands)
<1> SUFFICES ASSUME Init, NEW c, Has(registered_commands, c) PROVE c.kinds = {"RUN"}
  BY DEF Numbered
<1> DEFINE help == Command(HELP, {"RUN"}, 0)
           info == Command(INFO, {"RUN"}, 0)
<1>1. registered_commands = <<help, info>>
  BY Zenon DEF Init
<1>2. help.kinds = {"RUN"} /\ info.kinds = {"RUN"}
  BY DEF Command
<1> HIDE DEF help, info
<1>3. c = help \/ c = info
  BY <1>1 DEF Has
<1> QED BY Zenon, <1>2, <1>3

LEMMA NumberedStep ==
  ASSUME VectorInv, VectorInv', Numbered(registered_commands), [Next]_vars
  PROVE  Numbered(registered_commands')
<1> DEFINE cs == registered_commands
           ds == registered_commands'
<1>1. cs \in Seq(Entries) /\ Unique(cs) /\ registrations \in Nat
  BY ServerAssumption DEF VectorInv
<1>2. ASSUME NEW n \in Names, NEW kinds \in Kinds, register_command(n, kinds)
      PROVE  Numbered(ds)
  <2> DEFINE old == Erase(cs, n)
             new == Command(n, kinds, registrations')
  <2>1. ds = Append(old, new) /\ old \in Seq(Entries) /\ ~Holds(old, n)
    BY <1>1, <1>2, ErasedVector DEF register_command
  <2>2. new.id # 0
    <3>1. registrations' = registrations + 1
      BY <1>2 DEF register_command, NextHandler
    <3>2. new.id = registrations'
      BY DEF Command
    <3> QED BY <1>1, <3>1, <3>2
  <2>3. ASSUME NEW c, Has(old, c) PROVE Has(cs, c)
    <3>1. c.command # n
      BY Zenon, <2>1, <2>3 DEF Has, Holds
    <3> QED BY Zenon, <1>1, <2>3, <3>1, ErasedEntries
  <2> HIDE DEF old, new
  <2>4. ASSUME NEW c, Has(ds, c) PROVE c = new \/ Has(old, c)
    <3>1. ds \in Seq(Entries) /\ Len(ds) = Len(old) + 1 /\ ds[Len(old) + 1] = new
          /\ \A i \in 1 .. Len(old) : ds[i] = old[i]
      <4>1. new \in Entries
        BY <1>2, ServerAssumption DEF VectorInv, Entries, Command, new, register_command, NextHandler
      <4> QED BY <2>1, <4>1
    <3>2. PICK i \in 1 .. Len(ds) : ds[i] = c
      BY Zenon, <2>4 DEF Has
    <3>3. i = Len(old) + 1 \/ i \in 1 .. Len(old)
      BY <2>1, <3>1
    <3> QED BY Zenon, <3>1, <3>2, <3>3 DEF Has
  <2> QED BY Zenon, <2>2, <2>3, <2>4 DEF Numbered
<1>3. ASSUME NEW n \in Names, NEW kinds \in Kinds, register_handlers(n, kinds)
      PROVE  Numbered(ds)
  <2> DEFINE new == Command(n, kinds, registrations')
  <2>1. PICK a \in 1 .. Len(cs) : cs[a].command = n
    BY <1>3 DEF register_handlers, Registered
  <2>2. Registered(n) = {a}
    BY <1>1, <2>1 DEF Registered, Unique
  <2>3. Least(Registered(n)) = a
    BY <2>2, LeastOfOne
  <2>4. ds = [cs EXCEPT ![a] = new]
    BY <1>3, <2>3 DEF register_handlers
  <2>5. new.id # 0
    <3>1. registrations' = registrations + 1
      BY <1>3 DEF register_handlers, NextHandler
    <3>2. new.id = registrations'
      BY DEF Command
    <3> QED BY <1>1, <3>1, <3>2
  <2> HIDE DEF new
  <2>6. Len(ds) = Len(cs) /\ ds[a] = new /\ \A i \in 1 .. Len(cs) : i # a => ds[i] = cs[i]
    BY <1>1, <2>1, <2>4
  <2>7. ASSUME NEW c, Has(ds, c) PROVE c = new \/ Has(cs, c)
    BY Zenon, <2>6, <2>7 DEF Has
  <2> QED BY Zenon, <2>5, <2>7 DEF Numbered
<1>4. ASSUME NEW line, execute(line) PROVE Numbered(ds)
  BY Zenon, <1>4 DEF execute, Numbered, Has
<1>5. CASE UNCHANGED vars
  BY Zenon, <1>5 DEF vars, Numbered, Has
<1> QED BY Zenon, <1>2, <1>3, <1>4, <1>5 DEF Next

\* What execute answers, seen as an answer of the table.
Shown(a) == IF a.kind \in {"invalid", "unknown"} THEN [kind |-> "refused"] ELSE a

Asked(r) == [type |-> r.type, command |-> <<r.command>>, arguments |-> r.arguments]

LEMMA RequestAnswered ==
  ASSUME VectorInv, Numbered(registered_commands), NEW r, IsRequest(r)
  PROVE  /\ Shown(Answer(Asked(r))) = Table!Answer(r)
         /\ Answer(Asked(r)).kind \in {"invalid", "unknown", "help", "called", "unhandled"}
         /\ Answer(Asked(r)).kind = "called" =>
              /\ Answer(Asked(r)).type = r.type /\ Answer(Asked(r)).arguments = r.arguments
              /\ Answer(Asked(r)).id \in 0 .. MaxRegistered
<1> DEFINE cs == registered_commands
           n == r.command
           named == {i \in 1 .. Len(cs) : <<cs[i].command>> = <<n>>}
           hit == cs[Least(named)]
           a == Answer(Asked(r))
           b == Table!Answer(r)
<1>0. cs \in Seq(Entries) /\ Unique(cs)
  BY DEF VectorInv
<1>1. r.type \in {"RUN", "READ", "WRITE"}
  BY DEF IsRequest
<1>2. Asked(r).type = r.type /\ Asked(r).command = <<n>> /\ Asked(r).arguments = r.arguments
  BY DEF Asked
<1>3. <<n>> = <<HELP>> <=> n = HELP
  OBVIOUS
<1>4. a = IF n = HELP /\ r.type = "RUN" THEN [kind |-> "help"]
          ELSE IF named = {} THEN [kind |-> "unknown"]
          ELSE IF r.type \in hit.kinds
          THEN [kind |-> "called", id |-> hit.id, type |-> r.type, arguments |-> r.arguments]
          ELSE [kind |-> "unhandled"]
  <2>1. r.type # "UNKNOWN"
    BY <1>1
  <2> QED BY Zenon, <1>2, <1>3, <2>1 DEF Answer
<1>5. named = Registered(n)
  <2>1. \A i \in 1 .. Len(cs) : <<cs[i].command>> = <<n>> <=> cs[i].command = n
    OBVIOUS
  <2> QED BY Zenon, <2>1 DEF Registered
<1>6. b = IF n = HELP /\ r.type = "RUN" THEN [kind |-> "help"]
          ELSE IF n \notin Names \/ [m \in Names |-> Entry(m)][n] = [kinds |-> {}, id |-> 0]
          THEN [kind |-> "refused"]
          ELSE IF r.type \in [m \in Names |-> Entry(m)][n].kinds
          THEN [kind |-> "called", id |-> [m \in Names |-> Entry(m)][n].id, type |-> r.type,
                arguments |-> r.arguments]
          ELSE [kind |-> "unhandled"]
  BY Zenon DEF Table!Answer, Table!Help, Table!Nothing, Table!Refused, Table!Called, Table!NoHandler
<1> HIDE DEF a, b, named, hit
<1>7. CASE n = HELP /\ r.type = "RUN"
  <2>1. a = [kind |-> "help"] /\ b = [kind |-> "help"]
    BY Zenon, <1>4, <1>6, <1>7
  <2> QED BY <2>1 DEF Shown, a, b
<1>8. CASE ~ (n = HELP /\ r.type = "RUN") /\ named = {}
  <2>1. n \in Names => Entry(n) = [kinds |-> {}, id |-> 0]
    BY Zenon, <1>5, <1>8 DEF Entry
  <2>2. n \in Names => [m \in Names |-> Entry(m)][n] = [kinds |-> {}, id |-> 0]
    BY Zenon, <2>1
  <2>3. a = [kind |-> "unknown"] /\ b = [kind |-> "refused"]
    BY Zenon, <1>4, <1>6, <1>8, <2>2
  <2> QED BY <2>3 DEF Shown, a, b
<1>9. CASE ~ (n = HELP /\ r.type = "RUN") /\ named # {}
  <2>1. PICK i \in 1 .. Len(cs) : cs[i].command = n
    BY Zenon, <1>5, <1>9 DEF Registered
  <2>2. Registered(n) = {i}
    BY <1>0, <2>1 DEF Registered, Unique
  <2>3. hit = cs[i]
    <3>1. Least({i}) = i
      BY LeastOfOne
    <3> QED BY Zenon, <1>5, <2>2, <3>1 DEF hit
  <2>4. hit \in Entries /\ Has(cs, hit) /\ hit.command = n
    BY <1>0, <2>1, <2>3 DEF Has
  <2>5. n \in Names /\ hit.id \in 0 .. MaxRegistered
    BY <2>4 DEF Entries
  <2>6. Entry(n) = [kinds |-> hit.kinds, id |-> hit.id]
    BY Zenon, <1>0, <2>4, Found, EntryIs
  <2> DEFINE e == [kinds |-> hit.kinds, id |-> hit.id]
  <2>7. e.kinds = hit.kinds /\ e.id = hit.id /\ e # [kinds |-> {}, id |-> 0]
    <3>1. hit.id = 0 => hit.kinds = {"RUN"}
      BY Zenon, <2>4 DEF Numbered
    <3>2. ~ (hit.id = 0 /\ hit.kinds = {})
      BY <3>1
    <3> QED BY <3>2
  <2> HIDE DEF e
  <2>8. [m \in Names |-> Entry(m)][n] = e
    BY Zenon, <2>5, <2>6 DEF e
  <2>9. CASE r.type \in hit.kinds
    <3> DEFINE c == [kind |-> "called", id |-> hit.id, type |-> r.type, arguments |-> r.arguments]
    <3>1. a = c
      BY Zenon, <1>4, <1>9, <2>9
    <3>2. b = c
      BY Zenon, <1>6, <1>9, <2>5, <2>7, <2>8, <2>9
    <3>3. /\ c.kind = "called" /\ c.type = r.type /\ c.arguments = r.arguments /\ c.id = hit.id
      OBVIOUS
    <3> HIDE DEF c
    <3>4. Shown(c) = c
      BY <3>3 DEF Shown
    <3>5. "called" \in {"invalid", "unknown", "help", "called", "unhandled"}
      OBVIOUS
    <3> QED BY Zenon, <2>5, <3>1, <3>2, <3>3, <3>4, <3>5 DEF a, b
  <2>10. CASE r.type \notin hit.kinds
    <3>1. a = [kind |-> "unhandled"]
      BY Zenon, <1>4, <1>9, <2>10
    <3>2. b = [kind |-> "unhandled"]
      BY Zenon, <1>6, <1>9, <2>5, <2>7, <2>8, <2>10
    <3> QED BY <3>1, <3>2 DEF Shown, a, b
  <2> QED BY <2>9, <2>10
<1> QED BY Zenon, <1>7, <1>8, <1>9

LEMMA JunkAnswered ==
  ASSUME VectorInv, NEW line \in Seq(Pieces), AsksNothing(line)
  PROVE  Answer(parse(line)) \in {[kind |-> "invalid"], [kind |-> "unknown"]}
<1> DEFINE cs == registered_commands
           res == parse(line)
           named == {i \in 1 .. Len(cs) : <<cs[i].command>> = res.command}
<1>1. CASE res = Unknown
  <2>1. res.type = "UNKNOWN"
    <3> HIDE DEF res
    <3> QED BY <1>1 DEF Unknown
  <2>2. Answer(res) = [kind |-> "invalid"]
    BY Zenon, <2>1 DEF Answer
  <2> QED BY Zenon, <2>2
<1>2. CASE \A n \in Names : res.command # <<n>>
  <2>1. \A i \in 1 .. Len(cs) : cs[i].command \in Names
    <3>1. \A i \in 1 .. Len(cs) : cs[i] \in Entries
      BY DEF VectorInv
    <3>2. \A c \in Entries : c.command \in Names
      BY DEF Entries
    <3> QED BY Zenon, <3>1, <3>2
  <2>2. named = {}
    BY Zenon, <1>2, <2>1
  <2>3. res.command # <<HELP>>
    BY Zenon, <1>2, ServerAssumption
  <2>4. Answer(res) = IF res.type = "UNKNOWN" THEN [kind |-> "invalid"] ELSE [kind |-> "unknown"]
    BY Zenon, <2>2, <2>3 DEF Answer
  <2> QED BY Zenon, <2>4
<1> QED BY Zenon, <1>1, <1>2, JunkParsed

-----------------------------------------------------------------------------
(* The theorems on answers *)

\* What execute can have answered.
AnswerOK ==
  /\ answer.kind \in {"invalid", "help", "unknown", "unhandled", "called"}
  /\ answer.kind = "called" =>
       /\ answer.type \in {"RUN", "READ", "WRITE"} /\ answer.id \in 0 .. MaxRegistered
       /\ answer.type = "WRITE" <=> Len(answer.arguments) > 0

\* A request typed in any of its ways is parsed as what it asks.
LEMMA TypedParsed ==
  ASSUME NEW r \in Requests, NEW line \in Typed(r)
  PROVE  IsRequest(r) /\ parse(line) = Asked(r)
<1>1. IsRequest(r)
  BY LineAssumption
<1>2. parse(line) = Asked(r)
  BY Zenon, <1>1, RequestParsed DEF Asked
<1> QED BY <1>1, <1>2

\* A request has arguments just if it is a WRITE.
LEMMA WritesHaveArguments ==
  ASSUME NEW r, IsRequest(r)
  PROVE  /\ r.type \in {"RUN", "READ", "WRITE"}
         /\ r.type = "WRITE" <=> Len(r.arguments) > 0
<1>1. CASE r \in [type : {"RUN", "READ"}, command : Words, arguments : {<<>>}]
  BY <1>1
<1>2. CASE r \in [type : {"WRITE"}, command : Words, arguments : Seq(Argument) \ {<<>>}]
  <2>1. r.type = "WRITE" /\ r.arguments \in Seq(Argument) /\ r.arguments # <<>>
    BY <1>2
  <2>2. Len(r.arguments) > 0
    BY <2>1
  <2> QED BY <2>1, <2>2
<1> QED BY <1>1, <1>2 DEF IsRequest

LEMMA AskedStep ==
  asked \in Requests \cup {NoRequest} /\ [Next]_vars => asked' \in Requests \cup {NoRequest}
  BY Zenon DEF Next, vars, register_command, register_handlers

LEMMA AnswerInit == Init => AnswerOK
<1> SUFFICES ASSUME Init PROVE AnswerOK
  OBVIOUS
<1>1. answer = [kind |-> "invalid"]
  BY DEF Init
<1>2. answer.kind = "invalid"
  BY <1>1
<1> QED BY <1>2 DEF AnswerOK

LEMMA AnswerStep ==
  ASSUME VectorInv, Numbered(registered_commands), AnswerOK, [Next]_vars
  PROVE  AnswerOK'
<1>1. CASE UNCHANGED answer
  BY Zenon, <1>1 DEF AnswerOK
<1>2. ASSUME NEW r \in Requests, NEW line \in Typed(r), execute(line)
      PROVE  AnswerOK'
  <2>1. IsRequest(r) /\ answer' = Answer(Asked(r))
    BY Zenon, <1>2, TypedParsed DEF execute
  <2>2. /\ answer'.kind \in {"invalid", "unknown", "help", "called", "unhandled"}
        /\ answer'.kind = "called" =>
             /\ answer'.type = r.type /\ answer'.arguments = r.arguments
             /\ answer'.id \in 0 .. MaxRegistered
    BY Zenon, <2>1, RequestAnswered
  <2>3. /\ r.type \in {"RUN", "READ", "WRITE"}
        /\ r.type = "WRITE" <=> Len(r.arguments) > 0
    BY Zenon, <2>1, WritesHaveArguments
  <2> QED BY <2>2, <2>3 DEF AnswerOK
<1>3. ASSUME NEW line \in Junk, execute(line) PROVE AnswerOK'
  <2>1. line \in Seq(Pieces) /\ AsksNothing(line)
    BY LineAssumption
  <2>2. answer' \in {[kind |-> "invalid"], [kind |-> "unknown"]}
    BY Zenon, <1>3, <2>1, JunkAnswered DEF execute
  <2>3. answer'.kind \in {"invalid", "unknown"}
    BY <2>2
  <2> QED BY <2>3 DEF AnswerOK
<1>4. ASSUME NEW n \in Names, NEW kinds \in Kinds,
             register_command(n, kinds) \/ register_handlers(n, kinds)
      PROVE  UNCHANGED answer
  BY <1>4 DEF register_command, register_handlers
<1>5. UNCHANGED vars => UNCHANGED answer
  BY DEF vars
<1> QED BY Zenon, <1>1, <1>2, <1>3, <1>4, <1>5 DEF Next

\* Entries of the vector name commands and handlers that were registered; an
\* answer is one of the five, and a handler for WRITE, and no other, is given
\* arguments (ei_at_parser.cpp:47-116, ei_at_server.cpp:395-453).
THEOREM TypeCorrect == Spec => []TypeOK
<1> DEFINE AskedOK == asked \in Requests \cup {NoRequest}
<1>0. (Init => AskedOK) /\ (AskedOK /\ [Next]_vars => AskedOK')
  BY Zenon, AskedStep DEF Init
<1>1. Init => VectorInv /\ Numbered(registered_commands) /\ AnswerOK
  BY VectorInit, NumberedInit, AnswerInit
<1>2. VectorInv /\ Numbered(registered_commands) /\ AnswerOK /\ [Next]_vars
        => (VectorInv /\ Numbered(registered_commands) /\ AnswerOK)'
  <2> SUFFICES ASSUME VectorInv, Numbered(registered_commands), AnswerOK, [Next]_vars
               PROVE  VectorInv' /\ Numbered(registered_commands)' /\ AnswerOK'
    OBVIOUS
  <2>1. VectorInv' /\ AnswerOK'
    BY Zenon, VectorStep, AnswerStep
  <2>2. Numbered(registered_commands')
    BY Zenon, <2>1, NumberedStep
  <2> QED BY Zenon, <2>1, <2>2 DEF Numbered, Has
<1>3. VectorInv /\ AskedOK /\ AnswerOK => TypeOK
  BY Zenon DEF VectorInv, AnswerOK, TypeOK, Entries
<1> HIDE DEF AskedOK
<1> QED BY <1>0, <1>1, <1>2, <1>3, PTL DEF Spec

TableOf(cs) == [n \in Names |-> EntryOf(cs, n)]

LEMMA TableIs == [n \in Names |-> Entry(n)] = TableOf(registered_commands)
  BY Zenon, EntryIs DEF TableOf

LEMMA TableInit == Init => Table!TInit
<1> SUFFICES ASSUME Init PROVE Table!TInit
  OBVIOUS
<1> DEFINE cs == registered_commands
           help == Command(HELP, {"RUN"}, 0)
           info == Command(INFO, {"RUN"}, 0)
           built == [kinds |-> {"RUN"}, id |-> 0]
           nothing == [kinds |-> {}, id |-> 0]
<1>1. cs \in Seq(Entries) /\ Unique(cs)
  BY VectorInit DEF VectorInv
<1>2. cs = <<help, info>>
  BY Zenon DEF Init
<1>3. /\ help.command = HELP /\ help.kinds = {"RUN"} /\ help.id = 0
      /\ info.command = INFO /\ info.kinds = {"RUN"} /\ info.id = 0
  BY DEF Command
<1> HIDE DEF help, info
<1>4. Len(cs) = 2 /\ cs[1] = help /\ cs[2] = info
  BY <1>2
<1>5. Has(cs, help) /\ Has(cs, info)
  BY <1>4 DEF Has
<1>6. EntryOf(cs, HELP) = built /\ EntryOf(cs, INFO) = built
  <2>1. EntryOf(cs, help.command) = [kinds |-> help.kinds, id |-> help.id]
    BY Zenon, <1>1, <1>5, Found
  <2>2. EntryOf(cs, info.command) = [kinds |-> info.kinds, id |-> info.id]
    BY Zenon, <1>1, <1>5, Found
  <2> QED BY Zenon, <1>3, <2>1, <2>2
<1>7. ASSUME NEW n, n \notin {HELP, INFO} PROVE EntryOf(cs, n) = nothing
  <2>1. ~Holds(cs, n)
    BY <1>3, <1>4, <1>7 DEF Holds
  <2> QED BY Zenon, <2>1, NotFound
<1> HIDE DEF built, nothing
<1>8. \A n \in Names : EntryOf(cs, n) = IF n \in {HELP, INFO} THEN built ELSE nothing
  BY <1>6, <1>7
<1>9. [n \in Names |-> Entry(n)] = [n \in Names |-> IF n \in {HELP, INFO} THEN built ELSE nothing]
  BY Zenon, <1>8, TableIs DEF TableOf
<1>10. Shown(answer) = [kind |-> "refused"]
  <2>1. answer = [kind |-> "invalid"]
    BY DEF Init
  <2> QED BY <2>1 DEF Shown
<1>11. asked = [type |-> "NONE"]
  BY Zenon DEF Init, NoRequest
<1> QED
  BY Zenon, <1>9, <1>10, <1>11
     DEF Table!TInit, Table!NoRequest, Table!BuiltIn, Table!Nothing, Table!Refused, Shown, built, nothing

LEMMA TableStep ==
  ASSUME VectorInv, VectorInv', Numbered(registered_commands), [Next]_vars
  PROVE  [Table!TNext]_(Table!tvars)
<1> DEFINE shown == IF answer.kind \in {"invalid", "unknown"} THEN [kind |-> "refused"] ELSE answer
           table == [n \in Names |-> Entry(n)]
<1>1. ASSUME NEW line, execute(line) PROVE table' = table
  BY Zenon, <1>1 DEF execute, Entry, Registered
<1>2. ASSUME NEW r \in Requests, asked' = r, NEW line \in Typed(r), execute(line)
      PROVE  Table!TExecute
  <2>1. IsRequest(r) /\ answer' = Answer(Asked(r))
    BY Zenon, <1>2, TypedParsed DEF execute
  <2>2. Shown(answer') = Table!Answer(r)
    BY Zenon, <2>1, RequestAnswered
  <2>3. shown' = Table!Answer(r)
    BY Zenon, <2>2 DEF Shown
  <2>4. table' = table
    BY Zenon, <1>1, <1>2
  <2> QED BY Zenon, <1>2, <2>3, <2>4 DEF Table!TExecute
<1>3. ASSUME asked' = NoRequest, NEW line \in Junk, execute(line) PROVE Table!TRefuse
  <2>1. line \in Seq(Pieces) /\ AsksNothing(line)
    BY LineAssumption
  <2>2. answer' \in {[kind |-> "invalid"], [kind |-> "unknown"]}
    BY Zenon, <1>3, <2>1, JunkAnswered DEF execute
  <2>3. shown' = [kind |-> "refused"]
    BY <2>2
  <2>4. table' = table
    BY Zenon, <1>1, <1>3
  <2> QED BY Zenon, <1>3, <2>3, <2>4 DEF Table!TRefuse, Table!Refused, Table!NoRequest, NoRequest
<1>4. ASSUME NEW n \in Names, NEW kinds \in Kinds,
             register_command(n, kinds) \/ register_handlers(n, kinds)
      PROVE  Table!TRegister \/ UNCHANGED Table!tvars
  <2>1. UNCHANGED answer /\ UNCHANGED asked
    BY <1>4 DEF register_command, register_handlers
  <2>2. Table!TRegister \/ UNCHANGED Registrations
    BY Zenon, RegistrationStep
  <2>3. UNCHANGED Registrations => UNCHANGED table
    BY Zenon DEF Registrations
  <2>4. UNCHANGED shown
    BY Zenon, <2>1
  <2> QED BY Zenon, <2>1, <2>2, <2>3, <2>4 DEF Table!tvars
<1>5. CASE UNCHANGED vars
  <2>1. UNCHANGED answer /\ UNCHANGED asked /\ UNCHANGED registered_commands
    BY <1>5 DEF vars
  <2>2. UNCHANGED table /\ UNCHANGED shown
    BY Zenon, <2>1 DEF Entry, Registered
  <2> QED BY Zenon, <2>1, <2>2 DEF Table!tvars
<1> QED BY Zenon, <1>2, <1>3, <1>4, <1>5 DEF Next, Table!TNext

\* The whole server implements its promise, for every set of names, words,
\* requests and lines without one: what parser, vector and execute together
\* answer is what the line asked for, however it is padded and whatever its
\* arguments, as the table of the latest registrations says; and no line is
\* refused but one that asks for nothing or for a name that is not in the table
\* (ei_at_parser.cpp:47-116, ei_at_server.cpp:108-175, 395-453).
THEOREM ImplementsAtTable == Spec => ImplementsTable
<1>1. Init => VectorInv /\ Numbered(registered_commands)
  BY VectorInit, NumberedInit
<1>2. VectorInv /\ Numbered(registered_commands) /\ [Next]_vars
        => (VectorInv /\ Numbered(registered_commands))'
  <2> SUFFICES ASSUME VectorInv, Numbered(registered_commands), [Next]_vars
               PROVE  VectorInv' /\ Numbered(registered_commands)'
    OBVIOUS
  <2>1. VectorInv'
    BY Zenon, VectorStep
  <2>2. Numbered(registered_commands')
    BY Zenon, <2>1, NumberedStep
  <2> QED BY Zenon, <2>1, <2>2 DEF Numbered, Has
<1>3. VectorInv /\ VectorInv' /\ Numbered(registered_commands) /\ [Next]_vars
        => [Table!TNext]_(Table!tvars)
  BY TableStep
<1> QED BY <1>1, <1>2, <1>3, TableInit, PTL DEF Spec, ImplementsTable, Table!TSpec
==============================================================================
