--------------------------- MODULE CommandTableProofs ---------------------------
(* Theorems about CommandTable, for any files the program may be started with. *)
EXTENDS Integers, CommandTable, SequenceTheorems, WellFoundedInduction, TLAPS

PipelineElement == [id : Nat, name : Name, branch : Name, is_optional : BOOLEAN]

\* The invariant.  The parser's counter is the length of what it has made, as
\* the elements of the file are each visited once; a name is in the table once.
ParserOK ==
  /\ file \in Files /\ branch \in Nat \ {0} /\ position \in Nat \ {0}
  /\ pipeline_elements \in Seq(PipelineElement)
  /\ id = Len(pipeline_elements)

NamesAreKeys == \A m, n \in command_map : m[1] = n[1] => m = n

IInv == ParserOK /\ IdIsIndex /\ NamesAreKeys
-----------------------------------------------------------------------------
(* Sequences gathered by recursion *)

\* A set of numbers that is not empty has a least one.
LEMMA Least ==
  ASSUME NEW T \in SUBSET Nat, T # {}
  PROVE  \E x \in T : \A y \in T : x <= y
<1> DEFINE R == OpToRel(<, Nat)
<1>1. IsWellFoundedOn(R, Nat)
  BY NatLessThanWellFounded
<1>2. \A x, y \in Nat : y < x => <<y, x>> \in R
  BY DEF OpToRel
<1> HIDE DEF R
<1>3. PICK x \in T : \A y \in T : ~ (<<y, x>> \in R)
  BY <1>1, WFMin
<1>4. ASSUME NEW y \in T PROVE x <= y
  <2>1. x \in Nat /\ y \in Nat /\ ~ (<<y, x>> \in R)
    BY <1>3
  <2>2. QED BY <1>2, <2>1
<1>5. QED BY <1>4

\* Induction on natural numbers, about the members of a set.
LEMMA SetInduction ==
  ASSUME NEW T, 0 \in T, \A n \in Nat : n \in T => n + 1 \in T
  PROVE  Nat \subseteq T
<1> SUFFICES ASSUME NEW k \in Nat, k \notin T PROVE FALSE
    OBVIOUS
<1>1. PICK x \in Nat \ T : \A y \in Nat \ T : x <= y
  BY Least
<1>2. x # 0 /\ x - 1 \in Nat /\ x - 1 \notin Nat \ T
  BY <1>1
<1>3. QED BY <1>1, <1>2

Occurs(x, s) == \E i \in 1 .. Len(s) : s[i] = x

LEMMA OccursInConcat ==
  ASSUME NEW T, NEW s \in Seq(T), NEW t \in Seq(T), NEW x
  PROVE  Occurs(x, s \o t) <=> Occurs(x, s) \/ Occurs(x, t)
<1>1. /\ Len(s) \in Nat /\ Len(t) \in Nat /\ Len(s \o t) = Len(s) + Len(t)
      /\ \A i \in 1 .. Len(s) + Len(t) :
           (s \o t)[i] = IF i <= Len(s) THEN s[i] ELSE t[i - Len(s)]
  BY ConcatProperties, LenProperties
<1>2. ASSUME Occurs(x, s \o t) PROVE Occurs(x, s) \/ Occurs(x, t)
  <2>1. PICK i \in 1 .. Len(s) + Len(t) : (s \o t)[i] = x
    BY <1>1, <1>2 DEF Occurs
  <2>2. CASE i <= Len(s)
    BY <1>1, <2>1, <2>2 DEF Occurs
  <2>3. CASE ~(i <= Len(s))
    <3>1. i - Len(s) \in 1 .. Len(t) /\ t[i - Len(s)] = x
      BY <1>1, <2>1, <2>3
    <3>2. QED BY <3>1 DEF Occurs
  <2>4. QED BY <2>2, <2>3
<1>3. ASSUME Occurs(x, s) PROVE Occurs(x, s \o t)
  <2>1. PICK i \in 1 .. Len(s) : s[i] = x
    BY <1>3 DEF Occurs
  <2>2. i \in 1 .. Len(s \o t) /\ (s \o t)[i] = x
    BY <1>1, <2>1
  <2>3. QED BY <2>2 DEF Occurs
<1>4. ASSUME Occurs(x, t) PROVE Occurs(x, s \o t)
  <2>1. PICK i \in 1 .. Len(t) : t[i] = x
    BY <1>4 DEF Occurs
  <2>2. Len(s) + i \in 1 .. Len(s \o t) /\ (s \o t)[Len(s) + i] = x
    BY <1>1, <2>1
  <2>3. QED BY <2>2 DEF Occurs
<1>5. QED BY <1>2, <1>3, <1>4

\* The function by which FlattenSeq appends one part after another exists,
LEMMA Flattens ==
  ASSUME NEW n \in Nat \ {0}, NEW s
  PROVE  \E f : f = [i \in 1 .. n |-> IF i = 1 THEN s[i] ELSE f[i - 1] \o s[i]]
<1> DEFINE Exists(m) == \E f : f = [i \in 1 .. m |-> IF i = 1 THEN s[i] ELSE f[i - 1] \o s[i]]
           T == {m \in Nat : m # 0 => Exists(m)}
<1>1. Exists(1)
  <2> DEFINE f == [i \in 1 .. 1 |-> s[i]]
  <2>1. f = [i \in 1 .. 1 |-> IF i = 1 THEN s[i] ELSE f[i - 1] \o s[i]]
    OBVIOUS
  <2>2. QED BY <2>1
<1>2. ASSUME NEW m \in Nat \ {0}, Exists(m) PROVE Exists(m + 1)
  <2>1. PICK f : f = [i \in 1 .. m |-> IF i = 1 THEN s[i] ELSE f[i - 1] \o s[i]]
    BY <1>2
  <2> DEFINE last == f[m] \o s[m + 1]
             h == [i \in 1 .. m + 1 |-> IF i <= m THEN f[i] ELSE last]
  <2>2. \A i \in 1 .. m : h[i] = f[i] /\ f[i] = IF i = 1 THEN s[i] ELSE f[i - 1] \o s[i]
    <3>1. \A i \in 1 .. m : h[i] = f[i]
      <4> HIDE DEF last
      <4>1. QED OBVIOUS
    <3> HIDE DEF h
    <3>2. QED BY <2>1, <3>1
  <2>3. ASSUME NEW i \in 1 .. m + 1
        PROVE  h[i] = IF i = 1 THEN s[i] ELSE h[i - 1] \o s[i]
    <3>1. CASE i = m + 1
      <4>1. i # 1 /\ i - 1 = m /\ m \in 1 .. m
        BY <3>1
      <4>2. h[i] = last
        <5> HIDE DEF last
        <5>1. QED BY <3>1
      <4>3. h[m] = f[m]
        BY <2>2, <4>1
      <4> HIDE DEF h
      <4>4. h[i - 1] = f[m] /\ s[i] = s[m + 1]
        BY <3>1, <4>1, <4>3
      <4>5. h[i] = h[i - 1] \o s[i]
        BY <4>2, <4>4, Zenon
      <4>6. QED BY <4>1, <4>5
    <3>2. CASE i \in 1 .. m
      <4>1. i # 1 => i - 1 \in 1 .. m
        BY <3>2
      <4> HIDE DEF h
      <4>2. QED BY <2>2, <3>2, <4>1
    <3>3. QED BY <3>1, <3>2
  <2>4. h = [i \in 1 .. m + 1 |-> IF i = 1 THEN s[i] ELSE h[i - 1] \o s[i]]
    <3>1. h = [i \in 1 .. m + 1 |-> h[i]]
      OBVIOUS
    <3> HIDE DEF h
    <3>2. QED BY <2>3, <3>1
  <2>5. QED BY <2>4
<1> HIDE DEF Exists
<1>3. 0 \in T /\ \A m \in Nat : m \in T => m + 1 \in T
  BY <1>1, <1>2
<1>4. Exists(n)
  <2>1. Nat \subseteq T
    <3> HIDE DEF T
    <3>1. QED BY <1>3, SetInduction
  <2>2. QED BY <2>1
<1>5. QED BY <1>4 DEF Exists

\* and what occurs in its value is what occurs in a part.
LEMMA Flattened ==
  ASSUME NEW T, NEW s \in Seq(Seq(T))
  PROVE  /\ FlattenSeq(s) \in Seq(T)
         /\ \A x : Occurs(x, FlattenSeq(s)) <=> \E j \in 1 .. Len(s) : Occurs(x, s[j])
<1>1. Len(s) \in Nat /\ \A j \in 1 .. Len(s) : s[j] \in Seq(T)
  BY ElementOfSeq, LenProperties
<1>2. CASE Len(s) = 0
  <2>1. s = <<>> /\ FlattenSeq(s) = <<>>
    BY <1>2, EmptySeq DEF FlattenSeq
  <2>2. ~\E j \in 1 .. Len(s) : TRUE
    BY <1>2
  <2>3. \A x : ~Occurs(x, FlattenSeq(s))
    BY <2>1, EmptySeq DEF Occurs
  <2>4. QED BY <2>1, <2>2, <2>3, EmptySeq
<1>3. CASE Len(s) # 0
  <2> DEFINE n == Len(s)
             f[i \in 1 .. n] == IF i = 1 THEN s[i] ELSE f[i - 1] \o s[i]
             Right(m) == /\ f[m] \in Seq(T)
                         /\ \A x : Occurs(x, f[m]) <=> \E j \in 1 .. m : Occurs(x, s[j])
             U == {m \in Nat : m \in 1 .. n => Right(m)}
  <2>1. n \in Nat \ {0} /\ FlattenSeq(s) = f[n]
    BY <1>1, <1>3 DEF FlattenSeq
  <2>2. \A j \in 1 .. n : s[j] \in Seq(T)
    BY <1>1
  <2> HIDE DEF n
  <2>3. f = [i \in 1 .. n |-> IF i = 1 THEN s[i] ELSE f[i - 1] \o s[i]]
    <3>1. \E e : e = [i \in 1 .. n |-> IF i = 1 THEN s[i] ELSE e[i - 1] \o s[i]]
      BY <2>1, Flattens
    <3>2. QED BY <3>1
  <2> HIDE DEF f
  <2>4. Right(1)
    <3>1. f[1] = s[1]
      BY <2>1, <2>3
    <3>2. QED BY <2>1, <2>2, <3>1
  <2>5. ASSUME NEW m \in Nat \ {0}, m + 1 <= n, Right(m) PROVE Right(m + 1)
    <3>1. m + 1 \in 1 .. n /\ m + 1 # 1 /\ (m + 1) - 1 = m
      BY <2>5
    <3>2. f[m + 1] = f[(m + 1) - 1] \o s[m + 1]
      BY <2>3, <3>1
    <3>3. f[(m + 1) - 1] = f[m]
      BY <3>1
    <3>4. f[m + 1] = f[m] \o s[m + 1]
      BY <3>2, <3>3, Zenon
    <3>5. f[m] \in Seq(T) /\ s[m + 1] \in Seq(T)
      BY <2>2, <2>5, <3>1
    <3>6. f[m + 1] \in Seq(T)
      BY <3>4, <3>5, ConcatProperties
    <3>7. ASSUME NEW x
          PROVE  Occurs(x, f[m + 1]) <=> \E j \in 1 .. m + 1 : Occurs(x, s[j])
      <4>1. Occurs(x, f[m + 1]) <=> Occurs(x, f[m]) \/ Occurs(x, s[m + 1])
        BY <3>4, <3>5, OccursInConcat
      <4>2. \A j : j \in 1 .. m + 1 <=> j \in 1 .. m \/ j = m + 1
        OBVIOUS
      <4>3. Occurs(x, f[m]) <=> \E j \in 1 .. m : Occurs(x, s[j])
        BY <2>5
      <4>4. QED BY <4>1, <4>2, <4>3
    <3>8. QED BY <3>6, <3>7
  <2> HIDE DEF Right
  <2>6. 0 \in U /\ \A m \in Nat : m \in U => m + 1 \in U
    BY <2>1, <2>4, <2>5
  <2>7. Right(n)
    <3>1. Nat \subseteq U
      <4> HIDE DEF U
      <4>1. QED BY <2>6, SetInduction
    <3>2. QED BY <2>1, <3>1
  <2>8. QED BY <2>1, <2>7 DEF Right, n
<1>4. QED BY <1>2, <1>3

-----------------------------------------------------------------------------
(* What is registered *)

Label == Name \cup {"test", "stop", "elements", "branches"}
Registration ==
  [name : (Verb \cup {""}) \X Label,
   command : [verb : Verb \cup {""}, class : {"fixed", "element", "branch"}, name : Label]]

Entry(verb, class, name) == [name |-> <<verb, name>>, command |-> Command(verb, class, name)]

LEMMA PairRegisters ==
  ASSUME NEW class \in {"element", "branch"}, NEW name \in Name
  PROVE  /\ Pair(class, name) \in Seq(Registration)
         /\ \A x : Occurs(x, Pair(class, name)) <=> \E verb \in Verb : x = Entry(verb, class, name)
<1>1. /\ Entry("enable", class, name) \in Registration
      /\ Entry("disable", class, name) \in Registration
  BY DEF Entry, Command, Registration, Label, Verb
<1>2. Pair(class, name) = <<Entry("enable", class, name), Entry("disable", class, name)>>
  BY DEF Pair, Entry
<1>3. /\ Len(Pair(class, name)) = 2
      /\ Pair(class, name)[1] = Entry("enable", class, name)
      /\ Pair(class, name)[2] = Entry("disable", class, name)
  BY <1>2
<1>4. ASSUME NEW x
      PROVE  Occurs(x, Pair(class, name))
               <=> x = Entry("enable", class, name) \/ x = Entry("disable", class, name)
  <2>1. Occurs(x, Pair(class, name)) <=> Pair(class, name)[1] = x \/ Pair(class, name)[2] = x
    BY <1>3 DEF Occurs
  <2>2. QED BY <1>3, <2>1
<1>5. QED BY <1>1, <1>2, <1>4 DEF Verb

LEMMA NothingRegisters == <<>> \in Seq(Registration) /\ \A x : ~Occurs(x, <<>>)
BY EmptySeq DEF Occurs

LEMMA FixedRegisters ==
  /\ FixedRegistrations \in Seq(Registration)
  /\ \A x : Occurs(x, FixedRegistrations) => x.name \in Fixed /\ x.command.class = "fixed"
<1>1. /\ Len(FixedNames) = 6 /\ FixedNames[1] = <<"", "test">>
      /\ FixedNames[2] = <<"enable", "elements">> /\ FixedNames[3] = <<"disable", "elements">>
      /\ FixedNames[4] = <<"enable", "branches">> /\ FixedNames[5] = <<"disable", "branches">>
      /\ FixedNames[6] = <<"", "stop">>
  BY DEF FixedNames
<1>2. \A i \in 1 .. 6 : FixedNames[i] \in (Verb \cup {""}) \X Label
  <2> DEFINE P == (Verb \cup {""}) \X Label
  <2>1. \A a \in Verb \cup {""}, b \in Label : <<a, b>> \in P
    OBVIOUS
  <2>2. /\ "" \in Verb \cup {""} /\ "enable" \in Verb \cup {""} /\ "disable" \in Verb \cup {""}
        /\ "test" \in Label /\ "stop" \in Label /\ "elements" \in Label /\ "branches" \in Label
    BY DEF Label, Verb
  <2> HIDE DEF P
  <2>3. /\ FixedNames[1] \in P /\ FixedNames[2] \in P /\ FixedNames[3] \in P
        /\ FixedNames[4] \in P /\ FixedNames[5] \in P /\ FixedNames[6] \in P
    BY <1>1, <2>1, <2>2
  <2>4. \A i \in 1 .. 6 : i = 1 \/ i = 2 \/ i = 3 \/ i = 4 \/ i = 5 \/ i = 6
    OBVIOUS
  <2>5. QED BY <2>3, <2>4 DEF P
<1>3. ASSUME NEW i \in 1 .. 6
      PROVE  /\ [name |-> FixedNames[i],
                 command |-> Command(FixedNames[i][1], "fixed", FixedNames[i][2])] \in Registration
             /\ FixedNames[i] \in Fixed
  <2>1. FixedNames[i][1] \in Verb \cup {""} /\ FixedNames[i][2] \in Label
    BY <1>2
  <2>2. QED BY <1>1, <1>2, <2>1 DEF Registration, Command, Fixed
<1>4. FixedRegistrations = [i \in 1 .. 6 |->
        [name |-> FixedNames[i], command |-> Command(FixedNames[i][1], "fixed", FixedNames[i][2])]]
  BY <1>1 DEF FixedRegistrations
<1>5. FixedRegistrations \in Seq(Registration) /\ Len(FixedRegistrations) = 6
  <2>1. FixedRegistrations \in [1 .. 6 -> Registration]
    BY <1>3, <1>4
  <2>2. QED BY <1>4, <2>1
<1>6. \A i \in 1 .. 6 : FixedRegistrations[i].name \in Fixed /\ FixedRegistrations[i].command.class = "fixed"
  BY <1>3, <1>4 DEF Command
<1>7. QED BY <1>5, <1>6 DEF Occurs

\* The parser's elements, one by one.
LEMMA ElementTypes ==
  ASSUME ParserOK
  PROVE  /\ Len(pipeline_elements) \in Nat
         /\ DOMAIN pipeline_elements = 1 .. Len(pipeline_elements)
         /\ Optionals \subseteq 1 .. Len(pipeline_elements)
         /\ \A k \in 1 .. Len(pipeline_elements) :
              pipeline_elements[k].name \in Name /\ pipeline_elements[k].branch \in Name
<1>1. /\ Len(pipeline_elements) \in Nat
      /\ DOMAIN pipeline_elements = 1 .. Len(pipeline_elements)
  BY LenProperties DEF ParserOK
<1>2. \A k \in 1 .. Len(pipeline_elements) : pipeline_elements[k] \in PipelineElement
  BY ElementOfSeq DEF ParserOK
<1>3. QED BY <1>1, <1>2 DEF Optionals, PipelineElement

\* An optional element has its two commands, and no other element has any.
LEMMA ElementsRegister ==
  ASSUME ParserOK
  PROVE  /\ OptionalElementsRegistrations \in Seq(Registration)
         /\ \A x : Occurs(x, OptionalElementsRegistrations) <=>
              \E k \in Optionals, verb \in Verb : x = Entry(verb, "element", pipeline_elements[k].name)
<1> DEFINE n == Len(pipeline_elements)
           s == [k \in DOMAIN pipeline_elements |->
                   IF k \in Optionals THEN Pair("element", pipeline_elements[k].name) ELSE <<>>]
<1>1. \A k \in 1 .. n :
        s[k] = IF k \in Optionals THEN Pair("element", pipeline_elements[k].name) ELSE <<>>
  BY ElementTypes
<1>2. s = [k \in 1 .. n |-> s[k]] /\ n \in Nat
  BY ElementTypes
<1>3. OptionalElementsRegistrations = FlattenSeq(s)
  BY DEF OptionalElementsRegistrations
<1> HIDE DEF s
<1>4. \A k \in 1 .. n :
        /\ s[k] \in Seq(Registration)
        /\ \A x : Occurs(x, s[k]) <=>
             k \in Optionals /\ \E verb \in Verb : x = Entry(verb, "element", pipeline_elements[k].name)
  BY <1>1, ElementTypes, PairRegisters, NothingRegisters
<1>5. s \in Seq(Seq(Registration)) /\ Len(s) = n
  <2>1. s \in [1 .. n -> Seq(Registration)]
    BY <1>2, <1>4
  <2>2. QED BY <1>2, <2>1
<1>6. /\ FlattenSeq(s) \in Seq(Registration)
      /\ \A x : Occurs(x, FlattenSeq(s)) <=> \E k \in 1 .. n : Occurs(x, s[k])
  BY <1>5, Flattened
<1>7. ASSUME NEW x
      PROVE  (\E k \in 1 .. n : Occurs(x, s[k])) <=>
             \E k \in Optionals, verb \in Verb : x = Entry(verb, "element", pipeline_elements[k].name)
  BY <1>4, ElementTypes
<1>8. QED BY <1>3, <1>6, <1>7

\* A branch has its two commands as soon as one of its elements is optional.
LEMMA BranchesRegister ==
  ASSUME ParserOK
  PROVE  /\ OptionalBranchesRegistrations \in Seq(Registration)
         /\ \A x : Occurs(x, OptionalBranchesRegistrations) <=>
              \E k \in Optionals, verb \in Verb : x = Entry(verb, "branch", pipeline_elements[k].branch)
<1> DEFINE n == Len(pipeline_elements)
           s == [k \in DOMAIN pipeline_elements |->
                   IF k \in Optionals /\ ~Listed(k) THEN Pair("branch", pipeline_elements[k].branch)
                   ELSE <<>>]
<1>1. \A k \in 1 .. n :
        s[k] = IF k \in Optionals /\ ~Listed(k) THEN Pair("branch", pipeline_elements[k].branch)
               ELSE <<>>
  BY ElementTypes
<1>2. s = [k \in 1 .. n |-> s[k]] /\ n \in Nat
  BY ElementTypes
<1>3. OptionalBranchesRegistrations = FlattenSeq(s)
  BY DEF OptionalBranchesRegistrations
<1> HIDE DEF s
<1>4. \A k \in 1 .. n :
        /\ s[k] \in Seq(Registration)
        /\ \A x : Occurs(x, s[k]) <=>
             /\ k \in Optionals /\ ~Listed(k)
             /\ \E verb \in Verb : x = Entry(verb, "branch", pipeline_elements[k].branch)
  BY <1>1, ElementTypes, PairRegisters, NothingRegisters
<1>5. s \in Seq(Seq(Registration)) /\ Len(s) = n
  <2>1. s \in [1 .. n -> Seq(Registration)]
    BY <1>2, <1>4
  <2>2. QED BY <1>2, <2>1
<1>6. /\ FlattenSeq(s) \in Seq(Registration)
      /\ \A x : Occurs(x, FlattenSeq(s)) <=> \E k \in 1 .. n : Occurs(x, s[k])
  BY <1>5, Flattened
<1>7. ASSUME NEW k \in Optionals
      PROVE  \E j \in Optionals :
               ~Listed(j) /\ pipeline_elements[j].branch = pipeline_elements[k].branch
  <2> DEFINE Same == {j \in Optionals : pipeline_elements[j].branch = pipeline_elements[k].branch}
  <2>1. Same \in SUBSET Nat /\ Same # {}
    BY ElementTypes
  <2>2. PICK j \in Same : \A i \in Same : j <= i
    BY <2>1, Least
  <2>3. j \in Nat /\ \A i \in Same : i \in Nat /\ ~(i < j)
    BY <2>1, <2>2
  <2>4. QED BY <2>3 DEF Listed
<1>8. ASSUME NEW x
      PROVE  (\E k \in 1 .. n : Occurs(x, s[k])) <=>
             \E k \in Optionals, verb \in Verb : x = Entry(verb, "branch", pipeline_elements[k].branch)
  <2>1. ASSUME NEW k \in Optionals, NEW verb \in Verb,
               x = Entry(verb, "branch", pipeline_elements[k].branch)
        PROVE  \E j \in 1 .. n : Occurs(x, s[j])
    <3>1. PICK j \in Optionals :
            ~Listed(j) /\ pipeline_elements[j].branch = pipeline_elements[k].branch
      BY <1>7
    <3>2. j \in 1 .. n /\ Occurs(x, s[j])
      BY <1>4, <2>1, <3>1, ElementTypes
    <3>3. QED BY <3>2
  <2>2. QED BY <1>4, <2>1, ElementTypes
<1>9. QED BY <1>3, <1>6, <1>8


Registrations ==
  FixedRegistrations \o OptionalElementsRegistrations \o OptionalBranchesRegistrations

LEMMA AllRegister ==
  ASSUME ParserOK
  PROVE  /\ Registrations \in Seq(Registration)
         /\ \A x : Occurs(x, Registrations) <=>
              \/ Occurs(x, FixedRegistrations) \/ Occurs(x, OptionalElementsRegistrations)
              \/ Occurs(x, OptionalBranchesRegistrations)
<1> DEFINE F == FixedRegistrations
           E == OptionalElementsRegistrations
           B == OptionalBranchesRegistrations
<1>1. F \in Seq(Registration) /\ E \in Seq(Registration) /\ B \in Seq(Registration)
  BY FixedRegisters, ElementsRegister, BranchesRegister
<1>2. Registrations = (F \o E) \o B
  BY DEF Registrations
<1> HIDE DEF F, E, B
<1>3. F \o E \in Seq(Registration)
  BY <1>1, ConcatProperties
<1>4. \A x : Occurs(x, F \o E) <=> Occurs(x, F) \/ Occurs(x, E)
  BY <1>1, OccursInConcat
<1>5. \A x : Occurs(x, (F \o E) \o B) <=> Occurs(x, F \o E) \/ Occurs(x, B)
  BY <1>1, <1>3, OccursInConcat
<1>6. (F \o E) \o B \in Seq(Registration)
  BY <1>1, <1>3, ConcatProperties
<1>7. QED BY <1>2, <1>4, <1>5, <1>6 DEF F, E, B

\* The fixed commands and those of elements come before those of branches.
LEMMA ElementsBeforeBranches ==
  ASSUME ParserOK, NEW x, Occurs(x, OptionalElementsRegistrations)
  PROVE  \E m \in 1 .. Len(Registrations) :
           /\ Registrations[m] = x
           /\ \A i \in 1 .. m : \/ Occurs(Registrations[i], FixedRegistrations)
                                \/ Occurs(Registrations[i], OptionalElementsRegistrations)
<1> DEFINE F == FixedRegistrations
           E == OptionalElementsRegistrations
           B == OptionalBranchesRegistrations
<1>1. F \in Seq(Registration) /\ E \in Seq(Registration) /\ B \in Seq(Registration)
  BY FixedRegisters, ElementsRegister, BranchesRegister
<1>2. Registrations = (F \o E) \o B /\ Occurs(x, E)
  BY DEF Registrations
<1> HIDE DEF F, E, B
<1> DEFINE S == F \o E
<1>3. S \in Seq(Registration) /\ Occurs(x, S)
  BY <1>1, <1>2, ConcatProperties, OccursInConcat
<1>4. \A y : Occurs(y, S) <=> Occurs(y, F) \/ Occurs(y, E)
  BY <1>1, OccursInConcat
<1>5. Registrations = S \o B
  BY <1>2
<1> HIDE DEF S
<1>6. /\ Len(S) \in Nat /\ Len(B) \in Nat /\ Len(Registrations) = Len(S) + Len(B)
      /\ \A i \in 1 .. Len(S) : Registrations[i] = S[i]
  <2>1. /\ Len(S \o B) = Len(S) + Len(B)
        /\ \A i \in 1 .. Len(S) + Len(B) : (S \o B)[i] = IF i <= Len(S) THEN S[i] ELSE B[i - Len(S)]
    BY <1>1, <1>3, ConcatProperties
  <2>2. Len(S) \in Nat /\ Len(B) \in Nat
    BY <1>1, <1>3, LenProperties
  <2>3. \A i \in 1 .. Len(S) : i \in 1 .. Len(S) + Len(B) /\ i <= Len(S)
    BY <2>2
  <2>4. QED BY <1>5, <2>1, <2>2, <2>3
<1>7. PICK m \in 1 .. Len(S) : S[m] = x
  BY <1>3 DEF Occurs
<1>8. m \in 1 .. Len(Registrations) /\ \A i \in 1 .. m : i \in 1 .. Len(S)
  BY <1>6, <1>7
<1>9. \A i \in 1 .. m : Occurs(Registrations[i], S)
  BY <1>6, <1>8 DEF Occurs
<1>10. QED BY <1>4, <1>6, <1>7, <1>8, <1>9 DEF F, E

-----------------------------------------------------------------------------
(* Which registration a name is left with *)

\* Of the first d registrations, those whose name is not taken.
Firsts(d) ==
  {i \in 1 .. d : \A j \in 1 .. i - 1 : Registrations[j].name # Registrations[i].name}

Table(d) == {<<Registrations[i].name, Registrations[i].command>> : i \in Firsts(d)}

\* Every name has one.
LEMMA NameHasAFirst ==
  ASSUME NEW d \in Nat, NEW i \in 1 .. d
  PROVE  \E j \in Firsts(d) : j <= i /\ Registrations[j].name = Registrations[i].name
<1> DEFINE T == {j \in 1 .. d : Registrations[j].name = Registrations[i].name}
<1>1. T \in SUBSET Nat /\ i \in T
  OBVIOUS
<1>2. PICK j \in T : \A k \in T : j <= k
  BY <1>1, Least
<1>3. j \in 1 .. d /\ j <= i /\ Registrations[j].name = Registrations[i].name
  BY <1>1, <1>2
<1>4. ASSUME NEW k \in 1 .. j - 1, Registrations[k].name = Registrations[j].name
      PROVE  FALSE
  <2>1. k \in 1 .. d /\ k < j
    BY <1>3
  <2>2. k \in T
    BY <1>3, <1>4, <2>1
  <2>3. j <= k
    BY <1>2, <2>2
  <2>4. QED BY <1>3, <2>1, <2>3
<1>5. QED BY <1>3, <1>4 DEF Firsts

LEMMA NextFirst ==
  ASSUME NEW d \in Nat
  PROVE  Firsts(d + 1) = Firsts(d) \cup
           (IF \E j \in Firsts(d) : Registrations[j].name = Registrations[d + 1].name
            THEN {} ELSE {d + 1})
<1>1. \A i : i \in 1 .. d + 1 <=> i \in 1 .. d \/ i = d + 1
  OBVIOUS
<1>2. d + 1 \notin 1 .. d /\ (d + 1) - 1 = d
  OBVIOUS
<1>3. d + 1 \in Firsts(d + 1)
        <=> \A j \in 1 .. d : Registrations[j].name # Registrations[d + 1].name
  BY <1>1, <1>2 DEF Firsts
<1>4. (\E j \in 1 .. d : Registrations[j].name = Registrations[d + 1].name)
        <=> \E j \in Firsts(d) : Registrations[j].name = Registrations[d + 1].name
  <2>1. Firsts(d) \subseteq 1 .. d
    BY DEF Firsts
  <2>2. QED BY <2>1, NameHasAFirst
<1>5. \A i \in 1 .. d : i \in Firsts(d + 1) <=> i \in Firsts(d)
  BY <1>1 DEF Firsts
<1>6. Firsts(d + 1) \subseteq 1 .. d + 1 /\ Firsts(d) \subseteq 1 .. d
  BY DEF Firsts
<1>7. QED BY <1>1, <1>2, <1>3, <1>4, <1>5, <1>6

\* What has been registered is the table of the first registrations.
FirstWins ==
  phase # "parse" =>
    \E d \in 0 .. Len(Registrations) :
      /\ todo = SubSeq(Registrations, d + 1, Len(Registrations))
      /\ command_map = Table(d)

Phases ==
  /\ phase = "parse" => command_map = {}
  /\ phase # "serve" => touched = {}
  /\ phase = "serve" => todo = <<>>
  /\ phase # "parse" => branch > Len(file)

Makes(f, b, p, e) ==
  /\ e.branch = f[b].name
  /\ e.is_optional = (f[b].elements[p].optional \/ f[b].optional)

\* The loops of the parser: each element they have passed has been made,
EveryElementMade ==
  \A b \in 1 .. Len(file) : \A p \in 1 .. Len(file[b].elements) :
    b < branch \/ (b = branch /\ p < position) =>
      \E k \in 1 .. Len(pipeline_elements) : Makes(file, b, p, pipeline_elements[k])

\* and what has been made is of the file.
MadeOfTheFile ==
  \A k \in 1 .. Len(pipeline_elements) :
    \E b \in 1 .. Len(file) : \E p \in 1 .. Len(file[b].elements) :
      Makes(file, b, p, pipeline_elements[k])

\* Elements are in the order of their branches in the file: source says of each
\* which branch it was made of.
Ordered(source) ==
  \A k \in 1 .. Len(pipeline_elements) :
    /\ source[k] \in 1 .. Len(file) /\ source[k] <= branch
    /\ pipeline_elements[k].branch = file[source[k]].name
    /\ \A j \in 1 .. k : source[j] <= source[k]

InFileOrder == \E source \in [1 .. Len(pipeline_elements) -> Nat] : Ordered(source)

TInv == /\ IInv /\ FirstWins /\ Phases /\ EveryElementMade /\ MadeOfTheFile /\ InFileOrder
        /\ OnlyOptionalTouched
-----------------------------------------------------------------------------
(* The steps *)

LEMMA IInit == Init => IInv
<1> SUFFICES ASSUME Init PROVE IInv
    OBVIOUS
<1>1. <<>> \in Seq(PipelineElement) /\ Len(<<>>) = 0
  BY EmptySeq
<1>2. ParserOK
  BY <1>1 DEF Init, ParserOK
<1>3. IdIsIndex
  BY <1>1 DEF Init, IdIsIndex
<1>4. NamesAreKeys
  BY DEF Init, NamesAreKeys
<1>5. QED BY <1>2, <1>3, <1>4 DEF IInv

\* What the parser makes of an element of the file.
LEMMA Deserialized ==
  ASSUME ParserOK, branch <= Len(file), position <= Len(file[branch].elements)
  PROVE  LET e == DeserializeElement(file[branch].elements[position], file[branch])
         IN  e \in PipelineElement /\ e.id = id
<1> DEFINE Element == [name : Name, optional : BOOLEAN]
<1>1. file \in Seq([name : Name, optional : BOOLEAN, elements : Seq(Element)])
  BY FilesAssumption DEF ParserOK
<1>2. branch \in 1 .. Len(file)
  BY <1>1, LenProperties DEF ParserOK
<1>3. file[branch] \in [name : Name, optional : BOOLEAN, elements : Seq(Element)]
  BY <1>1, <1>2, ElementOfSeq
<1>4. position \in 1 .. Len(file[branch].elements)
  BY <1>3, LenProperties DEF ParserOK
<1>5. file[branch].elements[position] \in Element
  BY <1>3, <1>4, ElementOfSeq
<1>6. id \in Nat
  BY LenProperties DEF ParserOK
<1>7. QED BY <1>3, <1>5, <1>6 DEF DeserializeElement, PipelineElement

LEMMA IParseElement == IInv /\ ParseElement => IInv'
<1> SUFFICES ASSUME IInv, ParseElement PROVE IInv'
    OBVIOUS
<1> DEFINE e == DeserializeElement(file[branch].elements[position], file[branch])
<1>1. e \in PipelineElement /\ e.id = id
  BY Deserialized DEF IInv, ParseElement
<1>2. /\ pipeline_elements' = Append(pipeline_elements, e) /\ id' = id + 1
      /\ position' = position + 1 /\ UNCHANGED <<file, branch, command_map>>
  BY DEF ParseElement
<1> HIDE DEF e
<1>3. /\ pipeline_elements' \in Seq(PipelineElement)
      /\ Len(pipeline_elements') = Len(pipeline_elements) + 1
      /\ \A k \in 1 .. Len(pipeline_elements) : pipeline_elements'[k] = pipeline_elements[k]
      /\ pipeline_elements'[Len(pipeline_elements) + 1] = e
  BY <1>1, <1>2, AppendProperties DEF IInv, ParserOK
<1>4. ParserOK'
  BY <1>2, <1>3 DEF IInv, ParserOK
<1>5. /\ DOMAIN pipeline_elements = 1 .. Len(pipeline_elements)
      /\ DOMAIN pipeline_elements' = 1 .. Len(pipeline_elements) + 1
      /\ Len(pipeline_elements) \in Nat
  BY <1>3, LenProperties DEF IInv, ParserOK
<1>6. IdIsIndex'
  BY <1>1, <1>3, <1>5 DEF IInv, ParserOK, IdIsIndex
<1>7. NamesAreKeys'
  BY <1>2 DEF IInv, NamesAreKeys
<1>8. QED BY <1>4, <1>6, <1>7 DEF IInv

\* Registration leaves what is in the table, and adds free names only.
LEMMA Registers ==
  ASSUME NamesAreKeys, RegisterCommand
  PROVE  command_map \subseteq command_map' /\ NamesAreKeys'
<1> DEFINE entry == <<Head(todo).name, Head(todo).command>>
<1>1. CASE entry[1] \in Registered
  BY <1>1 DEF RegisterCommand, NamesAreKeys
<1>2. CASE entry[1] \notin Registered
  <2>1. command_map' = command_map \cup {entry}
    BY <1>2 DEF RegisterCommand
  <2>2. \A m \in command_map : m[1] # entry[1]
    BY <1>2 DEF Registered
  <2> HIDE DEF entry
  <2>3. QED BY <2>1, <2>2 DEF NamesAreKeys
<1>3. QED BY <1>1, <1>2

LEMMA INext == IInv /\ [Next]_vars => IInv'
<1> SUFFICES ASSUME IInv, [Next]_vars PROVE IInv'
    OBVIOUS
<1> USE DEF IInv
<1>1. CASE ParseElement
  BY <1>1, IParseElement
<1>2. CASE ParseBranch
  BY <1>2 DEF ParseBranch, ParserOK, IdIsIndex, NamesAreKeys
<1>3. CASE RegisterCommand
  <2>1. UNCHANGED <<file, branch, position, id, pipeline_elements>>
    BY <1>3 DEF RegisterCommand
  <2>2. ParserOK' /\ IdIsIndex'
    BY <2>1 DEF ParserOK, IdIsIndex
  <2>3. QED BY <1>3, <2>2, Registers
<1>4. CASE ParseEnd \/ Listen \/ UNCHANGED vars
           \/ \E name \in (Verb \X Name) \cup Fixed : Dispatch(name)
  <2>1. UNCHANGED <<file, branch, position, id, pipeline_elements, command_map>>
    BY <1>4 DEF ParseEnd, Listen, Dispatch, vars
  <2>2. QED BY <2>1 DEF ParserOK, IdIsIndex, NamesAreKeys
<1>5. QED BY <1>1, <1>2, <1>3, <1>4 DEF Next

LEMMA Invariance == Spec => []IInv
BY IInit, INext, PTL DEF Spec

-----------------------------------------------------------------------------
(* The steps, for the table *)

LEMMA RegistrationsStay ==
  ASSUME UNCHANGED pipeline_elements
  PROVE  Registrations' = Registrations /\ \A d : Table(d)' = Table(d)
<1>1. Registrations' = Registrations
  BY DEF Registrations, OptionalElementsRegistrations, OptionalBranchesRegistrations,
         Optionals, Listed
<1>2. QED BY <1>1 DEF Table, Firsts

LEMMA FirstWinsStays ==
  ASSUME FirstWins, UNCHANGED <<pipeline_elements, todo, command_map>>, phase' # "parse" => phase # "parse"
  PROVE  FirstWins'
<1>1. Registrations' = Registrations /\ \A d : Table(d)' = Table(d)
  BY RegistrationsStay
<1>2. SUFFICES ASSUME phase' # "parse" PROVE FirstWins'
  BY DEF FirstWins
<1>3. PICK d \in 0 .. Len(Registrations) :
        /\ todo = SubSeq(Registrations, d + 1, Len(Registrations))
        /\ command_map = Table(d)
  BY <1>2 DEF FirstWins
<1>4. d \in 0 .. Len(Registrations')
      /\ todo' = SubSeq(Registrations', d + 1, Len(Registrations'))
      /\ command_map' = Table(d)'
  BY <1>1, <1>3
<1>5. QED BY <1>4 DEF FirstWins

LEMMA TableBegins ==
  ASSUME ParserOK, Phases, ParseEnd
  PROVE  FirstWins'
<1>1. /\ todo' = Registrations /\ command_map' = {} /\ UNCHANGED pipeline_elements
  BY DEF ParseEnd, Registrations, Phases
<1>2. Registrations' = Registrations /\ \A d : Table(d)' = Table(d)
  BY <1>1, RegistrationsStay
<1>3. /\ Registrations \in Seq(Registration) /\ Len(Registrations) \in Nat
      /\ SubSeq(Registrations, 0 + 1, Len(Registrations)) = Registrations
  BY AllRegister, LenProperties, SubSeqFull
<1>4. Table(0) = {}
  <2>1. Firsts(0) = {}
    BY DEF Firsts
  <2>2. QED BY <2>1 DEF Table
<1>5. /\ 0 \in 0 .. Len(Registrations')
      /\ todo' = SubSeq(Registrations', 0 + 1, Len(Registrations'))
      /\ command_map' = Table(0)'
  BY <1>1, <1>2, <1>3, <1>4
<1>6. QED BY <1>5 DEF FirstWins

LEMMA TableGrows ==
  ASSUME ParserOK, FirstWins, RegisterCommand
  PROVE  FirstWins'
<1> DEFINE n == Len(Registrations)
<1>1. UNCHANGED <<pipeline_elements, phase>> /\ phase # "parse" /\ todo # <<>> /\ todo' = Tail(todo)
  BY DEF RegisterCommand
<1>2. Registrations' = Registrations /\ \A d : Table(d)' = Table(d)
  BY <1>1, RegistrationsStay
<1>3. Registrations \in Seq(Registration) /\ n \in Nat
  BY AllRegister, LenProperties
<1>4. PICK d \in 0 .. n :
        todo = SubSeq(Registrations, d + 1, n) /\ command_map = Table(d)
  BY <1>1 DEF FirstWins
<1>5. d + 1 \in 1 .. n
  <2>1. d = n => todo = <<>>
    BY <1>3, <1>4, SubSeqEmpty
  <2>2. QED BY <1>1, <1>3, <2>1
<1>6. Head(todo) = Registrations[d + 1] /\ todo' = SubSeq(Registrations, (d + 1) + 1, n)
  <2>1. n \in d + 1 .. n
    BY <1>3, <1>5
  <2>2. QED BY <1>1, <1>3, <1>4, <1>5, <2>1, HeadTailOfSubSeq
<1>7. command_map' = Table(d + 1)
  <2> DEFINE r == Registrations[d + 1]
  <2>1. r.name \in Registered <=> \E j \in Firsts(d) : Registrations[j].name = r.name
    <3>1. \A x : x \in Registered <=> \E entry \in Table(d) : entry[1] = x
      BY <1>4 DEF Registered
    <3>2. ASSUME NEW j \in Firsts(d)
          PROVE  \E entry \in Table(d) : entry[1] = Registrations[j].name
      <4>1. <<Registrations[j].name, Registrations[j].command>> \in Table(d)
        BY DEF Table
      <4>2. <<Registrations[j].name, Registrations[j].command>>[1] = Registrations[j].name
        OBVIOUS
      <4>3. QED BY <4>1, <4>2
    <3>3. \A entry \in Table(d) : \E j \in Firsts(d) : entry[1] = Registrations[j].name
      BY DEF Table
    <3>4. QED BY <3>1, <3>2, <3>3
  <2>2. Firsts(d + 1) = Firsts(d) \cup
          (IF \E j \in Firsts(d) : Registrations[j].name = Registrations[d + 1].name
           THEN {} ELSE {d + 1})
    BY <1>5, NextFirst
  <2>3. command_map' = IF r.name \in Registered THEN command_map
                       ELSE command_map \cup {<<r.name, r.command>>}
    BY <1>6 DEF RegisterCommand
  <2>4. CASE r.name \in Registered
    <3>1. Firsts(d + 1) = Firsts(d)
      BY <2>1, <2>2, <2>4
    <3>2. QED BY <1>4, <2>3, <2>4, <3>1 DEF Table
  <2>5. CASE r.name \notin Registered
    <3>1. Firsts(d + 1) = Firsts(d) \cup {d + 1}
      BY <2>1, <2>2, <2>5
    <3>2. Table(d + 1) = Table(d) \cup {<<r.name, r.command>>}
      BY <3>1, Zenon DEF Table
    <3>3. QED BY <1>4, <2>3, <2>5, <3>2
  <2>6. QED BY <2>4, <2>5
<1>8. /\ d + 1 \in 0 .. Len(Registrations')
      /\ todo' = SubSeq(Registrations', (d + 1) + 1, Len(Registrations'))
      /\ command_map' = Table(d + 1)'
  BY <1>2, <1>5, <1>6, <1>7
<1>9. QED BY <1>8 DEF FirstWins

\* A command comes from a registration.
LEMMA CommandOrigin ==
  ASSUME ParserOK, FirstWins, phase # "parse", NEW entry \in command_map
  PROVE  \E x : Occurs(x, Registrations) /\ entry = <<x.name, x.command>>
<1>1. PICK d \in 0 .. Len(Registrations) : command_map = Table(d)
  BY DEF FirstWins
<1>2. PICK i \in Firsts(d) : entry = <<Registrations[i].name, Registrations[i].command>>
  BY <1>1 DEF Table
<1>3. i \in 1 .. Len(Registrations)
  <2>1. Len(Registrations) \in Nat
    BY AllRegister, LenProperties
  <2>2. QED BY <1>1, <2>1 DEF Firsts
<1>4. QED BY <1>2, <1>3 DEF Occurs

\* What a command in the table is given.
LEMMA TargetsOptional ==
  ASSUME ParserOK, FirstWins, phase # "parse", NamesDiffer, BranchesWhole,
         NEW entry \in command_map
  PROVE  Targets(entry[2]) \subseteq Optionals
<1>1. PICK x : Occurs(x, Registrations) /\ entry = <<x.name, x.command>>
  BY CommandOrigin
<1>2. entry[2] = x.command
  BY <1>1
<1>3. CASE Occurs(x, FixedRegistrations)
  <2>1. x.command.class = "fixed"
    BY <1>3, FixedRegisters
  <2>2. QED BY <1>2, <2>1 DEF Targets
<1>4. CASE Occurs(x, OptionalElementsRegistrations)
  <2>1. PICK k \in Optionals, verb \in Verb :
          x = Entry(verb, "element", pipeline_elements[k].name)
    BY <1>4, ElementsRegister
  <2>2. x.command.class = "element" /\ x.command.name = pipeline_elements[k].name
    BY <2>1 DEF Entry, Command
  <2>3. Targets(entry[2]) = FirstNamed(pipeline_elements[k].name)
    BY <1>2, <2>2 DEF Targets
  <2>4. k \in DOMAIN pipeline_elements
    BY DEF Optionals
  <2>5. QED BY <2>3, <2>4 DEF FirstNamed, NamesDiffer
<1>5. CASE Occurs(x, OptionalBranchesRegistrations)
  <2>1. PICK k \in Optionals, verb \in Verb :
          x = Entry(verb, "branch", pipeline_elements[k].branch)
    BY <1>5, BranchesRegister
  <2> DEFINE name == pipeline_elements[k].branch
  <2>2. x.command.class = "branch" /\ x.command.name = name /\ x.command.verb = verb
    BY <2>1 DEF Entry, Command
  <2> HIDE DEF name
  <2>3. Disconnected(name) \subseteq Optionals
    BY BranchesWhole DEF Disconnected, BranchesWhole, FirstInBranch, OfBranch
  <2>4. Targets(entry[2]) \subseteq Optionals
    BY <1>2, <2>2, <2>3 DEF Targets, Verb
  <2>5. QED BY <2>4
<1>6. QED BY <1>1, <1>3, <1>4, <1>5, AllRegister

-----------------------------------------------------------------------------
(* The steps, for the loops of the parser *)

LEMMA FileTypes ==
  ASSUME ParserOK
  PROVE  /\ Len(file) \in Nat
         /\ \A b \in 1 .. Len(file) : /\ file[b].name \in Name
                                      /\ Len(file[b].elements) \in Nat
<1> DEFINE Element == [name : Name, optional : BOOLEAN]
           Branch == [name : Name, optional : BOOLEAN, elements : Seq(Element)]
<1>1. file \in Seq(Branch)
  BY FilesAssumption DEF ParserOK
<1>2. Len(file) \in Nat /\ \A b \in 1 .. Len(file) : file[b] \in Branch
  BY <1>1, LenProperties, ElementOfSeq
<1>3. \A b \in 1 .. Len(file) : file[b].name \in Name /\ file[b].elements \in Seq(Element)
  BY <1>2
<1>4. QED BY <1>2, <1>3, LenProperties

LEMMA ParserVisits ==
  ASSUME IInv, ParseElement, EveryElementMade, MadeOfTheFile
  PROVE  EveryElementMade' /\ MadeOfTheFile'
<1> DEFINE n == Len(pipeline_elements)
           e == DeserializeElement(file[branch].elements[position], file[branch])
<1>1. /\ pipeline_elements' = Append(pipeline_elements, e)
      /\ position' = position + 1 /\ UNCHANGED <<file, branch>>
      /\ branch \in 1 .. Len(file) /\ position \in 1 .. Len(file[branch].elements)
  BY FileTypes DEF ParseElement, IInv, ParserOK
<1>2. e \in PipelineElement
  BY Deserialized DEF IInv, ParseElement
<1>3. Makes(file, branch, position, e)
  BY DEF DeserializeElement, Makes
<1> HIDE DEF e
<1>4. /\ Len(pipeline_elements') = n + 1 /\ n \in Nat
      /\ \A k \in 1 .. n : pipeline_elements'[k] = pipeline_elements[k]
      /\ pipeline_elements'[n + 1] = e
  BY <1>1, <1>2, AppendProperties, LenProperties DEF IInv, ParserOK
<1> HIDE DEF n
<1>5. \A k : k \in 1 .. n + 1 <=> k \in 1 .. n \/ k = n + 1
  BY <1>4
<1>6. EveryElementMade'
  <2> SUFFICES ASSUME NEW b \in 1 .. Len(file), NEW p \in 1 .. Len(file[b].elements),
                      b < branch \/ (b = branch /\ p < position + 1)
               PROVE  \E k \in 1 .. n + 1 : Makes(file, b, p, pipeline_elements'[k])
    BY <1>1, <1>4 DEF EveryElementMade
  <2>1. CASE b = branch /\ p = position
    BY <1>3, <1>4, <1>5, <2>1
  <2>2. CASE ~(b = branch /\ p = position)
    <3>1. b < branch \/ (b = branch /\ p < position)
      BY <1>1, <2>2, FileTypes DEF IInv
    <3>2. QED BY <1>4, <1>5, <3>1 DEF EveryElementMade, n
  <2>3. QED BY <2>1, <2>2
<1>7. MadeOfTheFile'
  <2> SUFFICES ASSUME NEW k \in 1 .. n + 1
               PROVE  \E b \in 1 .. Len(file) : \E p \in 1 .. Len(file[b].elements) :
                        Makes(file, b, p, pipeline_elements'[k])
    BY <1>1, <1>4 DEF MadeOfTheFile
  <2>1. CASE k = n + 1
    BY <1>1, <1>3, <1>4, <2>1
  <2>2. CASE k \in 1 .. n
    BY <1>4, <2>2 DEF MadeOfTheFile, n
  <2>3. QED BY <1>5, <2>1, <2>2
<1>8. QED BY <1>6, <1>7

LEMMA ParserPasses ==
  ASSUME IInv, ParseBranch, EveryElementMade, MadeOfTheFile
  PROVE  EveryElementMade' /\ MadeOfTheFile'
<1>1. /\ UNCHANGED <<file, pipeline_elements>> /\ branch' = branch + 1 /\ position' = 1
      /\ branch \in 1 .. Len(file) /\ position > Len(file[branch].elements)
      /\ branch \in Nat /\ position \in Nat
  BY FileTypes DEF ParseBranch, IInv, ParserOK
<1>2. ASSUME NEW b \in 1 .. Len(file), NEW p \in 1 .. Len(file[b].elements),
             b < branch + 1 \/ (b = branch + 1 /\ p < 1)
      PROVE  b < branch \/ (b = branch /\ p < position)
  BY <1>1, <1>2, FileTypes DEF IInv
<1>3. EveryElementMade'
  BY <1>1, <1>2 DEF EveryElementMade
<1>4. QED BY <1>1, <1>3 DEF MadeOfTheFile
\* The next element is of the branch the parser is at, which is none before those
\* of the elements it has made.
LEMMA OrderGrows ==
  ASSUME IInv, ParseElement, InFileOrder
  PROVE  InFileOrder'
<1> DEFINE n == Len(pipeline_elements)
           e == DeserializeElement(file[branch].elements[position], file[branch])
<1>1. /\ pipeline_elements' = Append(pipeline_elements, e) /\ UNCHANGED <<file, branch>>
      /\ branch \in 1 .. Len(file) /\ branch \in Nat /\ e.branch = file[branch].name
  BY FileTypes DEF ParseElement, IInv, ParserOK, DeserializeElement
<1>2. e \in PipelineElement
  BY Deserialized DEF IInv, ParseElement
<1> HIDE DEF e
<1>3. /\ Len(pipeline_elements') = n + 1 /\ n \in Nat
      /\ \A k \in 1 .. n : pipeline_elements'[k] = pipeline_elements[k]
      /\ pipeline_elements'[n + 1] = e
  BY <1>1, <1>2, AppendProperties, LenProperties DEF IInv, ParserOK
<1>4. PICK source \in [1 .. n -> Nat] : Ordered(source)
  BY DEF InFileOrder
<1>5. \A k \in 1 .. n :
        /\ source[k] \in 1 .. Len(file) /\ source[k] <= branch
        /\ pipeline_elements[k].branch = file[source[k]].name
        /\ \A j \in 1 .. k : source[j] <= source[k]
  BY <1>4 DEF Ordered
<1> HIDE DEF n
<1>6. PICK s \in [1 .. n + 1 -> Nat] :
        s = [k \in 1 .. n + 1 |-> IF k = n + 1 THEN branch ELSE source[k]]
  <2>1. \A k \in 1 .. n + 1 : k = n + 1 \/ k \in 1 .. n
    BY <1>3
  <2>2. [k \in 1 .. n + 1 |-> IF k = n + 1 THEN branch ELSE source[k]] \in [1 .. n + 1 -> Nat]
    BY <1>1, <1>4, <2>1
  <2>3. QED BY <2>2
<1>7. s[n + 1] = branch /\ \A k \in 1 .. n : s[k] = source[k]
  BY <1>3, <1>6
<1>8. ASSUME NEW k \in 1 .. n + 1
      PROVE  /\ s[k] \in 1 .. Len(file) /\ s[k] <= branch
             /\ pipeline_elements'[k].branch = file[s[k]].name
             /\ \A j \in 1 .. k : s[j] <= s[k]
  <2>1. CASE k = n + 1
    <3>1. \A j \in 1 .. k : j = n + 1 \/ j \in 1 .. n
      BY <1>3, <2>1
    <3>2. QED BY <1>1, <1>3, <1>5, <1>7, <2>1, <3>1
  <2>2. CASE k \in 1 .. n
    <3>1. \A j \in 1 .. k : j \in 1 .. n
      BY <1>3, <2>2
    <3>2. QED BY <1>3, <1>5, <1>7, <2>2, <3>1
  <2>3. QED BY <1>3, <2>1, <2>2
<1>9. Ordered(s)'
  <2>1. Len(pipeline_elements)' = n + 1 /\ file' = file /\ branch' = branch
    BY <1>1, <1>3
  <2>2. QED BY <1>8, <2>1 DEF Ordered
<1>10. \E r \in [1 .. n + 1 -> Nat] : Ordered(r)'
  BY <1>6, <1>9
<1>11. QED BY <1>3, <1>10 DEF InFileOrder

LEMMA OrderNext == IInv /\ InFileOrder /\ [Next]_vars => InFileOrder'
<1> SUFFICES ASSUME IInv, InFileOrder, [Next]_vars PROVE InFileOrder'
    OBVIOUS
<1>1. CASE ParseElement
  BY <1>1, OrderGrows
<1>2. CASE ~ParseElement
  <2>1. /\ UNCHANGED <<file, pipeline_elements>> /\ branch' \in {branch, branch + 1}
        /\ branch \in Nat
    BY <1>2 DEF Next, vars, ParseBranch, ParseEnd, RegisterCommand, Listen, Dispatch, IInv, ParserOK
  <2>2. PICK source \in [1 .. Len(pipeline_elements) -> Nat] : Ordered(source)
    BY DEF InFileOrder
  <2>3. Ordered(source)'
    BY <2>1, <2>2 DEF Ordered
  <2>4. QED BY <2>1, <2>2, <2>3 DEF InFileOrder
<1>3. QED BY <1>1, <1>2

\* A branch of the file that no other shares its name with has its elements in
\* one run: what disconnectBranch takes out is all of it, if it is optional.
LEMMA OneRun ==
  ASSUME ParserOK, MadeOfTheFile, InFileOrder, NEW b \in 1 .. Len(file), file[b].optional,
         \A c \in 1 .. Len(file) : file[c].name = file[b].name => c = b
  PROVE  LET name == file[b].name
         IN  OfBranch(name) \subseteq Optionals /\ Disconnected(name) = OfBranch(name)
<1> DEFINE n == Len(pipeline_elements)
           T == OfBranch(file[b].name)
<1>1. n \in Nat /\ T = {k \in 1 .. n : pipeline_elements[k].branch = file[b].name}
  BY ElementTypes DEF OfBranch
<1>2. PICK source \in [1 .. n -> Nat] : Ordered(source)
  BY DEF InFileOrder
<1>3. \A k \in 1 .. n : k \in T <=> source[k] = b
  BY <1>1, <1>2 DEF Ordered
<1>4. T \subseteq Optionals
  <2> SUFFICES ASSUME NEW k \in T PROVE k \in Optionals
      OBVIOUS
  <2>1. k \in 1 .. n /\ pipeline_elements[k].branch = file[b].name
    BY <1>1
  <2>2. PICK c \in 1 .. Len(file) : \E p \in 1 .. Len(file[c].elements) :
          Makes(file, c, p, pipeline_elements[k])
    BY <2>1 DEF MadeOfTheFile
  <2>3. c = b
    BY <2>1, <2>2 DEF Makes
  <2>4. pipeline_elements[k].is_optional
    BY <2>2, <2>3 DEF Makes
  <2>5. QED BY <2>1, <2>4, ElementTypes DEF Optionals
<1>5. ASSUME NEW k \in T PROVE k \in Disconnected(file[b].name)
  <2>1. T \in SUBSET Nat /\ T # {}
    BY <1>1
  <2>2. PICK f \in T : \A j \in T : f <= j
    BY <2>1, Least
  <2>3. f \in FirstInBranch(file[b].name) /\ f \in Optionals /\ f <= k
    BY <1>4, <2>2 DEF FirstInBranch
  <2>4. ASSUME NEW j \in f .. k PROVE j \in T
    <3>1. f \in 1 .. n /\ k \in 1 .. n /\ j \in 1 .. n /\ f \in 1 .. j /\ j \in 1 .. k
      BY <1>1
    <3>2. source[f] = b /\ source[k] = b /\ source[j] \in Nat
      BY <1>2, <1>3, <3>1
    <3>3. source[f] <= source[j] /\ source[j] <= source[k]
      BY <1>2, <3>1 DEF Ordered
    <3>4. b \in Nat
      BY FileTypes
    <3>5. source[j] = b
      BY <3>2, <3>3, <3>4
    <3>6. QED BY <1>3, <3>1, <3>5
  <2>5. f .. k \subseteq T
    BY <2>4
  <2>6. QED BY <2>3, <2>5 DEF Disconnected
<1>6. Disconnected(file[b].name) \subseteq T
  BY DEF Disconnected
<1>7. QED BY <1>4, <1>5, <1>6

-----------------------------------------------------------------------------
(* The invariant of the table *)

LEMMA TInit == Init => TInv
<1> SUFFICES ASSUME Init PROVE TInv
    OBVIOUS
<1>1. IInv
  BY IInit
<1>2. Len(pipeline_elements) = 0 /\ branch = 1 /\ position = 1
  BY EmptySeq DEF Init
<1>3. FirstWins /\ Phases /\ OnlyOptionalTouched
  BY DEF Init, FirstWins, Phases, OnlyOptionalTouched
<1>4. Len(file) \in Nat /\ \A b \in 1 .. Len(file) : Len(file[b].elements) \in Nat
  BY <1>1, FileTypes DEF IInv
<1>5. EveryElementMade
  <2>1. \A b \in 1 .. Len(file) : \A p \in 1 .. Len(file[b].elements) :
          ~(b < branch \/ (b = branch /\ p < position))
    BY <1>2, <1>4
  <2>2. QED BY <2>1 DEF EveryElementMade
<1>6. MadeOfTheFile
  BY <1>2 DEF MadeOfTheFile
<1>7. InFileOrder
  <2> DEFINE source == [k \in 1 .. Len(pipeline_elements) |-> 1]
  <2>1. source \in [1 .. Len(pipeline_elements) -> Nat] /\ Ordered(source)
    BY <1>2 DEF Ordered
  <2>2. QED BY <2>1 DEF InFileOrder
<1>8. QED BY <1>1, <1>3, <1>5, <1>6, <1>7 DEF TInv

LEMMA PhasesStay == IInv /\ Phases /\ [Next]_vars => Phases'
<1> SUFFICES ASSUME IInv, Phases, [Next]_vars PROVE Phases'
    OBVIOUS
<1> USE DEF Phases
<1>1. CASE ParseElement
  BY <1>1 DEF ParseElement
<1>2. CASE ParseBranch
  BY <1>2 DEF ParseBranch
<1>3. CASE ParseEnd
  BY <1>3 DEF ParseEnd
<1>4. CASE RegisterCommand
  BY <1>4 DEF RegisterCommand
<1>5. CASE Listen
  BY <1>5 DEF Listen
<1>6. CASE \E name \in (Verb \X Name) \cup Fixed : Dispatch(name)
  BY <1>6 DEF Dispatch
<1>7. CASE UNCHANGED vars
  BY <1>7 DEF vars
<1>8. QED BY <1>1, <1>2, <1>3, <1>4, <1>5, <1>6, <1>7 DEF Next

LEMMA FirstWinsNext == IInv /\ Phases /\ FirstWins /\ [Next]_vars => FirstWins'
<1> SUFFICES ASSUME IInv, Phases, FirstWins, [Next]_vars PROVE FirstWins'
    OBVIOUS
<1>1. CASE ParseElement \/ ParseBranch
  BY <1>1 DEF ParseElement, ParseBranch, FirstWins
<1>2. CASE ParseEnd
  BY <1>2, TableBegins DEF IInv
<1>3. CASE RegisterCommand
  BY <1>3, TableGrows DEF IInv
<1>4. CASE Listen \/ UNCHANGED vars \/ \E name \in (Verb \X Name) \cup Fixed : Dispatch(name)
  <2>1. /\ UNCHANGED <<pipeline_elements, todo, command_map>>
        /\ phase' # "parse" => phase # "parse"
    BY <1>4 DEF Listen, vars, Dispatch
  <2>2. QED BY <2>1, FirstWinsStays
<1>5. QED BY <1>1, <1>2, <1>3, <1>4 DEF Next

LEMMA MadeNext ==
  IInv /\ EveryElementMade /\ MadeOfTheFile /\ [Next]_vars => EveryElementMade' /\ MadeOfTheFile'
<1> SUFFICES ASSUME IInv, EveryElementMade, MadeOfTheFile, [Next]_vars
             PROVE  EveryElementMade' /\ MadeOfTheFile'
    OBVIOUS
<1>1. CASE ParseElement
  BY <1>1, ParserVisits
<1>2. CASE ParseBranch
  BY <1>2, ParserPasses
<1>3. CASE ~ParseElement /\ ~ParseBranch
  <2>1. UNCHANGED <<file, branch, position, pipeline_elements>>
    BY <1>3 DEF Next, vars, ParseEnd, RegisterCommand, Listen, Dispatch
  <2>2. QED BY <2>1 DEF EveryElementMade, MadeOfTheFile
<1>4. QED BY <1>1, <1>2, <1>3

LEMMA TouchedNext ==
  IInv /\ Phases /\ FirstWins /\ OnlyOptionalTouched /\ [Next]_vars => OnlyOptionalTouched'
<1> SUFFICES ASSUME IInv, Phases, FirstWins, OnlyOptionalTouched, [Next]_vars
             PROVE  OnlyOptionalTouched'
    OBVIOUS
<1>1. ASSUME NEW name, Dispatch(name)
      PROVE  OnlyOptionalTouched'
  <2>1. SUFFICES ASSUME NamesDiffer, BranchesWhole PROVE touched' \subseteq Optionals
    BY <1>1 DEF Dispatch, OnlyOptionalTouched, NamesDiffer, BranchesWhole, FirstInBranch,
                OfBranch, Optionals
  <2>2. \A entry \in command_map : Targets(entry[2]) \subseteq Optionals
    BY <1>1, <2>1, TargetsOptional DEF Dispatch, IInv
  <2>3. QED BY <1>1, <2>2 DEF Dispatch
<1>2. CASE ParseElement \/ ParseBranch
  BY <1>2 DEF ParseElement, ParseBranch, Phases, OnlyOptionalTouched
<1>3. CASE ParseEnd \/ RegisterCommand \/ Listen \/ UNCHANGED vars
  <2>1. UNCHANGED <<pipeline_elements, touched>>
    BY <1>3 DEF ParseEnd, RegisterCommand, Listen, vars
  <2>2. QED BY <2>1 DEF OnlyOptionalTouched, NamesDiffer, BranchesWhole, FirstInBranch, OfBranch,
                        Optionals
<1>4. QED BY <1>1, <1>2, <1>3 DEF Next

LEMMA TNext == TInv /\ [Next]_vars => TInv'
BY INext, PhasesStay, FirstWinsNext, MadeNext, OrderNext, TouchedNext DEF TInv

LEMMA TInvariance == Spec => []TInv
BY TInit, TNext, PTL DEF Spec

-----------------------------------------------------------------------------
(* What a served table holds *)

LEMMA ServedTable ==
  ASSUME TInv, phase = "serve"
  PROVE  command_map = Table(Len(Registrations))
<1> DEFINE n == Len(Registrations)
<1>1. Registrations \in Seq(Registration) /\ n \in Nat
  BY AllRegister, LenProperties DEF TInv, IInv
<1>2. PICK d \in 0 .. n : todo = SubSeq(Registrations, d + 1, n) /\ command_map = Table(d)
  BY DEF TInv, FirstWins
<1>3. todo = <<>>
  BY DEF TInv, Phases
<1>4. ~(d + 1 <= n)
  <2> SUFFICES ASSUME d + 1 <= n PROVE FALSE
      OBVIOUS
  <2>1. \A i \in d + 1 .. n : Registrations[i] \in Registration
    BY <1>1, <1>2, ElementOfSeq
  <2>2. Len(SubSeq(Registrations, d + 1, n)) = n - (d + 1) + 1
    BY <1>1, <1>2, <2>1, SubSeqProperties
  <2>3. Len(todo) = n - (d + 1) + 1
    BY <1>2, <2>2
  <2>4. Len(todo) = 0
    BY <1>3, EmptySeq
  <2>5. QED BY <1>1, <1>2, <2>3, <2>4
<1>5. d = n
  BY <1>1, <1>2, <1>4
<1>6. QED BY <1>2, <1>5

\* A registration no fixed command takes the name of leaves in the table a
\* command of that name; it is the element's if there is one.
LEMMA ServedName ==
  ASSUME TInv, phase = "serve", NEW x, Occurs(x, Registrations), x.name \notin Fixed
  PROVE  \E y : /\ y.name = x.name /\ <<y.name, y.command>> \in command_map
                /\ Occurs(x, OptionalElementsRegistrations)
                     => Occurs(y, OptionalElementsRegistrations)
                /\ \/ Occurs(y, OptionalElementsRegistrations)
                   \/ Occurs(y, OptionalBranchesRegistrations)
<1> DEFINE n == Len(Registrations)
<1>1. ParserOK /\ Registrations \in Seq(Registration) /\ n \in Nat
  BY AllRegister, LenProperties DEF TInv, IInv
<1>2. PICK m \in 1 .. n :
        /\ Registrations[m] = x
        /\ Occurs(x, OptionalElementsRegistrations) =>
             \A i \in 1 .. m : \/ Occurs(Registrations[i], FixedRegistrations)
                               \/ Occurs(Registrations[i], OptionalElementsRegistrations)
  <2>1. CASE Occurs(x, OptionalElementsRegistrations)
    BY <1>1, <2>1, ElementsBeforeBranches
  <2>2. CASE ~Occurs(x, OptionalElementsRegistrations)
    BY <2>2 DEF Occurs
  <2>3. QED BY <2>1, <2>2
<1>3. PICK j \in Firsts(n) : j <= m /\ Registrations[j].name = Registrations[m].name
  BY <1>1, NameHasAFirst
<1>4. j \in 1 .. n /\ j \in 1 .. m
  BY <1>3 DEF Firsts
<1> DEFINE y == Registrations[j]
<1>5. y.name = x.name /\ <<y.name, y.command>> \in command_map
  BY <1>2, <1>3, ServedTable DEF Table
<1>6. ~Occurs(y, FixedRegistrations)
  BY <1>5, FixedRegisters
<1>7. Occurs(y, Registrations)
  BY <1>4 DEF Occurs
<1>8. QED BY <1>1, <1>2, <1>4, <1>5, <1>6, <1>7, AllRegister

LEMMA ElementReached ==
  ASSUME TInv, phase = "serve", NEW k \in Optionals, NEW verb \in Verb,
         <<verb, pipeline_elements[k].name>> \notin Fixed
  PROVE  Leads(<<verb, pipeline_elements[k].name>>, FirstNamed(pipeline_elements[k].name))
<1> DEFINE name == pipeline_elements[k].name
           x == Entry(verb, "element", name)
<1>1. ParserOK
  BY DEF TInv, IInv
<1>2. Occurs(x, OptionalElementsRegistrations) /\ Occurs(x, Registrations)
  BY <1>1, ElementsRegister, AllRegister
<1>3. x.name = <<verb, name>>
  BY DEF Entry
<1>4. PICK y : /\ y.name = x.name /\ <<y.name, y.command>> \in command_map
               /\ Occurs(y, OptionalElementsRegistrations)
  BY <1>2, <1>3, ServedName
<1>5. PICK i \in Optionals, v \in Verb : y = Entry(v, "element", pipeline_elements[i].name)
  BY <1>1, <1>4, ElementsRegister
<1>6. v = verb /\ pipeline_elements[i].name = name
  BY <1>3, <1>4, <1>5 DEF Entry
<1>7. y.command = Command(verb, "element", name) /\ y.name = <<verb, name>>
  BY <1>5, <1>6 DEF Entry
<1>8. Targets(y.command) = FirstNamed(name) /\ y.command.verb = verb
  BY <1>7 DEF Targets, Command
<1>9. QED
  <2>1. <<<<verb, name>>, y.command>> \in command_map
    BY <1>4, <1>7
  <2>2. y.command \in {entry[2] : entry \in command_map}
    BY <2>1
  <2> HIDE DEF name
  <2>3. <<verb, name>>[1] = verb
    OBVIOUS
  <2>4. Leads(<<verb, name>>, FirstNamed(name))
    BY <1>8, <2>1, <2>2, <2>3 DEF Leads
  <2>5. QED BY <2>4 DEF name

LEMMA BranchReached ==
  ASSUME TInv, phase = "serve", NEW name, NEW verb \in Verb, <<verb, name>> \notin Fixed,
         NEW k \in Optionals, pipeline_elements[k].branch = name,
         \A j \in Optionals : pipeline_elements[j].name # name,
         OfBranch(name) \subseteq Optionals, Disconnected(name) = OfBranch(name)
  PROVE  Leads(<<verb, name>>, OfBranch(name))
<1> DEFINE x == Entry(verb, "branch", name)
<1>1. ParserOK
  BY DEF TInv, IInv
<1>2. Occurs(x, Registrations) /\ x.name = <<verb, name>>
  <2>1. Occurs(x, OptionalBranchesRegistrations)
    BY <1>1, BranchesRegister
  <2>2. QED BY <1>1, <2>1, AllRegister DEF Entry
<1>3. PICK y : /\ y.name = <<verb, name>> /\ <<y.name, y.command>> \in command_map
               /\ \/ Occurs(y, OptionalElementsRegistrations)
                  \/ Occurs(y, OptionalBranchesRegistrations)
  BY <1>2, ServedName
<1>4. ~Occurs(y, OptionalElementsRegistrations)
  <2> SUFFICES ASSUME Occurs(y, OptionalElementsRegistrations) PROVE FALSE
      OBVIOUS
  <2>1. PICK i \in Optionals, v \in Verb : y = Entry(v, "element", pipeline_elements[i].name)
    BY <1>1, ElementsRegister
  <2>2. pipeline_elements[i].name = name
    BY <1>3, <2>1 DEF Entry
  <2>3. QED BY <2>2
<1>5. PICK i \in Optionals, v \in Verb : y = Entry(v, "branch", pipeline_elements[i].branch)
  BY <1>1, <1>3, <1>4, BranchesRegister
<1>6. v = verb /\ pipeline_elements[i].branch = name
  BY <1>3, <1>5 DEF Entry
<1>7. y.command = Command(verb, "branch", name)
  BY <1>5, <1>6 DEF Entry
<1>8. /\ Targets(y.command) = OfBranch(name)
      /\ y.command.verb = verb
  <2>1. y.command.class = "branch" /\ y.command.verb = verb /\ y.command.name = name
    BY <1>7 DEF Command
  <2>2. OfBranch(name) \cap Optionals = OfBranch(name)
    OBVIOUS
  <2>3. QED BY <2>1, <2>2 DEF Targets, Verb
<1>9. <<<<verb, name>>, y.command>> \in command_map
  BY <1>3
<1>10. y.command \in {entry[2] : entry \in command_map}
  BY <1>9
<1>11. <<verb, name>>[1] = verb
  OBVIOUS
<1>12. QED BY <1>8, <1>9, <1>10, <1>11 DEF Leads

LEMMA Reachable == TInv => OptionalIsReachable
<1> SUFFICES ASSUME TInv, phase = "serve" PROVE OptionalIsReachable
    BY DEF OptionalIsReachable
<1>1. ParserOK /\ Len(file) \in Nat /\ DOMAIN file = 1 .. Len(file)
  BY FileTypes, FilesAssumption, LenProperties DEF TInv, IInv, ParserOK
<1>2. ASSUME NEW k \in Optionals, NEW verb \in Verb,
             FirstNamed(pipeline_elements[k].name) = {k},
             <<verb, pipeline_elements[k].name>> \notin Fixed
      PROVE  Leads(<<verb, pipeline_elements[k].name>>, {k})
  BY <1>2, ElementReached
<1>3. ASSUME NEW b \in 1 .. Len(file), NEW verb \in Verb,
             file[b].optional, file[b].elements # <<>>, <<verb, file[b].name>> \notin Fixed,
             \A k \in Optionals : pipeline_elements[k].name # file[b].name,
             \A c \in 1 .. Len(file) : file[c].name = file[b].name => c = b
      PROVE  Leads(<<verb, file[b].name>>, OfBranch(file[b].name))
  <2>1. 1 \in 1 .. Len(file[b].elements)
    <3> DEFINE Element == [name : Name, optional : BOOLEAN]
    <3>1. file \in Seq([name : Name, optional : BOOLEAN, elements : Seq(Element)])
      BY <1>1, FilesAssumption DEF ParserOK
    <3>2. file[b] \in [name : Name, optional : BOOLEAN, elements : Seq(Element)]
      BY <3>1, ElementOfSeq
    <3>3. Len(file[b].elements) \in Nat \ {0}
      BY <1>3, <3>2, EmptySeq
    <3>4. QED BY <3>3
  <2>2. b < branch
    BY <1>1 DEF TInv, Phases, ParserOK
  <2>3. PICK k \in 1 .. Len(pipeline_elements) : Makes(file, b, 1, pipeline_elements[k])
    BY <2>1, <2>2 DEF TInv, EveryElementMade
  <2>4. pipeline_elements[k].branch = file[b].name /\ k \in Optionals
    BY <1>1, <1>3, <2>3, ElementTypes DEF Makes, Optionals
  <2>5. /\ OfBranch(file[b].name) \subseteq Optionals
        /\ Disconnected(file[b].name) = OfBranch(file[b].name)
    BY <1>1, <1>3, OneRun DEF TInv
  <2>6. QED BY <1>3, <2>4, <2>5, BranchReached
<1>4. QED BY <1>1, <1>2, <1>3 DEF OptionalIsReachable

-----------------------------------------------------------------------------
(* Theorems *)

\* The neighbour search of PipelineManager may use an id as an index: for any
\* file, the element with id k is the k-th one (counted from zero).
THEOREM IdsAreIndices == Spec => []IdIsIndex
<1>1. IInv => IdIsIndex
  BY DEF IInv
<1>2. QED BY <1>1, Invariance, PTL

\* No registration takes a name away from a command: for any file, whatever its
\* elements and branches are called, a name means what it was first given to.
THEOREM NamesKeepMeaning == Spec => MeaningStays
<1>1. ASSUME IInv, [Next]_vars
      PROVE  [/\ command_map \subseteq command_map'
              /\ \A m, n \in command_map' : m[1] = n[1] => m = n]_vars
  <2>1. NamesAreKeys'
    BY <1>1, INext DEF IInv
  <2>2. command_map \subseteq command_map'
    <3>1. CASE RegisterCommand
      BY <1>1, <3>1, Registers DEF IInv
    <3>2. CASE ~RegisterCommand
      BY <1>1, <3>2 DEF Next, vars, ParseElement, ParseBranch, ParseEnd, Listen, Dispatch
    <3>3. QED BY <3>1, <3>2
  <2>3. QED BY <2>1, <2>2 DEF NamesAreKeys
<1>2. QED BY <1>1, Invariance, PTL DEF Spec, MeaningStays

\* No command reaches a mandatory element: for any file in which no two elements
\* have one name and branches that begin with an optional element have no
\* mandatory one, though branches and fixed commands may share names with elements.
THEOREM MandatoryUntouched == Spec => []OnlyOptionalTouched
<1>1. TInv => OnlyOptionalTouched
  BY DEF TInv
<1>2. QED BY <1>1, TInvariance, PTL

\* Whatever the file marks optional has its commands once the server listens,
\* and they act on all of it: the disable command of an optional branch on every
\* element of the branch, unless what is registered first, or another branch, has
\* its name.
THEOREM OptionalReached == Spec => []OptionalIsReachable
BY Reachable, TInvariance, PTL
=============================================================================
