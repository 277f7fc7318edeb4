----------------------------- MODULE NamesProofs -----------------------------
(***************************************************************************)
(* For every set of configurations: a handler finds the configuration of   *)
(* an object exactly when its suffix does not occur inside the name of the *)
(* configuration, and then no event is lost on the way back.               *)
(***************************************************************************)
EXTENDS Names, WellFoundedInduction, TLAPS

Name == Seq(Kinds \cup Letters)

First(name, k, i) ==
  i \in 1..Len(name) /\ name[i] = k /\ \A j \in 1..(i - 1) : name[j] # k

\* SelectInSeq finds the first occurrence.
LEMMA FirstFound ==
  ASSUME NEW name \in Name, NEW k \in Kinds, NEW i \in 1..Len(name), First(name, k, i)
  PROVE  SelectInSeq(name, LAMBDA v : v = k) = i
<1> DEFINE I == {j \in 1..Len(name) : name[j] = k}
<1>1. i \in I /\ \A j \in I : i =< j
  BY DEF First
<1>2. \A m : (m \in I /\ \A j \in I : m =< j) => m = i
  BY <1>1
<1>3. Min(I) = i
  BY <1>1, <1>2 DEF Min
<1> QED
  BY <1>1, <1>3 DEF SelectInSeq

\* Removing the first occurrence leaves what is before and what is behind it.
LEMMA FirstRemoved ==
  ASSUME NEW name \in Name, NEW k \in Kinds, NEW i \in 1..Len(name), First(name, k, i)
  PROVE  ConfigName(name, k) = SubSeq(name, 1, i - 1) \o SubSeq(name, i + 1, Len(name))
<1>1. \E j \in 1..Len(name) : name[j] = k
  BY DEF First
<1>2. SelectInSeq(name, LAMBDA v : v = k) = i
  BY FirstFound
<1> QED
  BY <1>1, <1>2 DEF ConfigName, RemoveFirst, RemoveAt

\* A set of naturals has a least element.
LEMMA LeastExists ==
  ASSUME NEW T \in SUBSET Nat, T # {}
  PROVE  \E m \in T : \A n \in T : m =< n
<1>1. PICK m \in T : \A n \in T : ~(<<n, m>> \in OpToRel(<, Nat))
  BY NatLessThanWellFounded, WFMin
<1>2. ASSUME NEW n \in T PROVE m =< n
  <2>1. ~(n < m) => m =< n
    OBVIOUS
  <2>2. n < m => <<n, m>> \in OpToRel(<, Nat)
    BY DEF OpToRel
  <2> QED
    BY <1>1, <2>1, <2>2
<1> QED
  BY <1>2

\* The suffix at the end of an object's name has a first occurrence.
LEMMA FirstExists ==
  ASSUME NEW config \in Name, NEW k \in Kinds
  PROVE  \E i \in 1..(Len(config) + 1) : First(ObjectName(config, k), k, i)
<1> DEFINE name == ObjectName(config, k)
<1> DEFINE T == {i \in 1..Len(name) : name[i] = k}
<1>1. Len(name) = Len(config) + 1 /\ name[Len(config) + 1] = k
  BY DEF ObjectName, Name
<1>2. Len(config) \in Nat
  BY DEF Name
<1>3. T # {} /\ T \in SUBSET Nat
  BY <1>1, <1>2
<1> HIDE DEF T
<1>4. PICK i \in T : \A j \in T : i =< j
  BY <1>3, LeastExists
<1>5. First(name, k, i)
  BY <1>1, <1>2, <1>4 DEF T, First
<1> QED
  BY <1>1, <1>4, <1>5 DEF T

\* A handler finds the name of the configuration exactly when the suffix of its
\* kind is nowhere in that name, or only at its end.
THEOREM NameRecovered ==
  ASSUME NEW config \in Name, NEW k \in Kinds
  PROVE  ConfigName(ObjectName(config, k), k) = config <=> ~Ambiguous(config, k)
<1> DEFINE name == ObjectName(config, k)
<1>1. PICK i \in 1..(Len(config) + 1) : First(name, k, i)
  BY FirstExists
<1>2. /\ name \in Name
      /\ Len(name) = Len(config) + 1
      /\ \A j \in 1..Len(config) : name[j] = config[j]
      /\ name[Len(config) + 1] = k
      /\ Len(config) \in Nat
  BY DEF ObjectName, Name
<1> DEFINE front == SubSeq(name, 1, i - 1)
           back == SubSeq(name, i + 1, Len(name))
           left == front \o back
<1>3. ConfigName(name, k) = left
  BY <1>1, <1>2, FirstRemoved
<1>4. /\ front \in Name /\ Len(front) = i - 1
      /\ \A j \in 1..(i - 1) : front[j] = name[j]
  BY <1>1, <1>2 DEF Name
<1>5. /\ back \in Name /\ Len(back) = Len(config) + 1 - i
      /\ \A j \in 1..(Len(config) + 1 - i) : back[j] = name[j + i]
  BY <1>1, <1>2 DEF Name
<1> HIDE DEF front, back, name
<1>6. /\ left \in Name /\ Len(left) = Len(config)
      /\ \A j \in 1..(i - 1) : left[j] = config[j]
      /\ \A j \in i..Len(config) : left[j] = name[j + 1]
  <2>1. left \in Name /\ Len(left) = Len(config)
    BY <1>1, <1>2, <1>4, <1>5 DEF Name
  <2>2. \A j \in 1..(i - 1) : left[j] = config[j]
    BY <1>1, <1>2, <1>4, <1>5 DEF Name
  <2>3. ASSUME NEW j \in i..Len(config) PROVE left[j] = name[j + 1]
    <3>1. j \in (Len(front) + 1)..(Len(front) + Len(back)) /\ j - Len(front) = j + 1 - i
      BY <1>1, <1>2, <1>4, <1>5
    <3>2. left[j] = back[j - Len(front)]
      BY <1>1, <1>2, <1>4, <1>5, <3>1 DEF Name
    <3>3. j + 1 - i \in 1..(Len(config) + 1 - i)
      BY <1>1, <1>2
    <3>4. back[j + 1 - i] = name[(j + 1 - i) + i]
      BY <1>5, <3>3
    <3> QED
      BY <1>2, <3>1, <3>2, <3>4
  <2> QED
    BY <2>1, <2>2, <2>3
<1> HIDE DEF left
<1>7. left = config <=> \A j \in i..Len(config) : name[j + 1] = name[j]
  BY <1>1, <1>2, <1>6 DEF Name
<1>8. ASSUME ~Ambiguous(config, k), NEW j \in i..Len(config)
      PROVE  name[j + 1] = name[j]
  <2>1. config[i] = k
    BY <1>1, <1>2 DEF First
  <2>2. \A m \in (i + 1)..Len(config) : config[m] = k
    BY <1>1, <1>2, <1>8, <2>1 DEF Ambiguous
  <2>3. \A m \in i..(Len(config) + 1) : name[m] = k
    BY <1>1, <1>2, <2>1, <2>2
  <2> QED
    BY <1>1, <1>2, <2>3
<1>9. ASSUME Ambiguous(config, k), \A j \in i..Len(config) : name[j + 1] = name[j]
      PROVE  FALSE
  <2> DEFINE others == {m \in i..Len(config) : name[m] # k}
  <2>1. PICK a \in 1..Len(config), b \in 1..Len(config) :
           a < b /\ config[a] = k /\ config[b] # k
    BY <1>9 DEF Ambiguous
  <2>2. i =< a
    BY <1>1, <1>2, <2>1 DEF First
  <2>3. b \in others /\ others \in SUBSET Nat
    BY <1>1, <1>2, <2>1, <2>2
  <2>4. PICK m \in others : \A n \in others : m =< n
    BY <2>3, LeastExists
  <2>5. m # i
    BY <1>1, <2>4 DEF First
  <2>6. m - 1 \in i..Len(config) /\ m - 1 \notin others /\ (m - 1) + 1 = m
    BY <1>1, <1>2, <2>4, <2>5
  <2>7. name[m] = name[m - 1]
    BY <1>9, <2>6
  <2> QED
    BY <2>4, <2>6, <2>7
<1> QED
  BY <1>3, <1>7, <1>8, <1>9 DEF name

-----------------------------------------------------------------------------

\* Every step keeps a pending event for what is missing or spoilt.
LEMMA NothingForgottenStep ==
  ASSUME \A config \in Configs, k \in Kinds : ~Ambiguous(config, k),
         NothingForgotten, NamesNext
  PROVE  NothingForgotten'
<1> USE NamesAssumption
<1>1. \A config \in Configs, k \in Kinds :
         /\ Object(config, k).kind = k
         /\ ConfigName(Object(config, k).name, k) = config
  BY NameRecovered DEF Object, Name
<1>2. CASE Harm
  <2>1. PICK o \in there :
           \/ /\ there' = there \ {o}
              /\ spoilt' = spoilt \ {o}
              /\ events' = events \cup {[type |-> "deleted", obj |-> o, fits |-> FALSE]}
           \/ /\ spoilt' = spoilt \cup {o}
              /\ events' = events \cup {[type |-> "updated", obj |-> o, fits |-> FALSE]}
              /\ there' = there
    BY <1>2 DEF Harm
  <2> QED
    BY <2>1 DEF NothingForgotten, Pending, Owned
<1>3. CASE HandleDeleted
  <2>1. PICK event \in events :
           /\ event.type = "deleted"
           /\ events' = events \ {event}
           /\ there \subseteq there'
           /\ ConfigName(event.obj.name, event.obj.kind) \in Configs =>
                Object(ConfigName(event.obj.name, event.obj.kind), event.obj.kind) \in there'
           /\ spoilt' = spoilt
    BY <1>3 DEF HandleDeleted
  <2>2. event.obj \in Owned => event.obj \in there'
    BY <1>1, <2>1 DEF Owned
  <2>3. ASSUME NEW o \in Owned \ there' PROVE Pending("deleted", o)'
    BY <2>1, <2>2, <2>3 DEF NothingForgotten, Pending, Owned
  <2>4. ASSUME NEW o \in Owned \cap spoilt' PROVE o \in there' /\ Pending("updated", o)'
    BY <2>1, <2>4 DEF NothingForgotten, Pending, Owned
  <2> QED
    BY <2>3, <2>4 DEF NothingForgotten, Owned
<1>4. CASE HandleUpdated
  <2>1. PICK event \in events :
           /\ event.type = "updated"
           /\ LET k == event.obj.kind
                  config == ConfigName(event.obj.name, k)
                  target == Object(config, k)
                  restores == /\ event.obj \in Owned
                              /\ config \in Configs
                              /\ target = event.obj => ~event.fits
                              /\ target \in there
              IN \/ restores /\ spoilt' = spoilt \ {target}
                 \/ ~restores /\ spoilt' = spoilt
           /\ events \ {event} \subseteq events'
           /\ there' = there
    BY <1>4 DEF HandleUpdated
  <2>2. spoilt' \subseteq spoilt
    BY <2>1
  <2>3. event.obj \in Owned /\ ~event.fits /\ event.obj \in there
          => event.obj \notin spoilt'
    BY <1>1, <2>1 DEF Owned
  <2>4. ASSUME NEW o \in Owned \ there' PROVE Pending("deleted", o)'
    BY <2>1, <2>4 DEF NothingForgotten, Pending, Owned
  <2>5. ASSUME NEW o \in Owned \cap spoilt' PROVE o \in there' /\ Pending("updated", o)'
    BY <2>1, <2>2, <2>3, <2>5 DEF NothingForgotten, Pending, Owned
  <2> QED
    BY <2>4, <2>5 DEF NothingForgotten, Owned
<1> QED
  BY <1>2, <1>3, <1>4 DEF NamesNext

\* When no configuration has a suffix inside its name, no event about an object
\* that is missing or spoilt is dropped.
THEOREM NoneForgotten ==
  ASSUME \A config \in Configs, k \in Kinds : ~Ambiguous(config, k)
  PROVE  NamesSpec => []NothingForgotten
<1>1. NamesInit => NothingForgotten
  BY DEF NamesInit, NothingForgotten, Owned
<1>2. NothingForgotten /\ [NamesNext]_namesVars => NothingForgotten'
  <2>1. NothingForgotten /\ UNCHANGED namesVars => NothingForgotten'
    BY DEF NothingForgotten, namesVars, Pending, Owned
  <2> QED
    BY <2>1, NothingForgottenStep
<1> QED
  BY <1>1, <1>2, PTL DEF NamesSpec

==============================================================================
