-------------------------------- MODULE Names --------------------------------
(***************************************************************************)
(* Which configuration an informer takes an object to belong to.           *)
(*                                                                         *)
(* Every object is named after its configuration, with a suffix for its    *)
(* kind (utils.go).  A handler goes back from the object's name with       *)
(* strings.Replace(name, suffix, "", 1), which removes the first           *)
(* occurrence of the suffix, wherever it is.  A name is a sequence of      *)
(* pieces: the kind k stands for the suffix of k, and Letters for what     *)
(* else a name is made of.  Suffixes begin with the only '-' they contain, *)
(* so two of them never overlap and no other piece forms one.              *)
(*                                                                         *)
(* This module has several configurations, none of them being deleted, and *)
(* no reconciler: it is about what the informers restore by themselves.    *)
(* The order of the events and failures are the subject of Informer.       *)
(***************************************************************************)
EXTENDS Integers, SequencesExt

CONSTANTS
  Kinds,    \* the four kinds; each also stands for its suffix
  Letters,  \* the other pieces of a name
  Configs,  \* the names of the configurations in the namespace
  Foreign,  \* objects of the same kinds that belong to nobody
  MaxHarm   \* bound: what other clients delete or change

ASSUME NamesAssumption ==
  /\ Kinds \cap Letters = {}
  /\ Configs \subseteq Seq(Kinds \cup Letters)
  /\ Foreign \subseteq [kind : Kinds, name : Seq(Kinds \cup Letters)]
  /\ MaxHarm \in Nat

VARIABLES
  there,   \* the objects in the namespace
  spoilt,  \* those among them whose contents another client changed
  events,  \* what the handlers have still to take
  harm     \* deletions and changes by other clients so far

namesVars == <<there, spoilt, events, harm>>

-----------------------------------------------------------------------------

\* exporterScraperConfig.Name + "-deployment", and so on.
ObjectName(config, k) == Append(config, k)

\* Mutant: every occurrence of the suffix is removed.
RemoveAllSuffixes(name, k) == SelectSeq(name, LAMBDA piece : piece # k)

\* strings.Replace(item.GetName(), toReplace, "", 1).
ConfigName(name, k) == RemoveFirst(name, k)

Object(config, k) == [kind |-> k, name |-> ObjectName(config, k)]

Owned == {Object(config, k) : config \in Configs, k \in Kinds}

\* The suffix occurs in the name with something else behind it.
Ambiguous(config, k) ==
  \E i, j \in 1..Len(config) : i < j /\ config[i] = k /\ config[j] # k

-----------------------------------------------------------------------------

NamesInit ==
  /\ there = Owned \cup Foreign
  /\ spoilt = {}
  /\ events = {}
  /\ harm = 0

\* Another client deletes or changes an object.
Harm ==
  /\ harm < MaxHarm
  /\ harm' = harm + 1
  /\ \E o \in there :
        \/ /\ there' = there \ {o}
           /\ spoilt' = spoilt \ {o}
           /\ events' = events \cup {[type |-> "deleted", obj |-> o, fits |-> FALSE]}
        \/ /\ spoilt' = spoilt \cup {o}
           /\ events' = events \cup {[type |-> "updated", obj |-> o, fits |-> FALSE]}
           /\ UNCHANGED there

\* DeleteFunc does not look at the owner of the object: it creates the object
\* of the same kind of the configuration it finds, if there is none.
HandleDeleted ==
  \E event \in {e \in events : e.type = "deleted"} :
     LET k == event.obj.kind
         config == ConfigName(event.obj.name, k)
     IN /\ events' = events \ {event}
        /\ there' = there \cup (IF config \in Configs THEN {Object(config, k)} ELSE {})
        /\ UNCHANGED <<spoilt, harm>>

\* UpdateFunc ignores objects without an owner.  With another configuration than
\* the owner the comparators never agree.
HandleUpdated ==
  \E event \in {e \in events : e.type = "updated"} :
     LET k == event.obj.kind
         config == ConfigName(event.obj.name, k)
         target == Object(config, k)
         restores == /\ event.obj \in Owned
                     /\ config \in Configs
                     /\ target = event.obj => ~event.fits
                     /\ target \in there
         written == [type |-> "updated", obj |-> target, fits |-> TRUE]
     IN /\ \/ /\ restores
              /\ spoilt' = spoilt \ {target}
              /\ events' = (events \ {event})
                             \cup (IF target \in spoilt THEN {written} ELSE {})
           \/ /\ ~restores
              /\ events' = events \ {event}
              /\ UNCHANGED spoilt
        /\ UNCHANGED <<there, harm>>

NamesNext == Harm \/ HandleDeleted \/ HandleUpdated

NamesSpec == NamesInit /\ [][NamesNext]_namesVars

\* Every handler keeps taking events.
NamesFairSpec ==
  NamesSpec /\ WF_namesVars(HandleDeleted) /\ WF_namesVars(HandleUpdated)

-----------------------------------------------------------------------------
Pending(type, o) == [type |-> type, obj |-> o, fits |-> FALSE] \in events

\* As long as an object of a configuration is missing or spoilt, a handler has
\* still to take the event that says so: none is dropped because the handler
\* went back from the name to a configuration that is not there.
NothingForgotten ==
  /\ \A o \in Owned \ there : Pending("deleted", o)
  /\ \A o \in Owned \cap spoilt : o \in there /\ Pending("updated", o)

\* Every object that was deleted or changed is put back by the informers alone,
\* with the contents its own configuration asks for: no object is taken for one
\* of a configuration that is not there, or of another one.
EveryObjectRestored == <>[](Owned \subseteq there \ spoilt)

==============================================================================
