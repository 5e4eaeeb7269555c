---------------------------- MODULE Descriptors -----------------------------
(***************************************************************************)
(* Who closes which file descriptor: Resource (utility.hpp), the life of   *)
(* Fdio objects built on it, and TempFile, whose file on the disk goes     *)
(* with the object (stdio.hpp, stdio.cpp, on Unix).  A FILE* counts as the *)
(* descriptor below it.  Each action is an expression a program may        *)
(* write, such as a = b.dup(): the right side makes a temporary object,    *)
(* which is moved into the variable on the left.  Other programs make      *)
(* files in the same directory, and leave the files of others alone.       *)
(***************************************************************************)
EXTENDS Integers

CONSTANTS Objects,    \* variables of type Fdio
          Temps,      \* places for objects of type TempFile
          LastNumber, \* the largest descriptor of a process
          Names       \* names that a TempFile can come up with

ASSUME DescriptorAssumptions ==
    /\ LastNumber \in Nat /\ LastNumber > 2
    /\ "noname" \notin Names

VARIABLES value_,     \* the descriptor of each object, or null
          opened,     \* the descriptors that are open
          raw,        \* those which release() has given to the caller
          exists,     \* the TempFile objects there are
          where_,     \* the name of the file of each, or NoName
          disk        \* who made the file of each name

descriptorVars == <<value_, opened, raw, exists, where_, disk>>
tempVars == <<exists, where_, disk>>

All == Objects \cup Temps
null == -1
NoName == "noname"
Standard == 0..2
Numbers == 0..LastNumber

DescriptorInit ==
    /\ value_ = [o \in All |-> null]
    /\ opened = Standard /\ raw = {}
    /\ exists = {} /\ where_ = [t \in Temps |-> NoName]
    /\ disk = [n \in Names |-> "none"]

-----------------------------------------------------------------------------
(* The system                                                              *)

Unopened == Numbers \ opened

\* open(), dup() and pipe() give the lowest descriptors that are not open.
Lowest(n) == n \in Unopened /\ \A m \in Unopened : n <= m
Lowest2(m, n) == Lowest(m) /\ n \in Unopened \ {m} /\ \A k \in Unopened \ {m} : n <= k

-----------------------------------------------------------------------------
(* Resource                                                                *)

\* What the deleter closes: nothing that is standard.
deleter(n) == IF n > 2 THEN {n} ELSE {}

\* o = Fdio(n), with n just opened or given: the old value is closed, and the
\* temporary object has no value left to close.
Assigns(o, n) ==
    /\ value_' = [value_ EXCEPT ![o] = n]
    /\ opened' = (opened \cup {n}) \ deleter(value_[o])

\* Mutant: the other keeps its value.
MoveAssignCopies(o, p) ==
    /\ value_' = [value_ EXCEPT ![o] = value_[p]]
    /\ opened' = opened \ deleter(value_[o])

\* o = std::move(p), which may be the same object.
MoveAssign(o, p) ==
    IF o = p THEN UNCHANGED <<value_, opened>>
    ELSE /\ value_' = [value_ EXCEPT ![o] = value_[p], ![p] = null]
         /\ opened' = opened \ deleter(value_[o])

reset(o) ==
    /\ value_' = [value_ EXCEPT ![o] = null]
    /\ opened' = opened \ deleter(value_[o])

-----------------------------------------------------------------------------
(* Fdio                                                                    *)

\* o = Fdio(path, mode), or Fdio::null(); if no descriptor is left it throws.
Open(o) == \E n \in Numbers : Lowest(n) /\ Assigns(o, n) /\ UNCHANGED <<raw, tempVars>>

\* The path is empty or "-", or a standard stream is asked for.
OpenStandard(o) == \E n \in Standard : Assigns(o, n) /\ UNCHANGED <<raw, tempVars>>

Move(o, p) == MoveAssign(o, p) /\ UNCHANGED <<raw, tempVars>>

\* close(), or the end of the object.
Close(o) == value_[o] # null /\ reset(o) /\ UNCHANGED <<raw, tempVars>>

\* p = o.dup()
Dup(o, p) ==
    /\ value_[o] # null
    /\ \E n \in Numbers : Lowest(n) /\ Assigns(p, n)
    /\ UNCHANGED <<raw, tempVars>>

\* p = o.dup(n), for a number that is standard or not that of an object:
\* dup2() closes what it was.
Dup2(o, n, p) ==
    /\ value_[o] # null
    /\ n \in Standard \/ \A x \in All : value_[x] # n
    /\ Assigns(p, n) /\ raw' = raw \ {n} /\ UNCHANGED tempVars

\* std::tie(o, p) = Fdio::pipe(); if there are not two descriptors it throws.
Pipe(o, p) ==
    /\ o # p
    /\ \E m, n \in Numbers :
          /\ Lowest2(m, n)
          /\ value_' = [value_ EXCEPT ![o] = m, ![p] = n]
          /\ opened' = (opened \cup {m, n}) \ (deleter(value_[o]) \cup deleter(value_[p]))
    /\ UNCHANGED <<raw, tempVars>>

\* release(), and Fdio(n) of what was released.
Release(o) ==
    /\ value_[o] # null
    /\ value_' = [value_ EXCEPT ![o] = null]
    /\ raw' = raw \cup ({value_[o]} \ Standard)
    /\ UNCHANGED <<opened, tempVars>>

Adopt(o) == \E n \in raw : Assigns(o, n) /\ raw' = raw \ {n} /\ UNCHANGED tempVars

-----------------------------------------------------------------------------
(* TempFile                                                                *)

\* TempFile(): the file has no name.
TempNameless(t) ==
    /\ t \notin exists
    /\ exists' = exists \cup {t} /\ UNCHANGED <<raw, where_, disk>>
    /\ \E n \in Numbers : Lowest(n) /\ Assigns(t, n)

\* TempFile(dir, prefix): the file must not be there, or the constructor throws
\* and nothing is left of the object.
TempConstruct(t) ==
    /\ t \notin exists
    /\ \E x \in Names :
          /\ disk[x] = "none"
          /\ where_' = [where_ EXCEPT ![t] = x] /\ disk' = [disk EXCEPT ![x] = "own"]
    /\ exists' = exists \cup {t} /\ UNCHANGED raw
    /\ \E n \in Numbers : Lowest(n) /\ Assigns(t, n)

\* t = std::move(u), or TempFile t(std::move(u)): the file that t had stays.
TempMove(t, u) ==
    /\ u \in exists /\ MoveAssign(t, u)
    /\ where_' = IF t = u THEN where_ ELSE [where_ EXCEPT ![t] = where_[u], ![u] = NoName]
    /\ exists' = exists \cup {t} /\ UNCHANGED <<raw, disk>>

\* close() by the caller: the file stays until the end of the object.
TempClose(t) == t \in exists /\ reset(t) /\ UNCHANGED <<raw, tempVars>>

\* ~TempFile(), and then ~Cstdio().
TempDestroy(t) ==
    /\ t \in exists /\ exists' = exists \ {t}
    /\ reset(t)
    /\ where_' = [where_ EXCEPT ![t] = NoName]
    /\ disk' = [n \in Names |-> IF n = where_[t] THEN "none" ELSE disk[n]]
    /\ UNCHANGED raw

OtherMakes ==
    /\ \E n \in Names : disk[n] = "none" /\ disk' = [disk EXCEPT ![n] = "other"]
    /\ UNCHANGED <<value_, opened, raw, exists, where_>>

-----------------------------------------------------------------------------

FdioSteps ==
    \/ \E o \in Objects : Open(o) \/ OpenStandard(o) \/ Close(o) \/ Release(o) \/ Adopt(o)
    \/ \E o, p \in Objects : Move(o, p) \/ Dup(o, p) \/ Pipe(o, p) \/ \E n \in Numbers : Dup2(o, n, p)

TempSteps ==
    \/ \E t \in Temps : TempNameless(t) \/ TempConstruct(t) \/ TempClose(t) \/ TempDestroy(t)
    \/ \E t, u \in Temps : TempMove(t, u)
    \/ OtherMakes

DescriptorNext == FdioSteps \/ TempSteps

DescriptorSpec == DescriptorInit /\ [][DescriptorNext]_descriptorVars

-----------------------------------------------------------------------------
(* Properties                                                              *)

(* Whatever is opened, moved (onto itself too), duplicated, released,      *)
(* adopted and closed, in any order and with descriptors that are used     *)
(* again at once: a descriptor that an object holds is open, and one that  *)
(* is open and not standard has one owner, an object or the caller of      *)
(* release(), so that it is closed once and no other file in its place.    *)
OneOwner ==
    /\ \A o \in All : value_[o] \in opened \cup {null} /\ value_[o] \notin raw
    /\ \A o, p \in All : value_[o] = value_[p] => o = p \/ value_[o] \in Standard \cup {null}
    /\ \A n \in opened \ Standard : n \in raw \/ \E o \in All : value_[o] = n

(* The standard descriptors stay open, though objects made for them, or by *)
(* dup(n), are closed and assigned to like any others.                     *)
StandardStay == Standard \subseteq opened

(* The file that a TempFile object will remove is one that it made itself, *)
(* or that the object made which was moved into it: never one of another   *)
(* program or object.                                                      *)
TempsOwn ==
    \A t \in Temps : where_[t] # NoName =>
        /\ t \in exists /\ disk[where_[t]] = "own"
        /\ \A u \in Temps \ {t} : where_[u] # where_[t]

(* Every descriptor and every temporary file has its owner, and no object  *)
(* closes or removes what is not its own.                                  *)
FilesOwned == OneOwner /\ StandardStay /\ TempsOwn
=============================================================================
