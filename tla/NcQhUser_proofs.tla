-------------------------- MODULE NcQhUser_proofs ---------------------------
(***************************************************************************)
(* Proofs about the sessions of the qh driver, for every number of slots   *)
(* and of application threads.                                             *)
(***************************************************************************)
EXTENDS NcQhUser, TLAPS

(* Only the search of a start looks past the last slot.                      *)
Ids == \A c \in Caller : at[c] \notin {"search", "full"} => id[c] \in User

(* Who owns a slot has it marked used: what keeps a second claim out.       *)
OwnedIsUsed == \A c \in Caller, u \in User : Owns(c, u) => isUsed[u] = 1

Exclusive == \A c, d \in Caller, u \in User : Owns(c, u) /\ Owns(d, u) => c = d

(* What the fields of a slot are at each place of start and stop.           *)
FieldsOf(c) ==
    /\ at[c] \in {"spawn", "spawn2", "open", "join", "join2", "free", "clear"} =>
        cb[id[c]] = c /\ type[id[c]] = wanted[c]
    /\ at[c] \in {"spawn", "spawn2", "open", "join", "join2", "free"} => memory[id[c]]
    /\ at[c] \in {"spawn", "spawn2", "open"} => state[id[c]] = 1
    /\ at[c] = "spawn2" => type[id[c]] = "stream"

Fields == \A c \in Caller : FieldsOf(c)

(* A thread runs only while its session's owner is at a place where it has   *)
(* been created and not joined.                                              *)
RunOwned == \A u \in User : run[u] # "gone" =>
    \E c \in Caller : id[c] = u /\ at[c] \in {"spawn2", "open", "join"}

PlayOwned == \A u \in User : play[u] # "gone" =>
    /\ type[u] = "stream"
    /\ \E c \in Caller : id[c] = u /\ at[c] \in {"open", "join", "join2"}

(* The one that searches holds nc->mutex, so what was free when it began is   *)
(* still free and still ahead.                                                *)
Searching == \A c \in Caller : at[c] = "search" =>
    /\ mutex = c
    /\ allUsed[c] \/ \E u \in User : u >= id[c] /\ isUsed[u] = 0

IInv == /\ TypeOK
        /\ Ids /\ OwnedIsUsed /\ Exclusive /\ Fields
        /\ RunOwned /\ PlayOwned
        /\ Searching /\ FullIsTrue

(* The invariant holds at the start,                                        *)
LEMMA InitHolds == Init => IInv
BY UserAssumption DEF Init, IInv, TypeOK, Ids, Place, Type, User, OwnedIsUsed, Exclusive, Fields, FieldsOf,
   RunOwned, PlayOwned, Searching, FullIsTrue, Owns

(* A step of a thread of a session changes nothing but where it is, and a     *)
(* thread that has ended does not come back.                                  *)
LEMMA ThreadStep ==
    ASSUME IInv, NEW u \in User, RunThread(u) \/ PlayThread(u)
    PROVE  IInv'
<1>1. CASE RunThread(u)
  <2>1. /\ run[u] # "gone"
        /\ \E p \in {"test", "pass", "calling", "logout", "gone"} : run' = [run EXCEPT ![u] = p]
        /\ UNCHANGED <<mutex, slots, play, at, id, wanted, allUsed>>
    BY <1>1 DEF RunThread, RunTest, RunPass, RunCalls, RunReturns, RunLogout, Runs
  <2> QED BY <2>1 DEF slots, IInv, TypeOK, Ids, OwnedIsUsed, Exclusive, Fields, FieldsOf,
          RunOwned, PlayOwned, Searching, FullIsTrue, Owns
<1>2. CASE PlayThread(u)
  <2>1. /\ play[u] # "gone"
        /\ \E p \in {"init", "test", "get", "calling", "gone"} : play' = [play EXCEPT ![u] = p]
        /\ UNCHANGED <<mutex, slots, run, at, id, wanted, allUsed>>
    BY <1>2 DEF PlayThread, PlayInit, PlayTest, PlayIdle, PlayCalls, PlayReturns, Plays
  <2> QED BY <2>1 DEF slots, IInv, TypeOK, Ids, OwnedIsUsed, Exclusive, Fields, FieldsOf,
          RunOwned, PlayOwned, Searching, FullIsTrue, Owns
<1> QED BY <1>1, <1>2

(* A step of a caller. *)
LEMMA CallerStep ==
    ASSUME IInv, NEW c \in Caller,
           \/ \E t \in Type : Start(c, t)
           \/ Stop(c) \/ Starting(c) \/ Stopping(c)
    PROVE  IInv'
<1>1. TypeOK /\ Ids /\ OwnedIsUsed /\ Exclusive /\ Fields /\ RunOwned /\ PlayOwned
      /\ Searching /\ FullIsTrue
  BY DEF IInv
<1>2. ASSUME TypeOK', Ids', OwnedIsUsed', Exclusive', Fields', RunOwned', PlayOwned',
             Searching', FullIsTrue'
      PROVE  IInv'
  BY <1>2 DEF IInv
<1> USE <1>1, UserAssumption DEF TypeOK, User, Step, Forget, slots
<1>3. CASE \E t \in Type : Start(c, t)
  <2>1. TypeOK' /\ Ids'
    BY <1>3 DEF Start, Place, Ids, Type
  <2>2. OwnedIsUsed'
    BY <1>3 DEF Start, Ids, OwnedIsUsed, Exclusive, Owns
  <2>3. Exclusive'
    BY <1>3 DEF Start, Ids, OwnedIsUsed, Exclusive, Owns
  <2>4. Fields'
    BY <1>3 DEF Start, Ids, Fields, FieldsOf, Exclusive, Owns
  <2>5. RunOwned'
    <3>1. SUFFICES ASSUME NEW u \in User, run'[u] # "gone"
                   PROVE  \E d \in Caller : id'[d] = u /\ at'[d] \in {"spawn2", "open", "join"}
      BY DEF RunOwned
    <3>2. PICK d \in Caller : id[d] = u /\ at[d] \in {"spawn2", "open", "join"}
      BY <1>3, <3>1 DEF Start, RunOwned
    <3> QED BY <1>3, <3>2 DEF Start
  <2>6. PlayOwned'
    <3>1. SUFFICES ASSUME NEW u \in User, play'[u] # "gone"
                   PROVE  /\ type'[u] = "stream"
                          /\ \E d \in Caller : id'[d] = u /\ at'[d] \in {"open", "join", "join2"}
      BY DEF PlayOwned
    <3>2. type[u] = "stream"
      BY <1>3, <3>1 DEF Start, PlayOwned
    <3>3. PICK d \in Caller : id[d] = u /\ at[d] \in {"open", "join", "join2"}
      BY <1>3, <3>1 DEF Start, PlayOwned
    <3> QED BY <1>3, <3>2, <3>3 DEF Start
  <2>7. Searching' /\ FullIsTrue'
    BY <1>3 DEF Start, Ids, Searching, FullIsTrue
  <2> QED BY <2>1, <2>2, <2>3, <2>4, <2>5, <2>6, <2>7, <1>2
<1>4. CASE Stop(c)
  <2>1. TypeOK' /\ Ids'
    BY <1>4 DEF Stop, Place, Ids, Type
  <2>2. OwnedIsUsed'
    BY <1>4 DEF Stop, Ids, OwnedIsUsed, Exclusive, Owns
  <2>3. Exclusive'
    BY <1>4 DEF Stop, Ids, OwnedIsUsed, Exclusive, Owns
  <2>4. Fields'
    BY <1>4 DEF Stop, Ids, Fields, FieldsOf, Exclusive, Owns
  <2>5. RunOwned'
    BY <1>4 DEF Stop, Ids, RunOwned, Exclusive, Owns
  <2>6. PlayOwned'
    BY <1>4 DEF Stop, Ids, PlayOwned, Exclusive, Owns, Type
  <2>7. Searching' /\ FullIsTrue'
    BY <1>4 DEF Stop, Ids, Searching, FullIsTrue
  <2> QED BY <2>1, <2>2, <2>3, <2>4, <2>5, <2>6, <2>7, <1>2
<1>5. CASE SearchNext(c)
  <2>1. TypeOK' /\ Ids'
    BY <1>5 DEF SearchNext, Place, Ids, Type
  <2>2. OwnedIsUsed'
    BY <1>5 DEF SearchNext, Ids, OwnedIsUsed, Exclusive, Owns
  <2>3. Exclusive'
    BY <1>5 DEF SearchNext, Ids, OwnedIsUsed, Exclusive, Owns
  <2>4. Fields'
    BY <1>5 DEF SearchNext, Ids, Fields, FieldsOf, Exclusive, Owns
  <2>5. RunOwned'
    BY <1>5 DEF SearchNext, Ids, RunOwned, Exclusive, Owns
  <2>6. PlayOwned'
    BY <1>5 DEF SearchNext, Ids, PlayOwned, Exclusive, Owns, Type
  <2>7. Searching' /\ FullIsTrue'
    BY <1>5 DEF SearchNext, Ids, Searching, FullIsTrue
  <2> QED BY <2>1, <2>2, <2>3, <2>4, <2>5, <2>6, <2>7, <1>2
<1>6. CASE Claim(c)
  <2>1. TypeOK' /\ Ids'
    BY <1>6 DEF Claim, Place, Ids, Type
  <2>2. OwnedIsUsed'
    BY <1>6 DEF Claim, Ids, OwnedIsUsed, Exclusive, Owns
  <2>3. Exclusive'
    BY <1>6 DEF Claim, Ids, OwnedIsUsed, Exclusive, Owns
  <2>4. Fields'
    BY <1>6 DEF Claim, Ids, Fields, FieldsOf, Exclusive, Owns
  <2>5. RunOwned'
    BY <1>6 DEF Claim, Ids, RunOwned, Exclusive, Owns
  <2>6. PlayOwned'
    BY <1>6 DEF Claim, Ids, PlayOwned, Exclusive, Owns, Type
  <2>7. Searching' /\ FullIsTrue'
    BY <1>6 DEF Claim, Ids, Searching, FullIsTrue
  <2> QED BY <2>1, <2>2, <2>3, <2>4, <2>5, <2>6, <2>7, <1>2
<1>7. CASE Full(c)
  <2>1. TypeOK' /\ Ids'
    BY <1>7 DEF Full, Place, Ids, Type
  <2>2. OwnedIsUsed'
    BY <1>7 DEF Full, Ids, OwnedIsUsed, Exclusive, Owns
  <2>3. Exclusive'
    BY <1>7 DEF Full, Ids, OwnedIsUsed, Exclusive, Owns
  <2>4. Fields'
    BY <1>7 DEF Full, Ids, Fields, FieldsOf, Exclusive, Owns
  <2>5. RunOwned'
    BY <1>7 DEF Full, Ids, RunOwned, Exclusive, Owns
  <2>6. PlayOwned'
    BY <1>7 DEF Full, Ids, PlayOwned, Exclusive, Owns, Type
  <2>7. Searching' /\ FullIsTrue'
    BY <1>7 DEF Full, Ids, Searching, FullIsTrue
  <2> QED BY <2>1, <2>2, <2>3, <2>4, <2>5, <2>6, <2>7, <1>2
<1>8. CASE ReturnFull(c)
  <2>1. TypeOK' /\ Ids'
    BY <1>8 DEF ReturnFull, Place, Ids, Type
  <2>2. OwnedIsUsed'
    BY <1>8 DEF ReturnFull, Ids, OwnedIsUsed, Exclusive, Owns
  <2>3. Exclusive'
    BY <1>8 DEF ReturnFull, Ids, OwnedIsUsed, Exclusive, Owns
  <2>4. Fields'
    BY <1>8 DEF ReturnFull, Ids, Fields, FieldsOf, Exclusive, Owns
  <2>5. RunOwned'
    BY <1>8 DEF ReturnFull, Ids, RunOwned, Exclusive, Owns
  <2>6. PlayOwned'
    BY <1>8 DEF ReturnFull, Ids, PlayOwned, Exclusive, Owns, Type
  <2>7. Searching' /\ FullIsTrue'
    BY <1>8 DEF ReturnFull, Ids, Searching, FullIsTrue
  <2> QED BY <2>1, <2>2, <2>3, <2>4, <2>5, <2>6, <2>7, <1>2
<1>9. CASE Fill(c)
  <2>1. TypeOK' /\ Ids'
    BY <1>9 DEF Fill, Place, Ids, Type
  <2>2. OwnedIsUsed'
    BY <1>9 DEF Fill, Ids, OwnedIsUsed, Exclusive, Owns
  <2>3. Exclusive'
    BY <1>9 DEF Fill, Ids, OwnedIsUsed, Exclusive, Owns
  <2>4. Fields'
    <3>1. \A d \in Caller : d # c /\ at[d] \notin {"idle", "search", "full"} => id[d] # id[c]
      BY <1>9 DEF Fill, Ids, Exclusive, Owns
    <3>2. id[c] \in User /\ at[c] = "fill"
      BY <1>9 DEF Fill, Ids
    <3>3. SUFFICES ASSUME NEW d \in Caller PROVE FieldsOf(d)'
      BY DEF Fields
    <3>4. CASE d = c
      BY <1>9, <3>2, <3>4 DEF Fill, FieldsOf
    <3>5. CASE d # c
      <4>1. at'[d] = at[d] /\ id'[d] = id[d] /\ wanted'[d] = wanted[d]
        BY <1>9, <3>5 DEF Fill
      <4>2. CASE at[d] \in {"spawn", "spawn2", "open", "join", "join2", "free", "clear"}
        <5>1. id[d] \in User /\ id[d] # id[c]
          BY <3>1, <3>5, <4>2 DEF Ids
        <5>2. /\ cb'[id[d]] = cb[id[d]] /\ type'[id[d]] = type[id[d]]
              /\ memory'[id[d]] = memory[id[d]] /\ state'[id[d]] = state[id[d]]
          BY <1>9, <3>2, <5>1 DEF Fill
        <5> QED BY <4>1, <5>2 DEF Fields, FieldsOf
      <4>3. CASE at[d] \notin {"spawn", "spawn2", "open", "join", "join2", "free", "clear"}
        BY <4>1, <4>3 DEF FieldsOf
      <4> QED BY <4>2, <4>3
    <3> QED BY <3>4, <3>5
  <2>5. RunOwned'
    BY <1>9 DEF Fill, Ids, RunOwned, Exclusive, Owns
  <2>6. PlayOwned'
    <3>1. id[c] \in User /\ at[c] = "fill"
      BY <1>9 DEF Fill, Ids
    <3>2. play[id[c]] = "gone"
      <4>1. SUFFICES ASSUME play[id[c]] # "gone" PROVE FALSE
        OBVIOUS
      <4>2. PICK d \in Caller : id[d] = id[c] /\ at[d] \in {"open", "join", "join2"}
        BY <3>1, <4>1 DEF PlayOwned
      <4>3. Owns(c, id[c]) /\ Owns(d, id[c])
        BY <3>1, <4>2 DEF Owns
      <4> QED BY <3>1, <4>2, <4>3 DEF Exclusive
    <3>3. SUFFICES ASSUME NEW u \in User, play'[u] # "gone"
                   PROVE  /\ type'[u] = "stream"
                          /\ \E d \in Caller : id'[d] = u /\ at'[d] \in {"open", "join", "join2"}
      BY DEF PlayOwned
    <3>4. u # id[c] /\ play[u] # "gone"
      BY <1>9, <3>2, <3>3 DEF Fill
    <3>5. PICK d \in Caller : id[d] = u /\ at[d] \in {"open", "join", "join2"}
      BY <3>4 DEF PlayOwned
    <3>6. at'[d] = at[d] /\ id'[d] = id[d]
      BY <1>9, <3>1, <3>5 DEF Fill
    <3> QED BY <1>9, <3>4, <3>5, <3>6 DEF Fill, PlayOwned
  <2>7. Searching' /\ FullIsTrue'
    BY <1>9 DEF Fill, Ids, Searching, FullIsTrue
  <2> QED BY <2>1, <2>2, <2>3, <2>4, <2>5, <2>6, <2>7, <1>2
<1>10. CASE Spawn(c)
  <2>1. TypeOK' /\ Ids'
    BY <1>10 DEF Spawn, Place, Ids, Type
  <2>2. OwnedIsUsed'
    BY <1>10 DEF Spawn, Ids, OwnedIsUsed, Exclusive, Owns
  <2>3. Exclusive'
    BY <1>10 DEF Spawn, Ids, OwnedIsUsed, Exclusive, Owns
  <2>4. Fields'
    BY <1>10 DEF Spawn, Ids, Fields, FieldsOf, Exclusive, Owns
  <2>5. RunOwned'
    BY <1>10 DEF Spawn, Ids, RunOwned, Exclusive, Owns
  <2>6. PlayOwned'
    BY <1>10 DEF Spawn, Ids, PlayOwned, Exclusive, Owns, Type
  <2>7. Searching' /\ FullIsTrue'
    BY <1>10 DEF Spawn, Ids, Searching, FullIsTrue
  <2> QED BY <2>1, <2>2, <2>3, <2>4, <2>5, <2>6, <2>7, <1>2
<1>11. CASE Spawn2(c)
  <2>1. TypeOK' /\ Ids'
    BY <1>11 DEF Spawn2, Place, Ids, Type
  <2>2. OwnedIsUsed'
    BY <1>11 DEF Spawn2, Ids, OwnedIsUsed, Exclusive, Owns
  <2>3. Exclusive'
    BY <1>11 DEF Spawn2, Ids, OwnedIsUsed, Exclusive, Owns
  <2>4. Fields'
    BY <1>11 DEF Spawn2, Ids, Fields, FieldsOf, Exclusive, Owns
  <2>5. RunOwned'
    BY <1>11 DEF Spawn2, Ids, RunOwned, Exclusive, Owns
  <2>6. PlayOwned'
    <3>1. id[c] \in User /\ at[c] = "spawn2" /\ type[id[c]] = "stream"
      BY <1>11 DEF Spawn2, Ids, Fields, FieldsOf
    <3>2. SUFFICES ASSUME NEW u \in User, play'[u] # "gone"
                   PROVE  /\ type'[u] = "stream"
                          /\ \E d \in Caller : id'[d] = u /\ at'[d] \in {"open", "join", "join2"}
      BY DEF PlayOwned
    <3>3. CASE u = id[c]
      BY <1>11, <3>1, <3>3 DEF Spawn2
    <3>4. CASE u # id[c]
      <4>1. PICK d \in Caller : id[d] = u /\ at[d] \in {"open", "join", "join2"}
        BY <1>11, <3>2, <3>4 DEF Spawn2, PlayOwned
      <4>2. at'[d] = at[d] /\ id'[d] = id[d]
        BY <1>11, <3>1, <4>1 DEF Spawn2
      <4> QED BY <1>11, <3>2, <3>4, <4>1, <4>2 DEF Spawn2, PlayOwned
    <3> QED BY <3>3, <3>4
  <2>7. Searching' /\ FullIsTrue'
    BY <1>11 DEF Spawn2, Ids, Searching, FullIsTrue
  <2> QED BY <2>1, <2>2, <2>3, <2>4, <2>5, <2>6, <2>7, <1>2
<1>12. CASE Join(c)
  <2>1. TypeOK' /\ Ids'
    BY <1>12 DEF Join, Place, Ids, Type
  <2>2. OwnedIsUsed'
    BY <1>12 DEF Join, Ids, OwnedIsUsed, Exclusive, Owns
  <2>3. Exclusive'
    BY <1>12 DEF Join, Ids, OwnedIsUsed, Exclusive, Owns
  <2>4. Fields'
    BY <1>12 DEF Join, Ids, Fields, FieldsOf, Exclusive, Owns
  <2>5. RunOwned'
    BY <1>12 DEF Join, Ids, RunOwned, Exclusive, Owns
  <2>6. PlayOwned'
    BY <1>12 DEF Join, Ids, PlayOwned, Exclusive, Owns, Type
  <2>7. Searching' /\ FullIsTrue'
    BY <1>12 DEF Join, Ids, Searching, FullIsTrue
  <2> QED BY <2>1, <2>2, <2>3, <2>4, <2>5, <2>6, <2>7, <1>2
<1>13. CASE Join2(c)
  <2>1. TypeOK' /\ Ids'
    BY <1>13 DEF Join2, Place, Ids, Type
  <2>2. OwnedIsUsed'
    BY <1>13 DEF Join2, Ids, OwnedIsUsed, Exclusive, Owns
  <2>3. Exclusive'
    BY <1>13 DEF Join2, Ids, OwnedIsUsed, Exclusive, Owns
  <2>4. Fields'
    BY <1>13 DEF Join2, Ids, Fields, FieldsOf, Exclusive, Owns
  <2>5. RunOwned'
    BY <1>13 DEF Join2, Ids, RunOwned, Exclusive, Owns
  <2>6. PlayOwned'
    BY <1>13 DEF Join2, Ids, PlayOwned, Exclusive, Owns, Type
  <2>7. Searching' /\ FullIsTrue'
    BY <1>13 DEF Join2, Ids, Searching, FullIsTrue
  <2> QED BY <2>1, <2>2, <2>3, <2>4, <2>5, <2>6, <2>7, <1>2
<1>14. CASE Free(c)
  <2>1. TypeOK' /\ Ids'
    BY <1>14 DEF Free, Place, Ids, Type
  <2>2. OwnedIsUsed'
    BY <1>14 DEF Free, Ids, OwnedIsUsed, Exclusive, Owns
  <2>3. Exclusive'
    BY <1>14 DEF Free, Ids, OwnedIsUsed, Exclusive, Owns
  <2>4. Fields'
    BY <1>14 DEF Free, Ids, Fields, FieldsOf, Exclusive, Owns
  <2>5. RunOwned'
    BY <1>14 DEF Free, Ids, RunOwned, Exclusive, Owns
  <2>6. PlayOwned'
    BY <1>14 DEF Free, Ids, PlayOwned, Exclusive, Owns, Type
  <2>7. Searching' /\ FullIsTrue'
    BY <1>14 DEF Free, Ids, Searching, FullIsTrue
  <2> QED BY <2>1, <2>2, <2>3, <2>4, <2>5, <2>6, <2>7, <1>2
<1>15. CASE Clear(c)
  <2>1. TypeOK' /\ Ids'
    BY <1>15 DEF Clear, Place, Ids, Type
  <2>2. OwnedIsUsed'
    BY <1>15 DEF Clear, Ids, OwnedIsUsed, Exclusive, Owns
  <2>3. Exclusive'
    BY <1>15 DEF Clear, Ids, OwnedIsUsed, Exclusive, Owns
  <2>4. Fields'
    BY <1>15 DEF Clear, Ids, Fields, FieldsOf, Exclusive, Owns
  <2>5. RunOwned'
    BY <1>15 DEF Clear, Ids, RunOwned, Exclusive, Owns
  <2>6. PlayOwned'
    BY <1>15 DEF Clear, Ids, PlayOwned, Exclusive, Owns, Type
  <2>7. Searching' /\ FullIsTrue'
    BY <1>15 DEF Clear, Ids, Searching, FullIsTrue
  <2> QED BY <2>1, <2>2, <2>3, <2>4, <2>5, <2>6, <2>7, <1>2
<1>16. CASE Release(c)
  <2>1. TypeOK' /\ Ids'
    <3>0. at[c] = "release" /\ at[c] \notin {"search", "full"}
      BY <1>16 DEF Release
    <3>1. 1 \in User /\ 1 \in 1..(UserSize + 1) /\ id[c] \in User
      <4>1. id[c] \in User
        BY <3>0 DEF Ids
      <4>2. 1 \in 1..UserSize /\ 1 \in 1..(UserSize + 1)
        OBVIOUS
      <4> QED BY <4>1, <4>2
    <3>2. isUsed' \in [User -> {0, 1}]
      BY <1>16, <3>1 DEF Release
    <3>3. at' \in [Caller -> Place] /\ wanted' \in [Caller -> Type] /\ allUsed' \in [Caller -> BOOLEAN]
      BY <1>16 DEF Release, Place, Type
    <3>4. id' \in [Caller -> 1..(UserSize + 1)]
      BY <1>16, <3>1 DEF Release
    <3>5. Ids'
      BY <1>16, <3>1 DEF Release, Ids
    <3> QED BY <1>16, <3>2, <3>3, <3>4, <3>5 DEF Release
  <2>2. OwnedIsUsed'
    BY <1>16 DEF Release, Ids, OwnedIsUsed, Exclusive, Owns
  <2>3. Exclusive'
    BY <1>16 DEF Release, Ids, OwnedIsUsed, Exclusive, Owns
  <2>4. Fields'
    BY <1>16 DEF Release, Ids, Fields, FieldsOf, Exclusive, Owns
  <2>5. RunOwned'
    BY <1>16 DEF Release, Ids, RunOwned, Exclusive, Owns
  <2>6. PlayOwned'
    BY <1>16 DEF Release, Ids, PlayOwned, Exclusive, Owns, Type
  <2>7. Searching' /\ FullIsTrue'
    BY <1>16 DEF Release, Ids, Searching, FullIsTrue
  <2> QED BY <2>1, <2>2, <2>3, <2>4, <2>5, <2>6, <2>7, <1>2
<1> QED BY <1>3, <1>4, <1>5, <1>6, <1>7, <1>8, <1>9, <1>10, <1>11, <1>12, <1>13, <1>14, <1>15, <1>16
        DEF Starting, Stopping

(* every step keeps it,                                                     *)
LEMMA StepKeeps == IInv /\ [Next]_vars => IInv'
<1>1. IInv /\ UNCHANGED vars => IInv'
  BY DEF vars, slots, IInv, TypeOK, Ids, OwnedIsUsed, Exclusive, Fields, FieldsOf, RunOwned, PlayOwned,
         Searching, FullIsTrue, Owns
<1> QED BY <1>1, ThreadStep, CallerStep DEF Next

(* and the safety properties follow from it.                                *)
LEMMA IInvShows == IInv => TypeOK /\ SessionIntact /\ NoUseAfterFree /\ CallbackInSession /\ FullIsTrue
<1> SUFFICES ASSUME IInv PROVE TypeOK /\ SessionIntact /\ NoUseAfterFree /\ CallbackInSession /\ FullIsTrue
  OBVIOUS
<1>1. TypeOK /\ FullIsTrue
  BY DEF IInv
<1>2. SessionIntact
  BY DEF IInv, Ids, SessionIntact, Exclusive, OwnedIsUsed, Fields, FieldsOf, Owns
<1>3. NoUseAfterFree
  BY DEF IInv, NoUseAfterFree, Alive, RunOwned, PlayOwned, Fields, FieldsOf
<1>4. CallbackInSession
  <2> SUFFICES ASSUME NEW u \in User, run[u] = "calling" \/ play[u] = "calling"
              PROVE  /\ cb[u] # None
                     /\ Owns(cb[u], u)
                     /\ at[cb[u]] \in {"spawn2", "open", "join", "join2"}
    BY DEF CallbackInSession
  <2>1. PICK c \in Caller : id[c] = u /\ at[c] \in {"spawn2", "open", "join", "join2"}
    <3>1. CASE run[u] = "calling"
      BY <3>1 DEF IInv, RunOwned
    <3>2. CASE play[u] = "calling"
      BY <3>2 DEF IInv, PlayOwned
    <3> QED BY <3>1, <3>2
  <2>2. cb[u] = c
    BY <2>1 DEF IInv, Fields, FieldsOf
  <2>3. c # None
    BY UserAssumption
  <2> QED BY <2>1, <2>2, <2>3 DEF Owns
<1> QED BY <1>1, <1>2, <1>3, <1>4

(* The invariant, and all that follows from it. *)
LEMMA Always == Spec => [](TypeOK /\ SessionIntact /\ NoUseAfterFree /\ CallbackInSession /\ FullIsTrue)
BY InitHolds, StepKeeps, IInvShows, PTL DEF Spec

(* The slots of nc_qh.c, the threads of their sessions and the calls in      *)
(* progress keep their types.                                                *)
THEOREM TypeCorrect == Spec => []TypeOK
BY Always, PTL

(* Whatever the number of slots and callers, nc_qh_user_start never gives a  *)
(* slot twice, and no start or stop of another session changes an open one.  *)
THEOREM SessionSafety == Spec => []SessionIntact
BY Always, PTL

(* The threads nc_qh_user_start creates never outlive the memory that        *)
(* nc_qh_user_stop frees.                                                    *)
THEOREM MemorySafety == Spec => []NoUseAfterFree
BY Always, PTL

(* A callback only ever reaches the caller whose session the slot holds, and *)
(* none comes once nc_qh_user_stop has joined the threads.                   *)
THEOREM CallbackSafety == Spec => []CallbackInSession
BY Always, PTL

(* nc_qh_user_start returns NC_ERROR_FULL only if all slots were in use at   *)
(* one moment of the call.                                                   *)
THEOREM FullSafety == Spec => []FullIsTrue
BY Always, PTL
=============================================================================
