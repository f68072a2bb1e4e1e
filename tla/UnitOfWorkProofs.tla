-------------------------- MODULE UnitOfWorkProofs --------------------------
(***************************************************************************)
(* Scopes leave the context of their task as they found it, an exception   *)
(* leaves nothing of a scope behind, and no committed write goes without   *)
(* its invalidation: for any number of tasks, rows, scopes and faults.     *)
(***************************************************************************)
EXTENDS UnitOfWork, FiniteSetTheorems, SequenceTheorems, TLAPS

F(t, i) == frames[t][i]
Depth(t) == Len(frames[t])
Open(t) == Len(sessions[t])

Draining(t) == frames[t] # <<>> /\ Top(t).stage = "draining"

(* What every stack of scopes looks like. *)
Stack(t) ==
  /\ \A i \in DOMAIN frames[t] :
       /\ F(t, i).token => i = 1 /\ F(t, i).own
       /\ F(t, i).own => \A j \in DOMAIN frames[t] : j <= i => F(t, j).own
       /\ F(t, i).kind = "savepoint" => ~F(t, i).own
       /\ F(t, i).kind = "write" => F(t, i).row \in Rows
       /\ F(t, i).stage \in {"committed", "rolledback", "draining"} => F(t, i).own /\ i = Depth(t)
       /\ F(t, i).stage = "draining" => F(t, i).token
  /\ draining[t] # {} <=> Draining(t)

(* The scopes that own the sessions are the outermost ones; the innermost   *)
(* of them may be a block, which the others joined.                         *)
Owners(t) ==
  IF Draining(t) THEN sessions[t] = <<>> /\ ~ambient[t] /\ ~region[t]
  ELSE /\ Open(t) <= Depth(t) /\ (Depth(t) > 0 => Open(t) > 0)
       /\ \A i \in DOMAIN frames[t] :
            /\ F(t, i).own <=> i <= Open(t)
            /\ F(t, i).token <=> i = 1
            /\ F(t, i).own /\ F(t, i).kind = "uow" => i = Open(t)
       /\ ambient[t] <=> Depth(t) > 0 /\ F(t, Open(t)).kind = "uow"
       /\ Open(t) < Depth(t) => ambient[t]
       /\ region[t] <=> Depth(t) > 0

(* A task that kept the session of a cancelled block joins it for good.     *)
Kept(t) ==
  /\ ambient[t] /\ sessions[t] # <<>>
  /\ \A i \in DOMAIN frames[t] : F(t, i).own =>
       F(t, i).kind = "write" /\ (F(t, i).stage # "draining" => i < Open(t))

(* Unless a handler of a write outside any block wrote, only the outermost  *)
(* scope owns a session.                                                    *)
Single(t) ==
  "handlerWrites" \notin taken =>
    IF t \in leaked THEN \A i \in DOMAIN frames[t] : ~F(t, i).own ELSE Open(t) <= 1

Shape(t) == Stack(t) /\ (IF t \in leaked THEN Kept(t) ELSE Owners(t)) /\ Single(t)

SInv == TypeOK /\ \A t \in Tasks : Shape(t)

-----------------------------------------------------------------------------
(* Writes are numbered as they are made. *)
Numbered ==
  /\ \A k \in Rows : db[k] <= clock
  /\ undone \subseteq 1..clock
  /\ \A t \in Tasks : \A i \in DOMAIN sessions[t] : \A k \in Rows : sessions[t][i].writes[k] <= clock
  /\ \A t \in Tasks : \A i \in DOMAIN frames[t] :
       F(t, i).made \subseteq 1..clock /\ \A k \in Rows : F(t, i).saved[k] <= clock

(* The task has a session that it is going to commit. *)
Working(t) == t \notin leaked /\ sessions[t] # <<>>

MayRaise(t, i) == F(t, i).stage \in {"body", "pre", "post", "commit"}

(* No scope that can still fail holds a write that is in the database. *)
SeparateScopes(t) ==
  /\ \A i, j \in DOMAIN frames[t] : i <= j => F(t, j).made \subseteq F(t, i).made
  /\ \A i \in DOMAIN frames[t], k \in Rows : MayRaise(t, i) => db[k] \notin F(t, i).made

(* A write that a savepoint would restore was not made in the savepoint, in *)
(* a failed scope, or by another task.                                      *)
SeparateSaved(t) ==
  \A i \in DOMAIN frames[t], k \in Rows : F(t, i).kind = "savepoint" =>
    /\ F(t, i).saved[k] \notin undone /\ F(t, i).saved[k] \notin F(t, i).made
    /\ \A u \in Tasks \ {t} : \A j \in DOMAIN frames[u] : F(t, i).saved[k] \notin F(u, j).made

(* Nor was a write of the session, unless an exception is under way. *)
SeparateWrites(t) ==
  /\ ~unwinding[t] => Current(t).pending = {}
  /\ ~unwinding[t] => \A k \in Rows : Current(t).writes[k] \notin undone
  /\ \A k \in Rows, u \in Tasks \ {t} : \A j \in DOMAIN frames[u] :
       Current(t).writes[k] \notin F(u, j).made

Separate(t) == SeparateScopes(t) /\ (Working(t) => SeparateWrites(t) /\ SeparateSaved(t))

NInv ==
  taken \subseteq {"midCommit"} =>
    (\A k \in Rows : db[k] \notin undone) /\ \A t \in Tasks : Separate(t)

-----------------------------------------------------------------------------
(* A write of row k, in scope i or around it, has flushed and not queued its *)
(* invalidation yet.                                                         *)
Awaits(t, i, k) ==
  \E j \in DOMAIN frames[t] : j <= i /\ F(t, j).stage = "post" /\ F(t, j).row = k

(* Every write of a session has its invalidation queued, or will have. *)
Queues(t) ==
  Working(t) =>
    /\ ~unwinding[t] => \A k \in Rows :
         Current(t).writes[k] # 0 => k \in queued[t] \/ \E i \in DOMAIN frames[t] : Awaits(t, i, k)
    /\ \A i \in DOMAIN frames[t], k \in Rows :
         F(t, i).kind = "savepoint" /\ F(t, i).saved[k] # 0 => k \in queued[t] \/ Awaits(t, i, k)

(* What the callbacks of t are still going to invalidate. *)
Owes(t, k) ==
  \/ k \in draining[t]
  \/ frames[t] # <<>> /\ Top(t).stage = "committed" /\ k \in queued[t]

QInv ==
  taken = {} =>
    /\ \A t \in Tasks : Queues(t)
    /\ \A k \in stale : k \in interrupted \/ \E t \in Tasks : Owes(t, k)

IInv == SInv /\ Numbered /\ NInv /\ QInv

-----------------------------------------------------------------------------
(* What the stacks become. *)

IsAppend(r, s, x) ==
  /\ Len(r) = Len(s) + 1
  /\ \A i \in 1..Len(s) : r[i] = s[i]
  /\ r[Len(s) + 1] = x

IsFront(r, s) ==
  /\ Len(r) = Len(s) - 1
  /\ \A i \in 1..(Len(s) - 1) : r[i] = s[i]

IsReplace(r, s, x) ==
  /\ Len(r) = Len(s)
  /\ \A i \in 1..(Len(s) - 1) : r[i] = s[i]
  /\ r[Len(s)] = x

(* An element is put on a stack. *)
LEMMA Appended ==
  ASSUME NEW S, NEW s \in Seq(S), NEW x \in S
  PROVE  Append(s, x) \in Seq(S) /\ IsAppend(Append(s, x), s, x)
BY AppendProperties DEF IsAppend

(* The innermost element of a stack is taken off. *)
LEMMA Shortened ==
  ASSUME NEW S, NEW s \in Seq(S), s # <<>>
  PROVE  Front(s) \in Seq(S) /\ IsFront(Front(s), s)
<1>1. Len(s) \in Nat \ {0} /\ \A i \in 1..Len(s) : s[i] \in S
  BY EmptySeq, ElementOfSeq
<1> DEFINE n == Len(s) - 1
<1>2. n \in Nat /\ Len(s) = n + 1
  BY <1>1
<1>3. \A i \in 1..n : s[i] \in S
  BY <1>1, <1>2
<1> HIDE DEF n
<1>4. /\ SubSeq(s, 1, n) \in Seq(S)
      /\ Len(SubSeq(s, 1, n)) = IF 1 <= n THEN n - 1 + 1 ELSE 0
      /\ \A i \in 1..(n - 1 + 1) : SubSeq(s, 1, n)[i] = s[1 + i - 1]
  BY <1>2, <1>3, SubSeqProperties
<1>5. Front(s) = SubSeq(s, 1, n)
  BY DEF Front, n
<1>6. n - 1 + 1 = n /\ Len(s) - 1 = n
  BY <1>2
<1>7. \A i \in 1..n : 1 + i - 1 = i
  BY <1>2
<1> QED
  BY <1>2, <1>4, <1>5, <1>6, <1>7 DEF IsFront

(* The innermost element of a stack is replaced. *)
LEMMA Replaced ==
  ASSUME NEW S, NEW s \in Seq(S), s # <<>>, NEW x \in S
  PROVE  Append(Front(s), x) \in Seq(S) /\ IsReplace(Append(Front(s), x), s, x)
<1>1. Front(s) \in Seq(S) /\ IsFront(Front(s), s)
  BY Shortened
<1>2. Len(s) \in Nat \ {0}
  BY EmptySeq
<1> DEFINE f == Front(s)
<1>3. Append(f, x) \in Seq(S) /\ IsAppend(Append(f, x), f, x)
  BY <1>1, Appended
<1>4. f \in Seq(S) /\ IsFront(f, s)
  BY <1>1
<1> HIDE DEF f
<1>5. Len(f) = Len(s) - 1 /\ Len(f) + 1 = Len(s)
  BY <1>2, <1>4 DEF IsFront
<1>6. IsReplace(Append(f, x), s, x)
  BY <1>2, <1>3, <1>4, <1>5 DEF IsFront, IsAppend, IsReplace
<1> QED
  BY <1>3, <1>6 DEF f

-----------------------------------------------------------------------------
(* What the variables of a task hold. *)
LEMMA Typed ==
  ASSUME TypeOK, NEW t \in Tasks
  PROVE  /\ frames[t] \in Seq(Frame) /\ sessions[t] \in Seq(Session)
         /\ Depth(t) \in Nat /\ DOMAIN frames[t] = 1..Depth(t)
         /\ Open(t) \in Nat /\ DOMAIN sessions[t] = 1..Open(t)
         /\ frames[t] = <<>> <=> Depth(t) = 0
         /\ sessions[t] = <<>> <=> Open(t) = 0
         /\ \A i \in 1..Depth(t) : F(t, i) \in Frame
         /\ \A i \in 1..Open(t) : sessions[t][i] \in Session
         /\ Depth(t) # 0 => Depth(t) \in 1..Depth(t) /\ Top(t) = F(t, Depth(t)) /\ Top(t) \in Frame
         /\ Open(t) # 0 => Open(t) \in 1..Open(t) /\ Current(t) \in Session
         /\ ambient[t] \in BOOLEAN /\ region[t] \in BOOLEAN /\ unwinding[t] \in BOOLEAN
         /\ queued[t] \subseteq Rows /\ draining[t] \subseteq Rows
<1>1. frames[t] \in Seq(Frame) /\ sessions[t] \in Seq(Session)
  BY DEF TypeOK
<1>2. /\ Depth(t) \in Nat /\ DOMAIN frames[t] = 1..Depth(t)
      /\ \A i \in 1..Depth(t) : F(t, i) \in Frame
  BY <1>1, LenProperties, ElementOfSeq DEF Depth, F
<1>3. /\ Open(t) \in Nat /\ DOMAIN sessions[t] = 1..Open(t)
      /\ \A i \in 1..Open(t) : sessions[t][i] \in Session
  BY <1>1, LenProperties, ElementOfSeq DEF Open
<1>4. (frames[t] = <<>> <=> Depth(t) = 0) /\ (sessions[t] = <<>> <=> Open(t) = 0)
  BY <1>1, EmptySeq DEF Depth, Open
<1>5. Depth(t) # 0 => Depth(t) \in 1..Depth(t) /\ Top(t) = F(t, Depth(t)) /\ Top(t) \in Frame
  BY <1>2 DEF Top, Last, Depth, F
<1>6. Open(t) # 0 => Open(t) \in 1..Open(t) /\ Current(t) \in Session
  BY <1>3 DEF Current, Last, Open
<1>7. /\ ambient[t] \in BOOLEAN /\ region[t] \in BOOLEAN /\ unwinding[t] \in BOOLEAN
      /\ queued[t] \subseteq Rows /\ draining[t] \subseteq Rows
  BY DEF TypeOK
<1> QED
  BY <1>1, <1>2, <1>3, <1>4, <1>5, <1>6, <1>7

(* A task inside a scope that is not draining has a session. *)
LEMMA InSession ==
  ASSUME SInv, NEW t \in Tasks, Depth(t) # 0, ~Draining(t)
  PROVE  Open(t) \in Nat /\ Open(t) > 0 /\ sessions[t] # <<>>
<1>1. Depth(t) \in Nat /\ Open(t) \in Nat /\ (sessions[t] = <<>> <=> Open(t) = 0)
  BY Typed DEF SInv
<1>2. IF t \in leaked THEN Kept(t) ELSE Owners(t)
  BY DEF SInv, Shape
<1> QED
  BY <1>1, <1>2 DEF Kept, Owners

-----------------------------------------------------------------------------
(* What the actions do to the stacks. *)

(* Nothing that belongs to another task changes. *)
Sole(t) ==
  \A u \in Tasks \ {t} :
    /\ frames'[u] = frames[u] /\ sessions'[u] = sessions[u]
    /\ ambient'[u] = ambient[u] /\ region'[u] = region[u]
    /\ queued'[u] = queued[u] /\ draining'[u] = draining[u] /\ unwinding'[u] = unwinding[u]

(* A scope is entered. *)
LEMMA Pushes ==
  ASSUME TypeOK, NEW t \in Tasks, NEW f \in Frame, Push(t, f)
  PROVE  /\ frames' \in [Tasks -> Seq(Frame)] /\ IsAppend(frames'[t], frames[t], f)
         /\ \A u \in Tasks \ {t} : frames'[u] = frames[u]
<1>1. frames \in [Tasks -> Seq(Frame)] /\ frames[t] \in Seq(Frame)
  BY DEF TypeOK
<1>2. Append(frames[t], f) \in Seq(Frame) /\ IsAppend(Append(frames[t], f), frames[t], f)
  BY <1>1, Appended
<1> QED
  BY <1>1, <1>2 DEF Push

(* The innermost scope is left. *)
LEMMA Pops ==
  ASSUME TypeOK, NEW t \in Tasks, Depth(t) # 0, Pop(t)
  PROVE  /\ frames' \in [Tasks -> Seq(Frame)] /\ IsFront(frames'[t], frames[t])
         /\ \A u \in Tasks \ {t} : frames'[u] = frames[u]
<1>1. frames \in [Tasks -> Seq(Frame)] /\ frames[t] \in Seq(Frame) /\ frames[t] # <<>>
  BY Typed DEF TypeOK
<1>2. Front(frames[t]) \in Seq(Frame) /\ IsFront(Front(frames[t]), frames[t])
  BY <1>1, Shortened
<1> QED
  BY <1>1, <1>2 DEF Pop

(* The innermost scope changes. *)
LEMMA SetsTop ==
  ASSUME TypeOK, NEW t \in Tasks, Depth(t) # 0, NEW f \in Frame, SetTop(t, f)
  PROVE  /\ frames' \in [Tasks -> Seq(Frame)] /\ IsReplace(frames'[t], frames[t], f)
         /\ \A u \in Tasks \ {t} : frames'[u] = frames[u]
<1>1. frames \in [Tasks -> Seq(Frame)] /\ frames[t] \in Seq(Frame) /\ frames[t] # <<>>
  BY Typed DEF TypeOK
<1>2. /\ Append(Front(frames[t]), f) \in Seq(Frame)
      /\ IsReplace(Append(Front(frames[t]), f), frames[t], f)
  BY <1>1, Replaced
<1> QED
  BY <1>1, <1>2 DEF SetTop

(* The current session changes. *)
LEMMA SetsCurrent ==
  ASSUME TypeOK, NEW t \in Tasks, sessions[t] # <<>>, NEW s \in Session, SetCurrent(t, s)
  PROVE  /\ sessions' \in [Tasks -> Seq(Session)] /\ IsReplace(sessions'[t], sessions[t], s)
         /\ \A u \in Tasks \ {t} : sessions'[u] = sessions[u]
<1>1. sessions \in [Tasks -> Seq(Session)] /\ sessions[t] \in Seq(Session)
  BY DEF TypeOK
<1>2. /\ Append(Front(sessions[t]), s) \in Seq(Session)
      /\ IsReplace(Append(Front(sessions[t]), s), sessions[t], s)
  BY <1>1, Replaced
<1> QED
  BY <1>1, <1>2 DEF SetCurrent

(* A session is opened. *)
LEMMA Opens ==
  ASSUME TypeOK, NEW t \in Tasks, NEW s \in Session,
         sessions' = [sessions EXCEPT ![t] = Append(@, s)]
  PROVE  /\ sessions' \in [Tasks -> Seq(Session)] /\ IsAppend(sessions'[t], sessions[t], s)
         /\ \A u \in Tasks \ {t} : sessions'[u] = sessions[u]
<1>1. sessions \in [Tasks -> Seq(Session)] /\ sessions[t] \in Seq(Session)
  BY DEF TypeOK
<1>2. Append(sessions[t], s) \in Seq(Session) /\ IsAppend(Append(sessions[t], s), sessions[t], s)
  BY <1>1, Appended
<1> QED
  BY <1>1, <1>2

(* The current session is closed. *)
LEMMA Closes ==
  ASSUME TypeOK, NEW t \in Tasks, sessions[t] # <<>>,
         sessions' = [sessions EXCEPT ![t] = Front(@)]
  PROVE  /\ sessions' \in [Tasks -> Seq(Session)] /\ IsFront(sessions'[t], sessions[t])
         /\ \A u \in Tasks \ {t} : sessions'[u] = sessions[u]
<1>1. sessions \in [Tasks -> Seq(Session)] /\ sessions[t] \in Seq(Session)
  BY DEF TypeOK
<1>2. Front(sessions[t]) \in Seq(Session) /\ IsFront(Front(sessions[t]), sessions[t])
  BY <1>1, Shortened
<1> QED
  BY <1>1, <1>2

(* What sessions and scopes are made of. *)
LEMMA Pieces ==
  ASSUME TypeOK
  PROVE  /\ NoWrites \in [Rows -> Writes] /\ NewSession \in Session
         /\ clock + 1 \in Writes
         /\ \A s \in Session : /\ s.writes \in [Rows -> Writes] /\ s.pending \subseteq Rows
                               /\ s.doomed \in BOOLEAN
         /\ \A f \in Frame : /\ f.saved \in [Rows -> Writes] /\ f.made \subseteq Writes
                             /\ f.own \in BOOLEAN /\ f.token \in BOOLEAN
                             /\ f.row \in Rows \union {NoRow}
BY DEF TypeOK, NoWrites, NewSession, Writes, Session, Frame

Scope(t, kind, stage, row) ==
  [kind |-> kind, own |-> ~ambient[t], token |-> ~ambient[t] /\ ~region[t],
   stage |-> stage, row |-> row, saved |-> NoWrites, made |-> {}]

(* A block or a write is entered, in the ambient session or one of its own. *)
LEMMA EnterEffect ==
  ASSUME SInv, NEW t \in Tasks, NEW kind \in {"uow", "write"}, NEW stage \in {"body", "pre"},
         NEW row \in Rows \union {NoRow}, Enter(t, kind, stage, row),
         ambient' \in [Tasks -> BOOLEAN], \A u \in Tasks \ {t} : ambient'[u] = ambient[u]
  PROVE  /\ TypeOK' /\ Sole(t)
         /\ IsAppend(frames'[t], frames[t], Scope(t, kind, stage, row))
         /\ IF ambient[t] THEN sessions'[t] = sessions[t]
            ELSE IsAppend(sessions'[t], sessions[t], NewSession)
         /\ region'[t] <=> (region[t] \/ ~ambient[t])
         /\ draining'[t] = draining[t] /\ queued'[t] = queued[t]
<1>1. TypeOK
  BY DEF SInv
<1>2. Scope(t, kind, stage, row) \in Frame
  BY <1>1, Pieces DEF Scope, Frame, TypeOK
<1>3. Push(t, Scope(t, kind, stage, row))
  BY DEF Enter, Scope
<1>4. /\ frames' \in [Tasks -> Seq(Frame)]
      /\ IsAppend(frames'[t], frames[t], Scope(t, kind, stage, row))
      /\ \A u \in Tasks \ {t} : frames'[u] = frames[u]
  BY <1>1, <1>2, <1>3, Pushes
<1>5. /\ sessions' \in [Tasks -> Seq(Session)]
      /\ IF ambient[t] THEN sessions'[t] = sessions[t]
         ELSE IsAppend(sessions'[t], sessions[t], NewSession)
      /\ \A u \in Tasks \ {t} : sessions'[u] = sessions[u]
  <2>1. CASE ambient[t]
    BY <1>1, <2>1 DEF Enter, TypeOK
  <2>2. CASE ~ambient[t]
    <3>1. sessions' = [sessions EXCEPT ![t] = Append(@, NewSession)]
      BY <2>2 DEF Enter
    <3> QED
      BY <1>1, <2>2, <3>1, Opens, Pieces
  <2> QED
    BY <2>1, <2>2
<1>6. /\ region' \in [Tasks -> BOOLEAN] /\ (region'[t] <=> (region[t] \/ ~ambient[t]))
      /\ \A u \in Tasks \ {t} : region'[u] = region[u]
  BY <1>1 DEF Enter, TypeOK
<1>7. scopes' \in 0..MaxScopes /\ taken' \subseteq Liberties
  BY <1>1, UnitOfWorkAssumption DEF Enter, MayEnter, Takes, TypeOK, Liberties
<1>8. UNCHANGED <<db, clock, queued, draining, unwinding, faults, stale, interrupted, leaked,
                  undone>>
  BY DEF Enter
<1>9. TypeOK'
  BY <1>1, <1>4, <1>5, <1>6, <1>7, <1>8 DEF TypeOK
<1> QED
  BY <1>4, <1>5, <1>6, <1>8, <1>9 DEF Sole

(* The task is inside a scope of the given kind and stage. *)
LEMMA Inside ==
  ASSUME SInv, NEW t \in Tasks, NEW kind, NEW stage, At(t, kind, stage), stage # "draining"
  PROVE  /\ Depth(t) # 0 /\ Depth(t) \in 1..Depth(t) /\ ~Draining(t) /\ draining[t] = {}
         /\ Top(t) = F(t, Depth(t)) /\ Top(t) \in Frame
         /\ F(t, Depth(t)).kind = kind /\ F(t, Depth(t)).stage = stage
         /\ Open(t) # 0 /\ sessions[t] # <<>> /\ Current(t) \in Session
<1>1. Depth(t) # 0 /\ Depth(t) \in 1..Depth(t) /\ Top(t) = F(t, Depth(t)) /\ Top(t) \in Frame
  BY Typed DEF SInv, At
<1>2. ~Draining(t)
  BY DEF At, Draining
<1>3. Open(t) # 0 /\ sessions[t] # <<>>
  BY <1>1, <1>2, InSession
<1>4. Current(t) \in Session
  BY <1>3, Typed DEF SInv
<1>5. draining[t] = {}
  BY <1>2 DEF SInv, Shape, Stack
<1> QED
  BY <1>1, <1>2, <1>3, <1>4, <1>5 DEF At

Savepoint(t) ==
  [kind |-> "savepoint", own |-> FALSE, token |-> FALSE, stage |-> "body",
   row |-> NoRow, saved |-> Current(t).writes, made |-> {}]

(* The writes a savepoint would go back to are those of the session now. *)
LEMMA SavepointEffect ==
  ASSUME SInv, NEW t \in Tasks, EnterSavepoint(t)
  PROVE  /\ TypeOK' /\ Sole(t) /\ Savepoint(t) \in Frame
         /\ IsAppend(frames'[t], frames[t], Savepoint(t))
         /\ UNCHANGED <<sessions, ambient, region, queued, draining, unwinding>>
<1>1. TypeOK
  BY DEF SInv
<1>2. Current(t) \in Session
  BY Inside DEF EnterSavepoint, InBlock
<1>3. Savepoint(t) \in Frame
  BY <1>1, <1>2, Pieces DEF Savepoint, Frame
<1>4. Push(t, Savepoint(t))
  BY DEF EnterSavepoint, Savepoint
<1>5. /\ frames' \in [Tasks -> Seq(Frame)] /\ IsAppend(frames'[t], frames[t], Savepoint(t))
      /\ \A u \in Tasks \ {t} : frames'[u] = frames[u]
  BY <1>1, <1>3, <1>4, Pushes
<1>6. scopes' \in 0..MaxScopes
  BY <1>1, UnitOfWorkAssumption DEF EnterSavepoint, MayEnter, TypeOK
<1>7. UNCHANGED <<db, clock, sessions, ambient, region, queued, draining, unwinding, faults,
                  stale, interrupted, leaked, undone, taken>>
  BY DEF EnterSavepoint, contextVars, historyVars
<1>8. TypeOK'
  BY <1>1, <1>5, <1>6, <1>7 DEF TypeOK
<1> QED
  BY <1>3, <1>5, <1>7, <1>8 DEF Sole

(* Every scope around a write counts it as made inside. *)
LEMMA FlushedScopes ==
  ASSUME TypeOK, NEW t \in Tasks, NEW n \in Writes
  PROVE  /\ Flushed(t, n) \in Seq(Frame) /\ Len(Flushed(t, n)) = Depth(t)
         /\ \A i \in 1..Depth(t) :
              /\ Flushed(t, n)[i].kind = F(t, i).kind /\ Flushed(t, n)[i].own = F(t, i).own
              /\ Flushed(t, n)[i].token = F(t, i).token /\ Flushed(t, n)[i].row = F(t, i).row
              /\ Flushed(t, n)[i].saved = F(t, i).saved
              /\ Flushed(t, n)[i].made = F(t, i).made \union {n}
              /\ Flushed(t, n)[i].stage = IF i = Depth(t) THEN "post" ELSE F(t, i).stage
<1>1. /\ Depth(t) \in Nat /\ DOMAIN frames[t] = 1..Depth(t)
      /\ \A i \in 1..Depth(t) : F(t, i) \in Frame
      /\ Depth(t) # 0 => Top(t) = F(t, Depth(t))
  BY Typed
<1>2. Flushed(t, n) = [i \in 1..Depth(t) |->
        [F(t, i) EXCEPT !.made = @ \union {n}, !.stage = IF i = Depth(t) THEN "post" ELSE @]]
  BY <1>1 DEF Flushed, F, Depth
<1>3. ASSUME NEW i \in 1..Depth(t)
      PROVE  /\ Flushed(t, n)[i].kind = F(t, i).kind /\ Flushed(t, n)[i].own = F(t, i).own
             /\ Flushed(t, n)[i].token = F(t, i).token /\ Flushed(t, n)[i].row = F(t, i).row
             /\ Flushed(t, n)[i].saved = F(t, i).saved
             /\ Flushed(t, n)[i].made = F(t, i).made \union {n}
             /\ Flushed(t, n)[i].stage = IF i = Depth(t) THEN "post" ELSE F(t, i).stage
             /\ Flushed(t, n)[i] \in Frame
  <2> DEFINE f == F(t, i)
             st == IF i = Depth(t) THEN "post" ELSE f.stage
  <2>1. f \in Frame
    BY <1>1
  <2>2. Flushed(t, n)[i] = [f EXCEPT !.made = @ \union {n}, !.stage = st]
    BY <1>2
  <2>3. st \in {"body", "pre", "post", "commit", "committed", "rolledback", "draining"}
    BY <2>1 DEF Frame
  <2> HIDE DEF f, st
  <2>4. LET g == [f EXCEPT !.made = @ \union {n}, !.stage = st] IN
          /\ g \in Frame /\ g.kind = f.kind /\ g.own = f.own /\ g.token = f.token
          /\ g.row = f.row /\ g.saved = f.saved /\ g.made = f.made \union {n} /\ g.stage = st
    BY <2>1, <2>3 DEF Frame, Writes
  <2> QED
    BY <2>2, <2>4 DEF f, st
<1>4. \A i \in 1..Depth(t) :
        /\ Flushed(t, n)[i].kind = F(t, i).kind /\ Flushed(t, n)[i].own = F(t, i).own
        /\ Flushed(t, n)[i].token = F(t, i).token /\ Flushed(t, n)[i].row = F(t, i).row
        /\ Flushed(t, n)[i].saved = F(t, i).saved
        /\ Flushed(t, n)[i].made = F(t, i).made \union {n}
        /\ Flushed(t, n)[i].stage = IF i = Depth(t) THEN "post" ELSE F(t, i).stage
  BY <1>3
<1>5. \A i \in 1..Depth(t) : Flushed(t, n)[i] \in Frame
  BY <1>3
<1>6. Flushed(t, n) \in [1..Depth(t) -> Frame]
  BY <1>2, <1>5
<1>7. Flushed(t, n) \in Seq(Frame)
  BY <1>1, <1>6, SeqDef
<1>8. Len(Flushed(t, n)) = Depth(t)
  BY <1>1, <1>6, <1>7, LenProperties
<1> QED
  BY <1>4, <1>7, <1>8

(* A write is flushed and numbered. *)
LEMMA FlushEffect ==
  ASSUME SInv, NEW t \in Tasks, Flush(t)
  PROVE  /\ TypeOK' /\ Sole(t) /\ frames'[t] = Flushed(t, clock + 1)
         /\ Top(t).row \in Rows /\ clock' = clock + 1
         /\ IsReplace(sessions'[t], sessions[t],
                      [Current(t) EXCEPT !.writes[Top(t).row] = clock + 1])
         /\ UNCHANGED <<ambient, region, queued, draining, unwinding>>
<1>1. TypeOK
  BY DEF SInv
<1>2. /\ Depth(t) # 0 /\ Depth(t) \in 1..Depth(t) /\ Top(t) = F(t, Depth(t))
      /\ F(t, Depth(t)).kind = "write" /\ sessions[t] # <<>> /\ Current(t) \in Session
  BY Inside DEF Flush
<1>3. Top(t).row \in Rows
  BY <1>1, <1>2, Typed DEF SInv, Shape, Stack
<1>4. [Current(t) EXCEPT !.writes[Top(t).row] = clock + 1] \in Session
  BY <1>1, <1>2, <1>3, Pieces DEF Session
<1>5. /\ sessions' \in [Tasks -> Seq(Session)]
      /\ IsReplace(sessions'[t], sessions[t],
                   [Current(t) EXCEPT !.writes[Top(t).row] = clock + 1])
      /\ \A u \in Tasks \ {t} : sessions'[u] = sessions[u]
  BY <1>1, <1>2, <1>4, SetsCurrent DEF Flush
<1>6. /\ frames' \in [Tasks -> Seq(Frame)] /\ frames'[t] = Flushed(t, clock + 1)
      /\ \A u \in Tasks \ {t} : frames'[u] = frames[u]
  <2>1. Flushed(t, clock + 1) \in Seq(Frame)
    BY <1>1, FlushedScopes, Pieces
  <2>2. frames' = [frames EXCEPT ![t] = Flushed(t, clock + 1)]
    BY DEF Flush
  <2> QED
    BY <1>1, <2>1, <2>2 DEF TypeOK
<1>7. clock' = clock + 1 /\ clock' \in Writes
  BY <1>1, Pieces DEF Flush
<1>8. UNCHANGED <<db, ambient, region, queued, draining, unwinding, scopes, faults,
                  stale, interrupted, leaked, undone, taken>>
  BY DEF Flush, contextVars, historyVars
<1>9. TypeOK'
  BY <1>1, <1>5, <1>6, <1>7, <1>8 DEF TypeOK
<1> QED
  BY <1>3, <1>5, <1>6, <1>7, <1>8, <1>9 DEF Sole

(* What a failed write left behind is flushed. *)
LEMMA FlushPendingEffect ==
  ASSUME SInv, NEW t \in Tasks, NEW k \in Rows, FlushPending(t, k)
  PROVE  /\ TypeOK' /\ Sole(t)
         /\ IsReplace(sessions'[t], sessions[t],
                      [Current(t) EXCEPT !.writes[k] = clock + 1, !.pending = @ \ {k}])
         /\ UNCHANGED <<frames, ambient, region, queued, draining, unwinding>>
<1>1. TypeOK
  BY DEF SInv
<1>2. sessions[t] # <<>> /\ Current(t) \in Session
  BY <1>1, Typed DEF FlushPending
<1>4. [Current(t) EXCEPT !.writes[k] = clock + 1, !.pending = @ \ {k}] \in Session
  BY <1>1, <1>2, Pieces DEF Session
<1>5. /\ sessions' \in [Tasks -> Seq(Session)]
      /\ IsReplace(sessions'[t], sessions[t],
                   [Current(t) EXCEPT !.writes[k] = clock + 1, !.pending = @ \ {k}])
      /\ \A u \in Tasks \ {t} : sessions'[u] = sessions[u]
  BY <1>1, <1>2, <1>4, SetsCurrent DEF FlushPending
<1>7. clock' \in Writes /\ undone' \subseteq Writes
  BY <1>1, Pieces DEF FlushPending, TypeOK
<1>8. UNCHANGED <<db, frames, ambient, region, queued, draining, unwinding, scopes, faults,
                  stale, interrupted, leaked, taken>>
  BY DEF FlushPending, contextVars
<1>9. TypeOK'
  BY <1>1, <1>5, <1>7, <1>8 DEF TypeOK
<1> QED
  BY <1>5, <1>8, <1>9 DEF Sole

(* A scope with another stage. *)
LEMMA Staged ==
  ASSUME NEW f \in Frame,
         NEW stage \in {"body", "pre", "post", "commit", "committed", "rolledback", "draining"}
  PROVE  LET g == [f EXCEPT !.stage = stage] IN
           /\ g \in Frame /\ g.kind = f.kind /\ g.own = f.own /\ g.token = f.token
           /\ g.row = f.row /\ g.saved = f.saved /\ g.made = f.made /\ g.stage = stage
BY DEF Frame

(* A session that was taken back. *)
LEMMA Restored ==
  ASSUME TypeOK, NEW w \in [Rows -> Writes], NEW d \in BOOLEAN
  PROVE  [writes |-> w, pending |-> {}, doomed |-> d] \in Session
BY DEF Session

(* A failed flush takes the session back to the innermost savepoint. *)
LEMMA FlushFailsEffect ==
  ASSUME SInv, NEW t \in Tasks, FlushFails(t)
  PROVE  /\ TypeOK' /\ Sole(t) /\ IsFront(frames'[t], frames[t])
         /\ \E w \in [Rows -> Writes] :
              /\ IsReplace(sessions'[t], sessions[t],
                           [writes |-> w, pending |-> {}, doomed |-> TRUE])
              /\ \/ w = NoWrites
                 \/ \E i \in 1..Depth(t) : F(t, i).kind = "savepoint" /\ w = F(t, i).saved
         /\ UNCHANGED <<ambient, region, queued, draining>> /\ unwinding'[t] = TRUE
<1>1. TypeOK
  BY DEF SInv
<1>2. Depth(t) # 0 /\ Top(t) \in Frame /\ sessions[t] # <<>>
  BY Inside DEF FlushFails
<1>3. DOMAIN frames[t] = 1..Depth(t) /\ \A i \in 1..Depth(t) : F(t, i) \in Frame
  BY <1>1, Typed
<1>4. PICK w \in [Rows -> Writes] :
        /\ SetCurrent(t, [writes |-> w, pending |-> {}, doomed |-> TRUE])
        /\ \/ w = NoWrites
           \/ \E i \in 1..Depth(t) : F(t, i).kind = "savepoint" /\ w = F(t, i).saved
  <2>1. CASE SetCurrent(t, [writes |-> NoWrites, pending |-> {}, doomed |-> TRUE])
    BY <1>1, <2>1, Pieces
  <2>2. CASE \E i \in DOMAIN frames[t] : /\ F(t, i).kind = "savepoint"
          /\ SetCurrent(t, [writes |-> F(t, i).saved, pending |-> {}, doomed |-> TRUE])
    <3>1. PICK i \in 1..Depth(t) : /\ F(t, i).kind = "savepoint"
            /\ SetCurrent(t, [writes |-> F(t, i).saved, pending |-> {}, doomed |-> TRUE])
      BY <1>3, <2>2
    <3>2. F(t, i).saved \in [Rows -> Writes]
      BY <1>1, <1>3, Pieces
    <3> QED
      BY <3>1, <3>2
  <2> QED
    BY <2>1, <2>2 DEF FlushFails, F
<1>5. [writes |-> w, pending |-> {}, doomed |-> TRUE] \in Session
  BY <1>1, Restored
<1>6. /\ sessions' \in [Tasks -> Seq(Session)]
      /\ IsReplace(sessions'[t], sessions[t], [writes |-> w, pending |-> {}, doomed |-> TRUE])
      /\ \A u \in Tasks \ {t} : sessions'[u] = sessions[u]
  BY <1>1, <1>2, <1>4, <1>5, SetsCurrent
<1>7. /\ frames' \in [Tasks -> Seq(Frame)] /\ IsFront(frames'[t], frames[t])
      /\ \A u \in Tasks \ {t} : frames'[u] = frames[u]
  BY <1>1, <1>2, Pops DEF FlushFails
<1>8. /\ unwinding' \in [Tasks -> BOOLEAN] /\ unwinding'[t] = TRUE
      /\ \A u \in Tasks \ {t} : unwinding'[u] = unwinding[u]
  BY <1>1 DEF FlushFails, TypeOK
<1>9. undone' \subseteq Writes
  BY <1>1, <1>2, Pieces DEF FlushFails, TypeOK
<1>10. UNCHANGED <<db, clock, ambient, region, queued, draining, scopes, faults,
                   stale, interrupted, leaked, taken>>
  BY DEF FlushFails, contextVars
<1>11. TypeOK'
  BY <1>1, <1>6, <1>7, <1>8, <1>9, <1>10 DEF TypeOK
<1> QED
  BY <1>4, <1>6, <1>7, <1>8, <1>10, <1>11 DEF Sole

(* A write ends: one with its own session goes on to commit. *)
LEMMA CompleteEffect ==
  ASSUME SInv, NEW t \in Tasks, Complete(t)
  PROVE  /\ TypeOK' /\ Sole(t) /\ Top(t).row \in Rows
         /\ IF Top(t).own THEN IsReplace(frames'[t], frames[t], [Top(t) EXCEPT !.stage = "commit"])
            ELSE IsFront(frames'[t], frames[t])
         /\ queued'[t] = IF region[t] THEN queued[t] \union {Top(t).row} ELSE queued[t]
         /\ UNCHANGED <<sessions, ambient, region, draining, unwinding>>
<1>1. TypeOK
  BY DEF SInv
<1>2. /\ Depth(t) # 0 /\ Depth(t) \in 1..Depth(t) /\ Top(t) \in Frame
      /\ Top(t) = F(t, Depth(t)) /\ F(t, Depth(t)).kind = "write"
  BY Inside DEF Complete
<1>3. Top(t).row \in Rows
  BY <1>1, <1>2, Typed DEF SInv, Shape, Stack
<1>4. /\ frames' \in [Tasks -> Seq(Frame)]
      /\ IF Top(t).own THEN IsReplace(frames'[t], frames[t], [Top(t) EXCEPT !.stage = "commit"])
         ELSE IsFront(frames'[t], frames[t])
      /\ \A u \in Tasks \ {t} : frames'[u] = frames[u]
  <2>1. CASE Top(t).own
    <3>1. SetTop(t, [Top(t) EXCEPT !.stage = "commit"])
      BY <2>1 DEF Complete, SetStage
    <3>2. [Top(t) EXCEPT !.stage = "commit"] \in Frame
      BY <1>2, Staged
    <3> QED
      BY <1>1, <1>2, <2>1, <3>1, <3>2, SetsTop
  <2>2. CASE ~Top(t).own
    BY <1>1, <1>2, <2>2, Pops DEF Complete
  <2> QED
    BY <2>1, <2>2
<1>5. /\ queued' \in [Tasks -> SUBSET Rows]
      /\ queued'[t] = IF region[t] THEN queued[t] \union {Top(t).row} ELSE queued[t]
      /\ \A u \in Tasks \ {t} : queued'[u] = queued[u]
  BY <1>1, <1>3 DEF Complete, TypeOK
<1>6. UNCHANGED <<db, clock, sessions, ambient, region, draining, unwinding, scopes, faults,
                  stale, interrupted, leaked, undone, taken>>
  BY DEF Complete, historyVars
<1>7. TypeOK'
  BY <1>1, <1>4, <1>5, <1>6 DEF TypeOK
<1> QED
  BY <1>3, <1>4, <1>5, <1>6, <1>7 DEF Sole

RaiseOwn(t) ==
  /\ Top(t).own /\ unwinding'[t] = unwinding[t]
  /\ IsReplace(sessions'[t], sessions[t], NewSession)
  /\ IsReplace(frames'[t], frames[t], [Top(t) EXCEPT !.stage = "rolledback"])

RaiseSavepoint(t) ==
  /\ Top(t).kind = "savepoint" /\ ~Top(t).own
  /\ IsReplace(sessions'[t], sessions[t],
               [writes |-> Top(t).saved, pending |-> {}, doomed |-> FALSE])
  /\ IsFront(frames'[t], frames[t])

(* Outside any scope there is nobody left to catch the exception. *)
RaiseJoined(t) ==
  /\ ~Top(t).own /\ Top(t).kind # "savepoint"
  /\ IsFront(frames'[t], frames[t])
  /\ unwinding'[t] <=> Depth(t) > 1
  /\ \/ sessions'[t] = sessions[t]
     \/ IsReplace(sessions'[t], sessions[t],
                  [Current(t) EXCEPT !.pending = @ \union {Top(t).row}])

(* An exception leaves a scope in one of three ways. *)
LEMMA RaiseEffect ==
  ASSUME SInv, NEW t \in Tasks, Raise(t)
  PROVE  /\ TypeOK' /\ Sole(t) /\ UNCHANGED <<ambient, region, queued, draining>>
         /\ RaiseOwn(t) \/ RaiseSavepoint(t) \/ RaiseJoined(t)
<1>1. TypeOK
  BY DEF SInv
<1>2. /\ Depth(t) # 0 /\ Depth(t) \in 1..Depth(t) /\ Top(t) \in Frame
      /\ Top(t) = F(t, Depth(t)) /\ sessions[t] # <<>> /\ Current(t) \in Session
  BY Inside DEF Raise, Running, InBlock, InHandler
<1>3. UNCHANGED <<db, clock, ambient, region, queued, draining, scopes, faults,
                  stale, interrupted, leaked, taken>>
  BY DEF Raise, contextVars
<1>4. undone' \subseteq Writes
  BY <1>1, <1>2, Pieces DEF Raise, TypeOK
<1>5. CASE /\ Top(t).own
           /\ SetCurrent(t, NewSession)
           /\ SetStage(t, "rolledback")
           /\ UNCHANGED unwinding
  <2>1. SetTop(t, [Top(t) EXCEPT !.stage = "rolledback"])
    BY <1>5 DEF SetStage
  <2>2. [Top(t) EXCEPT !.stage = "rolledback"] \in Frame
    BY <1>2, Staged
  <2>3. /\ frames' \in [Tasks -> Seq(Frame)]
        /\ IsReplace(frames'[t], frames[t], [Top(t) EXCEPT !.stage = "rolledback"])
        /\ \A u \in Tasks \ {t} : frames'[u] = frames[u]
    BY <1>1, <1>2, <2>1, <2>2, SetsTop
  <2>4. /\ sessions' \in [Tasks -> Seq(Session)]
        /\ IsReplace(sessions'[t], sessions[t], NewSession)
        /\ \A u \in Tasks \ {t} : sessions'[u] = sessions[u]
    BY <1>1, <1>2, <1>5, SetsCurrent, Pieces
  <2>5. TypeOK'
    BY <1>1, <1>3, <1>4, <1>5, <2>3, <2>4 DEF TypeOK
  <2> QED
    BY <1>3, <1>5, <2>3, <2>4, <2>5 DEF Sole, RaiseOwn
<1>6. CASE /\ Top(t).kind = "savepoint"
           /\ SetCurrent(t, [writes |-> Top(t).saved, pending |-> {}, doomed |-> FALSE])
           /\ Pop(t)
           /\ unwinding' \in {[unwinding EXCEPT ![t] = b] : b \in BOOLEAN}
  <2>1. [writes |-> Top(t).saved, pending |-> {}, doomed |-> FALSE] \in Session
    BY <1>1, <1>2, Pieces, Restored
  <2>2. /\ frames' \in [Tasks -> Seq(Frame)] /\ IsFront(frames'[t], frames[t])
        /\ \A u \in Tasks \ {t} : frames'[u] = frames[u]
    BY <1>1, <1>2, <1>6, Pops
  <2>3. /\ sessions' \in [Tasks -> Seq(Session)]
        /\ IsReplace(sessions'[t], sessions[t],
                     [writes |-> Top(t).saved, pending |-> {}, doomed |-> FALSE])
        /\ \A u \in Tasks \ {t} : sessions'[u] = sessions[u]
    BY <1>1, <1>2, <1>6, <2>1, SetsCurrent
  <2>4. /\ unwinding' \in [Tasks -> BOOLEAN]
        /\ \A u \in Tasks \ {t} : unwinding'[u] = unwinding[u]
    BY <1>1, <1>6 DEF TypeOK
  <2>5. TypeOK'
    BY <1>1, <1>3, <1>4, <2>2, <2>3, <2>4 DEF TypeOK
  <2>6. ~Top(t).own
    BY <1>1, <1>2, <1>6, Typed DEF SInv, Shape, Stack
  <2> QED
    BY <1>3, <1>6, <2>2, <2>3, <2>4, <2>5, <2>6 DEF Sole, RaiseSavepoint
<1>7. CASE /\ ~Top(t).own /\ Top(t).kind # "savepoint"
           /\ Pop(t)
           /\ unwinding' = [unwinding EXCEPT ![t] = Len(frames[t]) > 1]
           /\ \/ UNCHANGED sessions
              \/ /\ At(t, "write", "pre")
                 /\ SetCurrent(t, [Current(t) EXCEPT !.pending = @ \union {Top(t).row}])
  <2>2. /\ frames' \in [Tasks -> Seq(Frame)] /\ IsFront(frames'[t], frames[t])
        /\ \A u \in Tasks \ {t} : frames'[u] = frames[u]
    BY <1>1, <1>2, <1>7, Pops
  <2>3. /\ sessions' \in [Tasks -> Seq(Session)]
        /\ \/ sessions'[t] = sessions[t]
           \/ IsReplace(sessions'[t], sessions[t],
                        [Current(t) EXCEPT !.pending = @ \union {Top(t).row}])
        /\ \A u \in Tasks \ {t} : sessions'[u] = sessions[u]
    <3>1. CASE UNCHANGED sessions
      BY <1>1, <3>1 DEF TypeOK
    <3>2. CASE /\ At(t, "write", "pre")
               /\ SetCurrent(t, [Current(t) EXCEPT !.pending = @ \union {Top(t).row}])
      <4>1. Top(t).row \in Rows
        BY <1>1, <1>2, <3>2, Typed DEF SInv, Shape, Stack, At
      <4>2. [Current(t) EXCEPT !.pending = @ \union {Top(t).row}] \in Session
        BY <1>2, <4>1 DEF Session
      <4> QED
        BY <1>1, <1>2, <3>2, <4>2, SetsCurrent
    <3> QED
      BY <1>7, <3>1, <3>2
  <2>4. /\ unwinding' \in [Tasks -> BOOLEAN] /\ (unwinding'[t] <=> Depth(t) > 1)
        /\ \A u \in Tasks \ {t} : unwinding'[u] = unwinding[u]
    <3> DEFINE b == Len(frames[t]) > 1
    <3>1. b \in BOOLEAN /\ (b <=> Depth(t) > 1)
      BY DEF Depth
    <3>2. unwinding' = [unwinding EXCEPT ![t] = b]
      BY <1>7
    <3> HIDE DEF b
    <3>3. /\ unwinding' \in [Tasks -> BOOLEAN] /\ unwinding'[t] = b
          /\ \A u \in Tasks \ {t} : unwinding'[u] = unwinding[u]
      BY <1>1, <3>1, <3>2 DEF TypeOK
    <3> QED
      BY <3>1, <3>3
  <2>5. TypeOK'
    BY <1>1, <1>3, <1>4, <2>2, <2>3, <2>4 DEF TypeOK
  <2> QED
    BY <1>3, <1>7, <2>2, <2>3, <2>4, <2>5 DEF Sole, RaiseJoined
<1> QED
  BY <1>5, <1>6, <1>7 DEF Raise

(* An exception is caught. *)
LEMMA SwallowEffect ==
  ASSUME SInv, NEW t \in Tasks, Swallow(t)
  PROVE  /\ TypeOK' /\ Sole(t) /\ unwinding'[t] = FALSE /\ "swallow" \in taken'
         /\ UNCHANGED <<frames, sessions, ambient, region, queued, draining>>
<1>1. TypeOK
  BY DEF SInv
<1>2. /\ unwinding' \in [Tasks -> BOOLEAN] /\ unwinding'[t] = FALSE
      /\ \A u \in Tasks \ {t} : unwinding'[u] = unwinding[u]
  BY <1>1 DEF Swallow, TypeOK
<1>3. taken' \subseteq Liberties /\ "swallow" \in taken'
  BY <1>1 DEF Swallow, Takes, TypeOK, Liberties
<1>4. UNCHANGED <<db, clock, frames, sessions, ambient, region, queued, draining, scopes, faults,
                  stale, interrupted, leaked, undone>>
  BY DEF Swallow, contextVars
<1>5. TypeOK'
  BY <1>1, <1>2, <1>3, <1>4 DEF TypeOK
<1> QED
  BY <1>2, <1>3, <1>4, <1>5 DEF Sole

(* A joined block or a savepoint ends as it should. *)
LEMMA ExitEffect ==
  ASSUME SInv, NEW t \in Tasks, ExitJoined(t) \/ ReleaseSavepoint(t)
  PROVE  /\ TypeOK' /\ Sole(t) /\ ~Top(t).own /\ IsFront(frames'[t], frames[t])
         /\ Top(t).kind \in {"uow", "savepoint"}
         /\ UNCHANGED <<sessions, ambient, region, queued, draining, unwinding>>
<1>1. TypeOK
  BY DEF SInv
<1>2. Depth(t) # 0 /\ Depth(t) \in 1..Depth(t) /\ Top(t) = F(t, Depth(t))
  BY Inside DEF ExitJoined, ReleaseSavepoint
<1>3. ~Top(t).own /\ Top(t).kind \in {"uow", "savepoint"}
  BY <1>1, <1>2, Typed DEF ExitJoined, ReleaseSavepoint, At, SInv, Shape, Stack
<1>4. /\ frames' \in [Tasks -> Seq(Frame)] /\ IsFront(frames'[t], frames[t])
      /\ \A u \in Tasks \ {t} : frames'[u] = frames[u]
  BY <1>1, <1>2, Pops DEF ExitJoined, ReleaseSavepoint
<1>5. UNCHANGED <<db, clock, sessions, ambient, region, queued, draining, unwinding, scopes, faults,
                  stale, interrupted, leaked, undone, taken>>
  BY DEF ExitJoined, ReleaseSavepoint, contextVars, historyVars
<1>6. TypeOK'
  BY <1>1, <1>4, <1>5 DEF TypeOK
<1> QED
  BY <1>3, <1>4, <1>5, <1>6 DEF Sole

(* The writes of the session become those of the database. *)
LEMMA CommitsEffect ==
  ASSUME TypeOK, NEW t \in Tasks, sessions[t] # <<>>, Current(t) \in Session, Commits(t)
  PROVE  /\ db' \in [Rows -> Writes]
         /\ \A k \in Rows : db'[k] = IF Current(t).writes[k] # 0 THEN Current(t).writes[k] ELSE db[k]
         /\ stale' = stale \union Written(Current(t)) /\ Written(Current(t)) \subseteq Rows
         /\ sessions' \in [Tasks -> Seq(Session)] /\ IsReplace(sessions'[t], sessions[t], NewSession)
         /\ \A u \in Tasks \ {t} : sessions'[u] = sessions[u]
<1>1. Written(Current(t)) \subseteq Rows
  BY DEF Written
<1>2. \A k \in Rows : Current(t).writes[k] \in Writes /\ db[k] \in Writes
  BY Pieces DEF TypeOK
<1>3. db' = [k \in Rows |-> IF Current(t).writes[k] # 0 THEN Current(t).writes[k] ELSE db[k]]
  BY DEF Commits, Written
<1>4. /\ sessions' \in [Tasks -> Seq(Session)] /\ IsReplace(sessions'[t], sessions[t], NewSession)
      /\ \A u \in Tasks \ {t} : sessions'[u] = sessions[u]
  BY SetsCurrent, Pieces DEF Commits
<1>5. stale' = stale \union Written(Current(t))
  BY DEF Commits
<1> QED
  BY <1>1, <1>2, <1>3, <1>4, <1>5

(* A block commits and goes on. *)
LEMMA MidCommitEffect ==
  ASSUME SInv, NEW t \in Tasks, MidCommit(t)
  PROVE  /\ TypeOK' /\ Sole(t) /\ "midCommit" \in taken'
         /\ IsReplace(frames'[t], frames[t], [Top(t) EXCEPT !.made = {}])
         /\ IsReplace(sessions'[t], sessions[t], NewSession)
         /\ \A k \in Rows : db'[k] = IF Current(t).writes[k] # 0 THEN Current(t).writes[k] ELSE db[k]
         /\ UNCHANGED <<ambient, region, queued, draining, unwinding>>
<1>1. TypeOK
  BY DEF SInv
<1>2. Depth(t) # 0 /\ Top(t) \in Frame /\ sessions[t] # <<>> /\ Current(t) \in Session
  BY Inside DEF MidCommit
<1>3. [Top(t) EXCEPT !.made = {}] \in Frame
  BY <1>2 DEF Frame
<1>4. /\ frames' \in [Tasks -> Seq(Frame)]
      /\ IsReplace(frames'[t], frames[t], [Top(t) EXCEPT !.made = {}])
      /\ \A u \in Tasks \ {t} : frames'[u] = frames[u]
  BY <1>1, <1>2, <1>3, SetsTop DEF MidCommit
<1>5. /\ db' \in [Rows -> Writes] /\ stale' \subseteq Rows
      /\ \A k \in Rows : db'[k] = IF Current(t).writes[k] # 0 THEN Current(t).writes[k] ELSE db[k]
      /\ sessions' \in [Tasks -> Seq(Session)] /\ IsReplace(sessions'[t], sessions[t], NewSession)
      /\ \A u \in Tasks \ {t} : sessions'[u] = sessions[u]
  BY <1>1, <1>2, CommitsEffect DEF MidCommit, TypeOK
<1>6. taken' \subseteq Liberties /\ "midCommit" \in taken'
  BY <1>1 DEF MidCommit, Takes, TypeOK, Liberties
<1>7. UNCHANGED <<clock, ambient, region, queued, draining, unwinding, scopes, faults, interrupted,
                  leaked, undone>>
  BY DEF MidCommit, contextVars
<1>8. TypeOK'
  BY <1>1, <1>4, <1>5, <1>6, <1>7 DEF TypeOK
<1> QED
  BY <1>4, <1>5, <1>6, <1>7, <1>8 DEF Sole

(* A block rolls back and goes on. *)
LEMMA MidRollbackEffect ==
  ASSUME SInv, NEW t \in Tasks, MidRollback(t)
  PROVE  /\ TypeOK' /\ Sole(t)
         /\ IsReplace(sessions'[t], sessions[t], NewSession)
         /\ UNCHANGED <<frames, ambient, region, queued, draining, unwinding>>
<1>1. TypeOK
  BY DEF SInv
<1>2. Depth(t) # 0 /\ Top(t) \in Frame /\ sessions[t] # <<>> /\ Current(t) \in Session
  BY Inside DEF MidRollback
<1>3. /\ sessions' \in [Tasks -> Seq(Session)] /\ IsReplace(sessions'[t], sessions[t], NewSession)
      /\ \A u \in Tasks \ {t} : sessions'[u] = sessions[u]
  BY <1>1, <1>2, SetsCurrent, Pieces DEF MidRollback
<1>4. undone' \subseteq Writes
  BY <1>1, <1>2, Pieces DEF MidRollback, TypeOK
<1>5. UNCHANGED <<db, clock, frames, ambient, region, queued, draining, unwinding, scopes, faults,
                  stale, interrupted, leaked, taken>>
  BY DEF MidRollback, contextVars
<1>6. TypeOK'
  BY <1>1, <1>3, <1>4, <1>5 DEF TypeOK
<1> QED
  BY <1>3, <1>5, <1>6 DEF Sole

(* The innermost scope has a session of its own, and the transaction ends. *)
Ends(t, stage) ==
  /\ Top(t).own /\ Top(t).stage \in {"body", "commit"}
  /\ IsReplace(frames'[t], frames[t], [Top(t) EXCEPT !.stage = stage])
  /\ IsReplace(sessions'[t], sessions[t], NewSession)

(* A commit succeeds, fails, or its answer is lost. *)
LEMMA CommitEffect ==
  ASSUME SInv, NEW t \in Tasks, Commit(t) \/ CommitFails(t) \/ CommitLost(t)
  PROVE  /\ TypeOK' /\ Sole(t)
         /\ UNCHANGED <<ambient, region, queued, draining, unwinding>>
         /\ IF Commit(t) THEN Ends(t, "committed") ELSE Ends(t, "rolledback")
         /\ IF Commit(t) \/ CommitLost(t)
            THEN \A k \in Rows :
                   db'[k] = IF Current(t).writes[k] # 0 THEN Current(t).writes[k] ELSE db[k]
            ELSE db' = db
<1>1. TypeOK
  BY DEF SInv
<1>2. /\ Depth(t) # 0 /\ Top(t) \in Frame /\ sessions[t] # <<>> /\ Current(t) \in Session
      /\ Top(t).own /\ Top(t).stage \in {"body", "commit"}
  BY Inside DEF Commit, CommitFails, CommitLost, AtCommit, At
<1>3. SetStage(t, IF Commit(t) THEN "committed" ELSE "rolledback")
  BY DEF Commit, CommitFails, CommitLost
<1>4. [Top(t) EXCEPT !.stage = IF Commit(t) THEN "committed" ELSE "rolledback"] \in Frame
  BY <1>2, Staged
<1>5. /\ frames' \in [Tasks -> Seq(Frame)]
      /\ IsReplace(frames'[t], frames[t],
                   [Top(t) EXCEPT !.stage = IF Commit(t) THEN "committed" ELSE "rolledback"])
      /\ \A u \in Tasks \ {t} : frames'[u] = frames[u]
  BY <1>1, <1>2, <1>3, <1>4, SetsTop DEF SetStage
<1>6. /\ db' \in [Rows -> Writes] /\ stale' \subseteq Rows
      /\ sessions' \in [Tasks -> Seq(Session)] /\ IsReplace(sessions'[t], sessions[t], NewSession)
      /\ \A u \in Tasks \ {t} : sessions'[u] = sessions[u]
  <2>1. CASE CommitFails(t)
    BY <1>1, <1>2, <2>1, SetsCurrent, Pieces DEF CommitFails, TypeOK
  <2>2. CASE Commits(t)
    BY <1>1, <1>2, <2>2, CommitsEffect DEF TypeOK
  <2> QED
    BY <2>1, <2>2 DEF Commit, CommitLost
<1>7. /\ undone' \subseteq Writes /\ interrupted' \subseteq Rows /\ faults' \in 0..MaxFaults
  <2>1. CASE Commit(t)
    BY <1>1, <2>1 DEF Commit, TypeOK
  <2>2. CASE CommitFails(t)
    BY <1>1, <1>2, <2>2, Pieces DEF CommitFails, TypeOK
  <2>3. CASE CommitLost(t)
    BY <1>1, <1>2, <2>3, UnitOfWorkAssumption DEF CommitLost, Written, TypeOK
  <2> QED
    BY <2>1, <2>2, <2>3
<1>8. UNCHANGED <<clock, ambient, region, queued, draining, unwinding, scopes, leaked, taken>>
  BY DEF Commit, CommitFails, CommitLost, contextVars
<1>9. TypeOK'
  BY <1>1, <1>5, <1>6, <1>7, <1>8 DEF TypeOK
<1>10. IF Commit(t) \/ CommitLost(t)
       THEN \A k \in Rows :
              db'[k] = IF Current(t).writes[k] # 0 THEN Current(t).writes[k] ELSE db[k]
       ELSE db' = db
  <2>1. CASE Commit(t) \/ CommitLost(t)
    BY <1>1, <1>2, <2>1, CommitsEffect DEF Commit, CommitLost
  <2>2. CASE ~(Commit(t) \/ CommitLost(t))
    BY <2>2 DEF CommitFails
  <2> QED
    BY <2>1, <2>2
<1>11. IF Commit(t) THEN Ends(t, "committed") ELSE Ends(t, "rolledback")
  BY <1>2, <1>5, <1>6 DEF Ends
<1> QED
  BY <1>5, <1>6, <1>8, <1>9, <1>10, <1>11 DEF Sole

(* A scope is left behind, with the exception that ended it. *)
LEMMA LeaveEffect ==
  ASSUME TypeOK, NEW t \in Tasks, Depth(t) # 0, Leave(t)
  PROVE  /\ frames' \in [Tasks -> Seq(Frame)] /\ IsFront(frames'[t], frames[t])
         /\ \A u \in Tasks \ {t} : frames'[u] = frames[u]
         /\ unwinding' \in [Tasks -> BOOLEAN]
         /\ unwinding'[t] <=> (Top(t).stage = "rolledback" /\ Depth(t) > 1)
         /\ \A u \in Tasks \ {t} : unwinding'[u] = unwinding[u]
<1> DEFINE b == Top(t).stage = "rolledback" /\ Len(frames[t]) > 1
<1>1. b \in BOOLEAN /\ (b <=> (Top(t).stage = "rolledback" /\ Depth(t) > 1))
  BY DEF Depth
<1>2. unwinding' = [unwinding EXCEPT ![t] = b] /\ Pop(t)
  BY DEF Leave
<1> HIDE DEF b
<1>3. /\ frames' \in [Tasks -> Seq(Frame)] /\ IsFront(frames'[t], frames[t])
      /\ \A u \in Tasks \ {t} : frames'[u] = frames[u]
  BY <1>2, Pops
<1>4. /\ unwinding' \in [Tasks -> BOOLEAN] /\ unwinding'[t] = b
      /\ \A u \in Tasks \ {t} : unwinding'[u] = unwinding[u]
  BY <1>1, <1>2 DEF TypeOK
<1> QED
  BY <1>1, <1>3, <1>4

(* The transaction has ended; the scope is about to be closed. *)
LEMMA InEnded ==
  ASSUME SInv, NEW t \in Tasks, Ended(t)
  PROVE  /\ Depth(t) # 0 /\ Depth(t) \in 1..Depth(t) /\ ~Draining(t) /\ draining[t] = {}
         /\ Top(t) = F(t, Depth(t)) /\ Top(t) \in Frame /\ Top(t).own
         /\ Open(t) # 0 /\ sessions[t] # <<>> /\ Current(t) \in Session
<1>1. At(t, Top(t).kind, Top(t).stage) /\ Top(t).stage # "draining"
  BY DEF Ended, At
<1>2. /\ Depth(t) # 0 /\ Depth(t) \in 1..Depth(t) /\ ~Draining(t) /\ draining[t] = {}
      /\ Top(t) = F(t, Depth(t)) /\ Top(t) \in Frame
      /\ Open(t) # 0 /\ sessions[t] # <<>> /\ Current(t) \in Session
  BY <1>1, Inside
<1>3. Top(t).own
  BY <1>2, Typed DEF Ended, SInv, Shape, Stack
<1> QED
  BY <1>2, <1>3

Drained(t) == IF Top(t).token /\ Top(t).stage = "committed" THEN queued[t] ELSE {}

CloseDraining(t) ==
  /\ Drained(t) # {} /\ unwinding'[t] = unwinding[t]
  /\ IsReplace(frames'[t], frames[t], [Top(t) EXCEPT !.stage = "draining"])

CloseLeaving(t) ==
  /\ Drained(t) = {} /\ IsFront(frames'[t], frames[t])
  /\ unwinding'[t] <=> (Top(t).stage = "rolledback" /\ Depth(t) > 1)

(* A session is closed, and the context of the task is reset. *)
LEMMA CloseEffect ==
  ASSUME SInv, NEW t \in Tasks, Close(t)
  PROVE  /\ TypeOK' /\ Sole(t) /\ IsFront(sessions'[t], sessions[t])
         /\ ambient'[t] <=> (ambient[t] /\ Top(t).kind # "uow")
         /\ region'[t] <=> (region[t] /\ ~Top(t).token)
         /\ queued'[t] = IF Top(t).token THEN {} ELSE queued[t]
         /\ draining'[t] = Drained(t)
         /\ CloseDraining(t) \/ CloseLeaving(t)
<1>1. TypeOK
  BY DEF SInv
<1>2. /\ Depth(t) # 0 /\ Depth(t) \in 1..Depth(t) /\ Top(t) = F(t, Depth(t))
      /\ Top(t) \in Frame /\ sessions[t] # <<>>
  BY InEnded DEF Close
<1>3. /\ sessions' \in [Tasks -> Seq(Session)] /\ IsFront(sessions'[t], sessions[t])
      /\ \A u \in Tasks \ {t} : sessions'[u] = sessions[u]
  BY <1>1, <1>2, Closes DEF Close
<1>4. /\ ambient' \in [Tasks -> BOOLEAN]
      /\ ambient'[t] <=> (ambient[t] /\ Top(t).kind # "uow")
      /\ \A u \in Tasks \ {t} : ambient'[u] = ambient[u]
  <2> DEFINE b == ambient[t] /\ Top(t).kind # "uow"
  <2>1. b \in BOOLEAN /\ (b <=> (ambient[t] /\ Top(t).kind # "uow"))
    OBVIOUS
  <2>2. ambient' = [ambient EXCEPT ![t] = b]
    BY DEF Close
  <2> HIDE DEF b
  <2>3. /\ ambient' \in [Tasks -> BOOLEAN] /\ ambient'[t] = b
        /\ \A u \in Tasks \ {t} : ambient'[u] = ambient[u]
    BY <1>1, <2>1, <2>2 DEF TypeOK
  <2> QED
    BY <2>1, <2>3
<1>5. /\ region' \in [Tasks -> BOOLEAN]
      /\ region'[t] <=> (region[t] /\ ~Top(t).token)
      /\ \A u \in Tasks \ {t} : region'[u] = region[u]
  <2> DEFINE b == region[t] /\ ~Top(t).token
  <2>1. b \in BOOLEAN /\ (b <=> (region[t] /\ ~Top(t).token))
    OBVIOUS
  <2>2. region' = [region EXCEPT ![t] = b]
    BY DEF Close
  <2> HIDE DEF b
  <2>3. /\ region' \in [Tasks -> BOOLEAN] /\ region'[t] = b
        /\ \A u \in Tasks \ {t} : region'[u] = region[u]
    BY <1>1, <2>1, <2>2 DEF TypeOK
  <2> QED
    BY <2>1, <2>3
<1>6. Drained(t) \subseteq Rows
  BY <1>1, Typed DEF Drained
<1>7. /\ queued' \in [Tasks -> SUBSET Rows] /\ draining' \in [Tasks -> SUBSET Rows]
      /\ queued'[t] = IF Top(t).token THEN {} ELSE queued[t]
      /\ draining'[t] = Drained(t)
      /\ \A u \in Tasks \ {t} : queued'[u] = queued[u] /\ draining'[u] = draining[u]
  <2>1. draining' = [draining EXCEPT ![t] = Drained(t)]
    BY DEF Close, Drained
  <2>2. queued' = [queued EXCEPT ![t] = IF Top(t).token THEN {} ELSE @]
    BY DEF Close
  <2> QED
    BY <1>1, <1>6, <2>1, <2>2 DEF TypeOK
<1>8. /\ frames' \in [Tasks -> Seq(Frame)] /\ unwinding' \in [Tasks -> BOOLEAN]
      /\ CloseDraining(t) \/ CloseLeaving(t)
      /\ \A u \in Tasks \ {t} : frames'[u] = frames[u] /\ unwinding'[u] = unwinding[u]
  <2>1. CASE Drained(t) # {}
    <3>1. SetTop(t, [Top(t) EXCEPT !.stage = "draining"]) /\ UNCHANGED unwinding
      BY <2>1 DEF Close, Drained, SetStage
    <3>2. [Top(t) EXCEPT !.stage = "draining"] \in Frame
      BY <1>2, Staged
    <3>3. /\ frames' \in [Tasks -> Seq(Frame)]
          /\ IsReplace(frames'[t], frames[t], [Top(t) EXCEPT !.stage = "draining"])
          /\ \A u \in Tasks \ {t} : frames'[u] = frames[u]
      BY <1>1, <1>2, <3>1, <3>2, SetsTop
    <3> QED
      BY <1>1, <2>1, <3>1, <3>3 DEF CloseDraining, TypeOK
  <2>2. CASE Drained(t) = {}
    <3>1. Leave(t)
      BY <2>2 DEF Close, Drained
    <3> QED
      BY <1>1, <1>2, <2>2, <3>1, LeaveEffect DEF CloseLeaving
  <2> QED
    BY <2>1, <2>2
<1>9. UNCHANGED <<db, clock, scopes, faults, stale, interrupted, leaked, undone, taken>>
  BY DEF Close, historyVars
<1>10. TypeOK'
  BY <1>1, <1>3, <1>4, <1>5, <1>7, <1>8, <1>9 DEF TypeOK
<1> QED
  BY <1>3, <1>4, <1>5, <1>7, <1>8, <1>10 DEF Sole

(* A cancelled block keeps its session, its ambient session and its region. *)
LEMMA CloseCancelledEffect ==
  ASSUME SInv, NEW t \in Tasks, CloseCancelled(t)
  PROVE  /\ TypeOK' /\ Sole(t) /\ IsFront(frames'[t], frames[t])
         /\ IsReplace(sessions'[t], sessions[t], NewSession)
         /\ unwinding'[t] <=> Depth(t) > 1
         /\ UNCHANGED <<ambient, region, queued, draining>>
<1>1. TypeOK
  BY DEF SInv
<1>2. Depth(t) # 0 /\ sessions[t] # <<>>
  BY InEnded DEF CloseCancelled
<1>3. /\ sessions' \in [Tasks -> Seq(Session)] /\ IsReplace(sessions'[t], sessions[t], NewSession)
      /\ \A u \in Tasks \ {t} : sessions'[u] = sessions[u]
  BY <1>1, <1>2, SetsCurrent, Pieces DEF CloseCancelled
<1>4. /\ frames' \in [Tasks -> Seq(Frame)] /\ IsFront(frames'[t], frames[t])
      /\ \A u \in Tasks \ {t} : frames'[u] = frames[u]
  BY <1>1, <1>2, Pops DEF CloseCancelled
<1>5. /\ unwinding' \in [Tasks -> BOOLEAN] /\ (unwinding'[t] <=> Depth(t) > 1)
      /\ \A u \in Tasks \ {t} : unwinding'[u] = unwinding[u]
  <2> DEFINE b == Len(frames[t]) > 1
  <2>1. b \in BOOLEAN /\ (b <=> Depth(t) > 1)
    BY DEF Depth
  <2>2. unwinding' = [unwinding EXCEPT ![t] = b]
    BY DEF CloseCancelled
  <2> HIDE DEF b
  <2>3. /\ unwinding' \in [Tasks -> BOOLEAN] /\ unwinding'[t] = b
        /\ \A u \in Tasks \ {t} : unwinding'[u] = unwinding[u]
    BY <1>1, <2>1, <2>2 DEF TypeOK
  <2> QED
    BY <2>1, <2>3
<1>6. faults' \in 0..MaxFaults /\ leaked' \subseteq Tasks /\ interrupted' \subseteq Rows
  BY <1>1, UnitOfWorkAssumption DEF CloseCancelled, TypeOK
<1>7. UNCHANGED <<db, clock, ambient, region, queued, draining, scopes, stale, undone, taken>>
  BY DEF CloseCancelled, contextVars
<1>8. TypeOK'
  BY <1>1, <1>3, <1>4, <1>5, <1>6, <1>7 DEF TypeOK
<1> QED
  BY <1>3, <1>4, <1>5, <1>7, <1>8 DEF Sole

(* A draining scope is the only one. *)
LEMMA InDraining ==
  ASSUME SInv, NEW t \in Tasks, draining[t] # {}
  PROVE  /\ Draining(t) /\ Depth(t) = 1 /\ Top(t) = F(t, 1) /\ Top(t) \in Frame
         /\ Top(t).stage = "draining"
<1>1. Draining(t)
  BY DEF SInv, Shape, Stack
<1>2. Depth(t) # 0 /\ Depth(t) \in 1..Depth(t) /\ Top(t) = F(t, Depth(t)) /\ Top(t) \in Frame
  BY <1>1, Typed DEF SInv, Draining
<1>3. F(t, Depth(t)).stage = "draining"
  BY <1>1, <1>2 DEF Draining
<1>4. Depth(t) = 1
  BY <1>2, <1>3, Typed DEF SInv, Shape, Stack
<1> QED
  BY <1>1, <1>2, <1>3, <1>4

(* A callback runs, and the last one ends the drain. *)
LEMMA InvalidateEffect ==
  ASSUME SInv, NEW t \in Tasks, NEW k \in Rows, Invalidate(t, k) \/ InvalidateFails(t, k)
  PROVE  /\ TypeOK' /\ Sole(t) /\ k \in draining[t]
         /\ UNCHANGED <<sessions, ambient, region, queued>>
         /\ IF draining'[t] = {} THEN IsFront(frames'[t], frames[t]) /\ unwinding'[t] = FALSE
            ELSE frames'[t] = frames[t] /\ unwinding'[t] = unwinding[t]
         /\ draining'[t] \subseteq draining[t]
         /\ draining[t] \ draining'[t] \subseteq (IF Invalidate(t, k) THEN {k} ELSE interrupted')
<1>1. TypeOK
  BY DEF SInv
<1>2. k \in draining[t] /\ draining[t] \subseteq Rows
  BY <1>1, Typed DEF Invalidate, InvalidateFails
<1>3. Depth(t) # 0 /\ Depth(t) = 1 /\ Top(t).stage = "draining"
  BY <1>2, InDraining
<1>4. PICK lost \in {{k}, draining[t]} :
        /\ draining' = [draining EXCEPT ![t] = @ \ lost]
        /\ IF draining[t] = lost THEN Leave(t) ELSE UNCHANGED <<frames, unwinding>>
        /\ lost \subseteq (IF Invalidate(t, k) THEN {k} ELSE interrupted')
  <2>1. CASE Invalidate(t, k)
    BY <2>1 DEF Invalidate
  <2>2. CASE ~Invalidate(t, k)
    <3>1. PICK lost \in {{k}, draining[t]} :
             /\ interrupted' = interrupted \union lost
             /\ draining' = [draining EXCEPT ![t] = @ \ lost]
             /\ IF draining[t] = lost THEN Leave(t) ELSE UNCHANGED <<frames, unwinding>>
      BY <2>2 DEF InvalidateFails
    <3> QED
      BY <2>2, <3>1
  <2> QED
    BY <2>1, <2>2
<1>5. /\ draining' \in [Tasks -> SUBSET Rows] /\ draining'[t] = draining[t] \ lost
      /\ \A u \in Tasks \ {t} : draining'[u] = draining[u]
  BY <1>1, <1>4 DEF TypeOK
<1>6. draining'[t] = {} <=> draining[t] = lost
  BY <1>2, <1>4, <1>5
<1>7. /\ frames' \in [Tasks -> Seq(Frame)] /\ unwinding' \in [Tasks -> BOOLEAN]
      /\ IF draining'[t] = {} THEN IsFront(frames'[t], frames[t]) /\ unwinding'[t] = FALSE
         ELSE frames'[t] = frames[t] /\ unwinding'[t] = unwinding[t]
      /\ \A u \in Tasks \ {t} : frames'[u] = frames[u] /\ unwinding'[u] = unwinding[u]
  <2>1. CASE draining[t] = lost
    <3>1. Leave(t)
      BY <1>4, <2>1
    <3>2. /\ frames' \in [Tasks -> Seq(Frame)] /\ IsFront(frames'[t], frames[t])
          /\ \A u \in Tasks \ {t} : frames'[u] = frames[u]
          /\ unwinding' \in [Tasks -> BOOLEAN]
          /\ unwinding'[t] <=> (Top(t).stage = "rolledback" /\ Depth(t) > 1)
          /\ \A u \in Tasks \ {t} : unwinding'[u] = unwinding[u]
      BY <1>1, <1>3, <3>1, LeaveEffect
    <3>3. unwinding'[t] = FALSE
      BY <1>3, <3>2
    <3> QED
      BY <1>6, <2>1, <3>2, <3>3
  <2>2. CASE draining[t] # lost
    <3>1. UNCHANGED <<frames, unwinding>>
      BY <1>4, <2>2
    <3> QED
      BY <1>1, <1>6, <2>2, <3>1 DEF TypeOK
  <2> QED
    BY <2>1, <2>2
<1>8. stale' \subseteq Rows /\ interrupted' \subseteq Rows /\ faults' \in 0..MaxFaults
  BY <1>1, <1>2, UnitOfWorkAssumption DEF Invalidate, InvalidateFails, TypeOK
<1>9. UNCHANGED <<db, clock, sessions, ambient, region, queued, scopes, leaked, undone, taken>>
  BY DEF Invalidate, InvalidateFails, contextVars
<1>10. TypeOK'
  BY <1>1, <1>5, <1>7, <1>8, <1>9 DEF TypeOK
<1> QED
  BY <1>2, <1>4, <1>5, <1>7, <1>9, <1>10 DEF Sole

-----------------------------------------------------------------------------
(* The shape of the stacks is kept. *)

(* What the variables of a task hold after a step. *)
LEMMA TypedNext ==
  ASSUME TypeOK', NEW t \in Tasks
  PROVE  /\ Len(frames'[t]) \in Nat /\ DOMAIN frames'[t] = 1..Len(frames'[t])
         /\ Len(sessions'[t]) \in Nat /\ DOMAIN sessions'[t] = 1..Len(sessions'[t])
         /\ frames'[t] = <<>> <=> Len(frames'[t]) = 0
         /\ sessions'[t] = <<>> <=> Len(sessions'[t]) = 0
         /\ \A i \in 1..Len(frames'[t]) : frames'[t][i] \in Frame
         /\ ambient'[t] \in BOOLEAN /\ region'[t] \in BOOLEAN /\ unwinding'[t] \in BOOLEAN
         /\ \A i \in 1..Len(sessions'[t]) : sessions'[t][i] \in Session
<1>1. frames'[t] \in Seq(Frame) /\ sessions'[t] \in Seq(Session)
  BY DEF TypeOK
<1>2. /\ Len(frames'[t]) \in Nat /\ DOMAIN frames'[t] = 1..Len(frames'[t])
      /\ frames'[t] = <<>> <=> Len(frames'[t]) = 0
      /\ \A i \in 1..Len(frames'[t]) : frames'[t][i] \in Frame
  BY <1>1, EmptySeq, LenProperties, ElementOfSeq
<1>3. /\ Len(sessions'[t]) \in Nat /\ DOMAIN sessions'[t] = 1..Len(sessions'[t])
      /\ sessions'[t] = <<>> <=> Len(sessions'[t]) = 0
      /\ \A i \in 1..Len(sessions'[t]) : sessions'[t][i] \in Session
  BY <1>1, EmptySeq, LenProperties, ElementOfSeq
<1>4. ambient'[t] \in BOOLEAN /\ region'[t] \in BOOLEAN /\ unwinding'[t] \in BOOLEAN
  BY DEF TypeOK
<1> QED
  BY <1>2, <1>3, <1>4

(* The shape of a task's scopes, place by place. *)
LEMMA Shaped ==
  ASSUME SInv, NEW t \in Tasks
  PROVE  /\ Depth(t) \in Nat /\ Open(t) \in Nat
         /\ \A i \in 1..Depth(t) :
              /\ F(t, i).own \in BOOLEAN /\ F(t, i).token \in BOOLEAN
              /\ F(t, i).token => i = 1 /\ F(t, i).own
              /\ F(t, i).own => \A j \in 1..Depth(t) : j <= i => F(t, j).own
              /\ F(t, i).kind = "savepoint" => ~F(t, i).own
              /\ F(t, i).kind = "write" => F(t, i).row \in Rows
              /\ F(t, i).stage \in {"committed", "rolledback", "draining"} =>
                   F(t, i).own /\ i = Depth(t)
              /\ F(t, i).stage = "draining" => F(t, i).token
         /\ draining[t] # {} <=> Draining(t)
         /\ Draining(t) <=> (Depth(t) # 0 /\ F(t, Depth(t)).stage = "draining")
         /\ t \notin leaked => Owners(t)
         /\ t \in leaked => Kept(t)
         /\ Single(t)
<1>1. /\ Depth(t) \in Nat /\ Open(t) \in Nat /\ DOMAIN frames[t] = 1..Depth(t)
      /\ \A i \in 1..Depth(t) : F(t, i) \in Frame
      /\ Draining(t) <=> (Depth(t) # 0 /\ F(t, Depth(t)).stage = "draining")
  BY Typed DEF SInv, Draining
<1>2. \A i \in 1..Depth(t) : F(t, i).own \in BOOLEAN /\ F(t, i).token \in BOOLEAN
  BY <1>1, Pieces DEF SInv
<1>3. Stack(t) /\ (IF t \in leaked THEN Kept(t) ELSE Owners(t)) /\ Single(t)
  BY DEF SInv, Shape
<1> QED
  BY <1>1, <1>2, <1>3 DEF Stack

(* The other tasks keep their shape. *)
LEMMA OthersShaped ==
  ASSUME SInv, TypeOK', NEW t \in Tasks, Sole(t), leaked \subseteq leaked',
         leaked' \subseteq leaked \union {t}, taken \subseteq taken', NEW u \in Tasks \ {t}
  PROVE  Shape(u)'
<1>1. /\ frames'[u] = frames[u] /\ sessions'[u] = sessions[u]
      /\ ambient'[u] = ambient[u] /\ region'[u] = region[u] /\ draining'[u] = draining[u]
      /\ u \in leaked' <=> u \in leaked
      /\ "handlerWrites" \notin taken' => "handlerWrites" \notin taken
  BY DEF Sole
<1>2. Stack(u) /\ (IF u \in leaked THEN Kept(u) ELSE Owners(u)) /\ Single(u)
  BY DEF SInv, Shape
<1>3. Stack(u)'
  BY <1>1, <1>2 DEF Stack, F, Depth, Draining, Top
<1>4. IF u \in leaked' THEN Kept(u)' ELSE Owners(u)'
  BY <1>1, <1>2 DEF Kept, Owners, F, Depth, Open, Draining, Top
<1>5. Single(u)'
  BY <1>1, <1>2 DEF Single, F, Open
<1> QED
  BY <1>3, <1>4, <1>5 DEF Shape

(* The task stays in the same scopes. *)
Restyled(t) ==
  /\ Len(frames'[t]) = Depth(t) /\ Len(sessions'[t]) = Open(t)
  /\ ambient'[t] = ambient[t] /\ region'[t] = region[t]
  /\ draining'[t] = {} <=> draining[t] = {}
  /\ \A i \in 1..Depth(t) :
       /\ frames'[t][i].kind = F(t, i).kind /\ frames'[t][i].own = F(t, i).own
       /\ frames'[t][i].token = F(t, i).token /\ frames'[t][i].row = F(t, i).row
       /\ \/ frames'[t][i].stage = F(t, i).stage
          \/ /\ i = Depth(t)
             /\ F(t, i).stage # "draining" /\ frames'[t][i].stage # "draining"
             /\ frames'[t][i].stage \in {"committed", "rolledback"} => F(t, i).own

(* A task that stays in its scopes keeps their shape. *)
LEMMA RestyledShaped ==
  ASSUME SInv, TypeOK', NEW t \in Tasks, Restyled(t), leaked' = leaked, taken \subseteq taken'
  PROVE  Shape(t)'
<1> DEFINE n == Depth(t)
           g == frames'[t]
<1>1. /\ n \in Nat /\ Open(t) \in Nat /\ Len(g) = n /\ Len(sessions'[t]) = Open(t)
      /\ DOMAIN g = 1..n /\ DOMAIN frames[t] = 1..n
      /\ g = <<>> <=> n = 0
      /\ sessions'[t] = <<>> <=> sessions[t] = <<>>
  BY TypedNext, Typed DEF SInv, Restyled
<1>2. Draining(t)' <=> (n # 0 /\ g[n].stage = "draining")
  BY <1>1 DEF Draining, Top, Last
<1>3. Draining(t)' <=> Draining(t)
  BY <1>1, <1>2, Shaped DEF Restyled
<1>4. Stack(t)'
  <2>1. \A i \in 1..n :
          /\ g[i].token => i = 1 /\ g[i].own
          /\ g[i].own => \A j \in 1..n : j <= i => g[j].own
          /\ g[i].kind = "savepoint" => ~g[i].own
          /\ g[i].kind = "write" => g[i].row \in Rows
          /\ g[i].stage \in {"committed", "rolledback", "draining"} => g[i].own /\ i = n
          /\ g[i].stage = "draining" => g[i].token
    BY <1>1, Shaped DEF Restyled
  <2>2. draining'[t] # {} <=> Draining(t)'
    BY <1>3, Shaped DEF Restyled
  <2> HIDE DEF n
  <2> QED
    BY <1>1, <2>1, <2>2 DEF Stack, F, Depth
<1>5. t \notin leaked => Owners(t)'
  <2> SUFFICES ASSUME t \notin leaked PROVE Owners(t)'
    OBVIOUS
  <2>1. Owners(t)
    BY Shaped
  <2>2. CASE Draining(t)
    BY <1>1, <1>3, <2>1, <2>2 DEF Owners, Restyled
  <2>3. CASE ~Draining(t)
    <3>1. /\ Open(t) <= n /\ (n > 0 => Open(t) > 0)
          /\ \A i \in 1..n :
               /\ F(t, i).own <=> i <= Open(t)
               /\ F(t, i).token <=> i = 1
               /\ F(t, i).own /\ F(t, i).kind = "uow" => i = Open(t)
          /\ ambient[t] <=> n > 0 /\ F(t, Open(t)).kind = "uow"
          /\ Open(t) < n => ambient[t]
          /\ region[t] <=> n > 0
      BY <1>1, <2>1, <2>3 DEF Owners
    <3>2. /\ \A i \in 1..n :
               /\ g[i].own <=> i <= Open(t)
               /\ g[i].token <=> i = 1
               /\ g[i].own /\ g[i].kind = "uow" => i = Open(t)
          /\ ambient'[t] <=> n > 0 /\ g[Open(t)].kind = "uow"
          /\ Open(t) < n => ambient'[t]
          /\ region'[t] <=> n > 0
      BY <1>1, <3>1 DEF Restyled
    <3> HIDE DEF n
    <3> QED
      BY <1>1, <1>3, <2>3, <3>1, <3>2 DEF Owners, F, Depth, Open
  <2> QED
    BY <2>2, <2>3
<1>6. t \in leaked => Kept(t)'
  <2> SUFFICES ASSUME t \in leaked PROVE Kept(t)'
    OBVIOUS
  <2>1. Kept(t)
    BY Shaped
  <2>2. \A i \in 1..n : g[i].own => g[i].kind = "write" /\ (g[i].stage # "draining" => i < Open(t))
    BY <1>1, <2>1 DEF Kept, Restyled
  <2> QED
    BY <1>1, <2>1, <2>2 DEF Kept, F, Open, Restyled
<1>7. Single(t)'
  <2>1. Single(t) /\ ("handlerWrites" \notin taken' => "handlerWrites" \notin taken)
    BY Shaped
  <2> QED
    BY <1>1, <2>1 DEF Single, F, Open, Restyled
<1> QED
  BY <1>4, <1>5, <1>6, <1>7 DEF Shape

(* The stacks one shorter, one longer, or with another innermost element. *)
LEMMA Shorter ==
  ASSUME TypeOK, TypeOK', NEW t \in Tasks, Depth(t) # 0, IsFront(frames'[t], frames[t])
  PROVE  /\ Depth(t) \in Nat /\ Depth(t) - 1 \in Nat /\ Depth(t) = Depth(t) - 1 + 1
         /\ Len(frames'[t]) = Depth(t) - 1 /\ DOMAIN frames'[t] = 1..(Depth(t) - 1)
         /\ DOMAIN frames[t] = 1..Depth(t)
         /\ frames'[t] = <<>> <=> Depth(t) - 1 = 0
         /\ \A i \in 1..(Depth(t) - 1) : frames'[t][i] = F(t, i) /\ i \in 1..Depth(t) /\ i # Depth(t)
<1>1. /\ Len(frames'[t]) = Depth(t) - 1
      /\ \A i \in 1..(Depth(t) - 1) : frames'[t][i] = F(t, i)
  BY DEF IsFront, Depth, F
<1>2. Depth(t) \in Nat /\ DOMAIN frames[t] = 1..Depth(t)
  BY Typed
<1>3. /\ Len(frames'[t]) \in Nat /\ DOMAIN frames'[t] = 1..Len(frames'[t])
      /\ frames'[t] = <<>> <=> Len(frames'[t]) = 0
  BY TypedNext
<1> QED
  BY <1>1, <1>2, <1>3

(* One scope more. *)
LEMMA Longer ==
  ASSUME TypeOK, TypeOK', NEW t \in Tasks, NEW f, IsAppend(frames'[t], frames[t], f)
  PROVE  /\ Depth(t) \in Nat /\ Depth(t) + 1 \in Nat
         /\ Len(frames'[t]) = Depth(t) + 1 /\ DOMAIN frames'[t] = 1..(Depth(t) + 1)
         /\ DOMAIN frames[t] = 1..Depth(t)
         /\ frames'[t] # <<>> /\ frames'[t][Depth(t) + 1] = f
         /\ \A i \in 1..(Depth(t) + 1) :
              i = Depth(t) + 1 \/ (i \in 1..Depth(t) /\ frames'[t][i] = F(t, i))
<1>1. /\ Len(frames'[t]) = Depth(t) + 1 /\ frames'[t][Depth(t) + 1] = f
      /\ \A i \in 1..Depth(t) : frames'[t][i] = F(t, i)
  BY DEF IsAppend, Depth, F
<1>2. Depth(t) \in Nat /\ DOMAIN frames[t] = 1..Depth(t)
  BY Typed
<1>3. /\ Len(frames'[t]) \in Nat /\ DOMAIN frames'[t] = 1..Len(frames'[t])
      /\ frames'[t] = <<>> <=> Len(frames'[t]) = 0
  BY TypedNext
<1> QED
  BY <1>1, <1>2, <1>3

(* The same scopes, the innermost one changed. *)
LEMMA Altered ==
  ASSUME TypeOK, TypeOK', NEW t \in Tasks, Depth(t) # 0, NEW f, IsReplace(frames'[t], frames[t], f)
  PROVE  /\ Depth(t) \in Nat /\ Depth(t) \in 1..Depth(t)
         /\ Len(frames'[t]) = Depth(t) /\ DOMAIN frames'[t] = 1..Depth(t)
         /\ DOMAIN frames[t] = 1..Depth(t) /\ frames'[t] # <<>>
         /\ frames'[t][Depth(t)] = f
         /\ \A i \in 1..Depth(t) : i = Depth(t) \/ frames'[t][i] = F(t, i)
<1>1. /\ Len(frames'[t]) = Depth(t) /\ frames'[t][Depth(t)] = f
      /\ \A i \in 1..(Depth(t) - 1) : frames'[t][i] = F(t, i)
  BY DEF IsReplace, Depth, F
<1>2. Depth(t) \in Nat /\ DOMAIN frames[t] = 1..Depth(t)
  BY Typed
<1>3. /\ DOMAIN frames'[t] = 1..Len(frames'[t])
      /\ frames'[t] = <<>> <=> Len(frames'[t]) = 0
  BY TypedNext
<1> QED
  BY <1>1, <1>2, <1>3

(* One session less. *)
LEMMA FewerSessions ==
  ASSUME TypeOK, TypeOK', NEW t \in Tasks, Open(t) # 0, IsFront(sessions'[t], sessions[t])
  PROVE  /\ Open(t) \in Nat /\ Open(t) - 1 \in Nat /\ Len(sessions'[t]) = Open(t) - 1
         /\ DOMAIN sessions'[t] = 1..(Open(t) - 1)
         /\ sessions'[t] = <<>> <=> Open(t) - 1 = 0
         /\ \A i \in 1..(Open(t) - 1) : sessions'[t][i] = sessions[t][i] /\ i \in 1..Open(t)
<1>1. /\ Len(sessions'[t]) = Open(t) - 1
      /\ \A i \in 1..(Open(t) - 1) : sessions'[t][i] = sessions[t][i]
  BY DEF IsFront, Open
<1>2. Open(t) \in Nat
  BY Typed
<1>3. /\ Len(sessions'[t]) \in Nat /\ DOMAIN sessions'[t] = 1..Len(sessions'[t])
      /\ sessions'[t] = <<>> <=> Len(sessions'[t]) = 0
  BY TypedNext
<1> QED
  BY <1>1, <1>2, <1>3

(* One session more. *)
LEMMA MoreSessions ==
  ASSUME TypeOK, TypeOK', NEW t \in Tasks, NEW s, IsAppend(sessions'[t], sessions[t], s)
  PROVE  /\ Open(t) \in Nat /\ Len(sessions'[t]) = Open(t) + 1
         /\ DOMAIN sessions'[t] = 1..(Open(t) + 1)
         /\ sessions'[t] # <<>> /\ Current(t)' = s
         /\ \A i \in 1..(Open(t) + 1) :
              \/ i = Open(t) + 1 /\ sessions'[t][i] = s
              \/ i \in 1..Open(t) /\ sessions'[t][i] = sessions[t][i]
<1>1. /\ Len(sessions'[t]) = Open(t) + 1 /\ sessions'[t][Open(t) + 1] = s
      /\ \A i \in 1..Open(t) : sessions'[t][i] = sessions[t][i]
  BY DEF IsAppend, Open
<1>2. Open(t) \in Nat
  BY Typed
<1>3. /\ Len(sessions'[t]) \in Nat /\ DOMAIN sessions'[t] = 1..Len(sessions'[t])
      /\ sessions'[t] = <<>> <=> Len(sessions'[t]) = 0
  BY TypedNext
<1>4. Current(t)' = sessions'[t][Len(sessions'[t])]
  BY DEF Current, Last
<1> QED
  BY <1>1, <1>2, <1>3, <1>4

(* The current session changed. *)
LEMMA SameSessions ==
  ASSUME TypeOK, TypeOK', NEW t \in Tasks, Open(t) # 0, NEW s, IsReplace(sessions'[t], sessions[t], s)
  PROVE  /\ Open(t) \in Nat /\ Len(sessions'[t]) = Open(t) /\ DOMAIN sessions'[t] = 1..Open(t)
         /\ sessions'[t] # <<>> /\ Current(t)' = s
         /\ \A i \in 1..Open(t) :
              \/ i = Open(t) /\ sessions'[t][i] = s
              \/ i # Open(t) /\ sessions'[t][i] = sessions[t][i]
<1>1. /\ Len(sessions'[t]) = Open(t) /\ sessions'[t][Open(t)] = s
      /\ \A i \in 1..(Open(t) - 1) : sessions'[t][i] = sessions[t][i]
  BY DEF IsReplace, Open
<1>2. Open(t) \in Nat
  BY Typed
<1>3. /\ DOMAIN sessions'[t] = 1..Len(sessions'[t])
      /\ sessions'[t] = <<>> <=> Len(sessions'[t]) = 0
  BY TypedNext
<1>4. Current(t)' = sessions'[t][Len(sessions'[t])]
  BY DEF Current, Last
<1> QED
  BY <1>1, <1>2, <1>3, <1>4

(* Whose session a scope uses, and what the context of its task says. *)
LEMMA Owned ==
  ASSUME SInv, NEW t \in Tasks, t \notin leaked, ~Draining(t)
  PROVE  /\ Depth(t) \in Nat /\ Open(t) \in Nat /\ Open(t) <= Depth(t)
         /\ \A i \in 1..Depth(t) : F(t, i).own <=> i <= Open(t)
         /\ \A i \in 1..Depth(t) : F(t, i).token <=> i = 1
         /\ \A i \in 1..Depth(t) : F(t, i).own /\ F(t, i).kind = "uow" => i = Open(t)
         /\ Depth(t) # 0 => /\ Open(t) > 0 /\ Open(t) \in 1..Depth(t) /\ region[t]
                            /\ ambient[t] <=> F(t, Open(t)).kind = "uow"
         /\ Depth(t) = 0 => Open(t) = 0 /\ ~ambient[t] /\ ~region[t]
         /\ Open(t) < Depth(t) => ambient[t]
<1>1. /\ Depth(t) \in Nat /\ Open(t) \in Nat /\ DOMAIN frames[t] = 1..Depth(t) /\ Owners(t)
      /\ ambient[t] \in BOOLEAN /\ region[t] \in BOOLEAN
  BY Typed, Shaped DEF SInv
<1>2. /\ Open(t) <= Depth(t) /\ (Depth(t) > 0 => Open(t) > 0)
      /\ ambient[t] <=> Depth(t) > 0 /\ F(t, Open(t)).kind = "uow"
      /\ region[t] <=> Depth(t) > 0
      /\ Open(t) < Depth(t) => ambient[t]
  BY <1>1 DEF Owners
<1>3. /\ \A i \in 1..Depth(t) : F(t, i).own <=> i <= Open(t)
      /\ \A i \in 1..Depth(t) : F(t, i).token <=> i = 1
      /\ \A i \in 1..Depth(t) : F(t, i).own /\ F(t, i).kind = "uow" => i = Open(t)
  BY <1>1 DEF Owners
<1> QED
  BY <1>1, <1>2, <1>3

(* The task leaves a scope that owns no session. *)
Dropped(t) ==
  /\ Depth(t) # 0 /\ ~F(t, Depth(t)).own
  /\ IsFront(frames'[t], frames[t]) /\ Len(sessions'[t]) = Open(t)
  /\ ambient'[t] = ambient[t] /\ region'[t] = region[t] /\ draining'[t] = draining[t]

(* Leaving a scope that joined changes nothing about the others. *)
LEMMA DroppedShaped ==
  ASSUME SInv, TypeOK', NEW t \in Tasks, Dropped(t), leaked' = leaked, taken \subseteq taken'
  PROVE  Shape(t)'
<1> DEFINE n == Depth(t)
           m == Depth(t) - 1
           g == frames'[t]
<1>1. /\ n \in Nat /\ m \in Nat /\ n = m + 1 /\ Open(t) \in Nat /\ Len(g) = m
      /\ Len(sessions'[t]) = Open(t)
      /\ DOMAIN g = 1..m /\ DOMAIN frames[t] = 1..n
      /\ g = <<>> <=> m = 0
      /\ sessions'[t] = <<>> <=> sessions[t] = <<>>
      /\ \A i \in 1..m : g[i] = F(t, i) /\ i \in 1..n /\ i # n
      /\ n \in 1..n
  BY TypedNext, Typed, Shorter DEF SInv, Dropped
<1>2. ~Draining(t)
  BY <1>1, Shaped DEF Dropped
<1>3. ~Draining(t)'
  <2>1. Draining(t)' => m # 0 /\ g[m].stage = "draining"
    BY <1>1 DEF Draining, Top, Last
  <2>2. m # 0 => g[m].stage # "draining"
    BY <1>1, Shaped
  <2> QED
    BY <2>1, <2>2
<1>4. Stack(t)'
  <2>1. \A i \in 1..m :
          /\ g[i].token => i = 1 /\ g[i].own
          /\ g[i].own => \A j \in 1..m : j <= i => g[j].own
          /\ g[i].kind = "savepoint" => ~g[i].own
          /\ g[i].kind = "write" => g[i].row \in Rows
          /\ g[i].stage \notin {"committed", "rolledback", "draining"}
    <3> SUFFICES ASSUME NEW i \in 1..m
                 PROVE  /\ g[i].token => i = 1 /\ g[i].own
                        /\ g[i].own => \A j \in 1..m : j <= i => g[j].own
                        /\ g[i].kind = "savepoint" => ~g[i].own
                        /\ g[i].kind = "write" => g[i].row \in Rows
                        /\ g[i].stage \notin {"committed", "rolledback", "draining"}
      OBVIOUS
    <3>1. g[i] = F(t, i) /\ i \in 1..n /\ i # n
      BY <1>1
    <3>2. ASSUME g[i].own, NEW j \in 1..m, j <= i PROVE g[j].own
      <4>1. F(t, i).own /\ j \in 1..n /\ g[j] = F(t, j)
        BY <1>1, <3>1, <3>2
      <4>2. F(t, j).own
        BY <3>1, <3>2, <4>1, Shaped
      <4> QED
        BY <4>1, <4>2
    <3> QED
      BY <3>1, <3>2, Shaped
  <2>2. draining'[t] = {}
    BY <1>2, Shaped DEF Dropped
  <2> HIDE DEF n, m
  <2> QED
    BY <1>1, <1>3, <2>1, <2>2 DEF Stack, F, Depth
<1>5. t \notin leaked => Owners(t)'
  <2> SUFFICES ASSUME t \notin leaked PROVE Owners(t)'
    OBVIOUS
  <2>2. /\ Open(t) <= n /\ Open(t) > 0
        /\ \A i \in 1..n :
             /\ F(t, i).own <=> i <= Open(t)
             /\ F(t, i).token <=> i = 1
             /\ F(t, i).own /\ F(t, i).kind = "uow" => i = Open(t)
        /\ ambient[t] <=> F(t, Open(t)).kind = "uow"
        /\ Open(t) < n => ambient[t]
        /\ region[t]
    BY <1>1, <1>2, Owned
  <2>3. Open(t) <= m
    BY <1>1, <2>2 DEF Dropped
  <2>4. /\ \A i \in 1..m :
               /\ g[i].own <=> i <= Open(t)
               /\ g[i].token <=> i = 1
               /\ g[i].own /\ g[i].kind = "uow" => i = Open(t)
        /\ ambient'[t] <=> g[Open(t)].kind = "uow"
        /\ Open(t) < m => ambient'[t]
        /\ region'[t]
    BY <1>1, <2>2, <2>3 DEF Dropped
  <2> HIDE DEF n, m
  <2> QED
    BY <1>1, <1>3, <2>2, <2>3, <2>4 DEF Owners, F, Depth, Open
<1>6. t \in leaked => Kept(t)'
  <2> SUFFICES ASSUME t \in leaked PROVE Kept(t)'
    OBVIOUS
  <2>1. Kept(t)
    BY Shaped
  <2> HIDE DEF n, m
  <2> QED
    BY <1>1, <2>1 DEF Kept, F, Open, Dropped
<1>7. Single(t)'
  <2>1. Single(t) /\ ("handlerWrites" \notin taken' => "handlerWrites" \notin taken)
    BY Shaped
  <2> HIDE DEF n, m
  <2> QED
    BY <1>1, <2>1 DEF Single, F, Open
<1> QED
  BY <1>4, <1>5, <1>6, <1>7 DEF Shape

(* The task closes the scope that owns its current session. *)
Closed(t) ==
  /\ Ended(t) /\ IsFront(sessions'[t], sessions[t])
  /\ ambient'[t] <=> (ambient[t] /\ Top(t).kind # "uow")
  /\ region'[t] <=> (region[t] /\ ~Top(t).token)

(* The callbacks of a block run outside of any session. *)
LEMMA DrainingShaped ==
  ASSUME SInv, TypeOK', NEW t \in Tasks, Closed(t), CloseDraining(t), draining'[t] = Drained(t),
         leaked' = leaked, taken' = taken
  PROVE  Shape(t)'
<1> DEFINE g == frames'[t]
<1>1. /\ Top(t).token /\ Top(t).own /\ Top(t) \in Frame /\ Depth(t) = 1 /\ Top(t) = F(t, 1)
      /\ ~Draining(t)
  BY InEnded, Shaped DEF Closed, CloseDraining, Drained
<1>2. /\ Len(g) = 1 /\ DOMAIN g = 1..1 /\ g # <<>>
      /\ g[1] = [Top(t) EXCEPT !.stage = "draining"]
  BY <1>1, TypedNext DEF CloseDraining, IsReplace, Depth
<1>3. /\ g[1].kind = F(t, 1).kind /\ g[1].own /\ g[1].token /\ g[1].row = F(t, 1).row
      /\ g[1].stage = "draining"
  BY <1>1, <1>2, Staged
<1>4. Draining(t)'
  BY <1>2, <1>3 DEF Draining, Top, Last
<1>5. Stack(t)'
  <2>1. /\ g[1].kind = "savepoint" => ~g[1].own
        /\ g[1].kind = "write" => g[1].row \in Rows
    BY <1>1, <1>3, Shaped
  <2>2. draining'[t] # {}
    BY DEF CloseDraining
  <2>3. \A i \in DOMAIN g : i = 1
    BY <1>2
  <2>4. /\ g[1].token => 1 = 1 /\ g[1].own
        /\ g[1].own => \A j \in DOMAIN g : j <= 1 => g[j].own
        /\ g[1].stage \in {"committed", "rolledback", "draining"} => g[1].own /\ 1 = Len(g)
        /\ g[1].stage = "draining" => g[1].token
    BY <1>2, <1>3, <2>3
  <2> HIDE DEF g
  <2> QED
    BY <1>4, <2>1, <2>2, <2>3, <2>4 DEF Stack, F, Depth, g
<1>6. Len(sessions'[t]) = Open(t) - 1 /\ Open(t) \in Nat /\ Len(sessions'[t]) \in Nat
  BY InEnded, TypedNext, FewerSessions DEF SInv, Closed
<1>7. t \notin leaked => Owners(t)' /\ Len(sessions'[t]) = 0
  <2> SUFFICES ASSUME t \notin leaked PROVE Owners(t)' /\ Len(sessions'[t]) = 0
    OBVIOUS
  <2>2. Open(t) = 1 /\ (ambient[t] <=> F(t, 1).kind = "uow")
    BY <1>1, <1>6, Owned
  <2>3. sessions'[t] = <<>> /\ ~ambient'[t] /\ ~region'[t]
    BY <1>1, <1>6, <2>2, TypedNext DEF Closed
  <2> QED
    BY <1>4, <1>6, <2>2, <2>3 DEF Owners
<1>8. t \in leaked => Kept(t)'
  <2> SUFFICES ASSUME t \in leaked PROVE Kept(t)'
    OBVIOUS
  <2>1. Kept(t)
    BY Shaped
  <2>2. ambient[t] /\ F(t, 1).kind = "write" /\ 1 < Open(t)
    <3>1. F(t, 1).own /\ 1 \in DOMAIN frames[t] /\ F(t, 1).stage # "draining"
      BY <1>1, Typed, Shaped DEF SInv
    <3> QED
      BY <2>1, <3>1 DEF Kept
  <2>3. ambient'[t] /\ sessions'[t] # <<>>
    BY <1>1, <1>6, <2>2, TypedNext DEF Closed
  <2>4. \A i \in DOMAIN g : i = 1
    BY <1>2
  <2>5. \A i \in DOMAIN g : g[i].kind = "write" /\ g[i].stage = "draining"
    BY <1>3, <2>2, <2>4
  <2> QED
    BY <2>3, <2>5 DEF Kept, F, Open
<1>9. Single(t)'
  <2>1. Single(t)
    BY Shaped
  <2>2. t \in leaked => "handlerWrites" \in taken
    BY <1>1, <2>1, Typed DEF Single, SInv
  <2>3. t \notin leaked => Len(sessions'[t]) <= 1
    BY <1>7
  <2> QED
    BY <2>2, <2>3 DEF Single, Open
<1> QED
  BY <1>5, <1>7, <1>8, <1>9 DEF Shape

(* A scope is left together with its session. *)
LEMMA ClosedShaped ==
  ASSUME SInv, TypeOK', NEW t \in Tasks, Closed(t), IsFront(frames'[t], frames[t]),
         draining'[t] = {}, leaked' = leaked, taken' = taken
  PROVE  Shape(t)'
<1> DEFINE n == Depth(t)
           m == Depth(t) - 1
           g == frames'[t]
<1>1. /\ n \in Nat /\ m \in Nat /\ n = m + 1 /\ Open(t) \in Nat /\ Len(g) = m
      /\ Len(sessions'[t]) = Open(t) - 1 /\ Len(sessions'[t]) \in Nat
      /\ DOMAIN g = 1..m /\ DOMAIN frames[t] = 1..n
      /\ g = <<>> <=> m = 0
      /\ sessions'[t] = <<>> <=> Len(sessions'[t]) = 0
      /\ \A i \in 1..m : g[i] = F(t, i) /\ i \in 1..n /\ i # n
      /\ ambient[t] \in BOOLEAN /\ region[t] \in BOOLEAN
  BY TypedNext, Typed, InEnded, Shorter, FewerSessions DEF SInv, Closed
<1>2. Top(t).own /\ ~Draining(t) /\ Top(t) = F(t, n) /\ n \in 1..n
  BY InEnded DEF Closed
<1>3. \A i \in 1..m :
          /\ g[i].token => i = 1 /\ g[i].own
          /\ g[i].own => \A j \in 1..m : j <= i => g[j].own
          /\ g[i].kind = "savepoint" => ~g[i].own
          /\ g[i].kind = "write" => g[i].row \in Rows
          /\ g[i].stage \notin {"committed", "rolledback", "draining"}
  BY <1>1, Shaped
<1>4. ~Draining(t)'
  BY <1>1, <1>3 DEF Draining, Top, Last
<1>5. Stack(t)'
  <2> HIDE DEF n, m
  <2> QED
    BY <1>1, <1>3, <1>4 DEF Stack, F, Depth
<1>6. t \notin leaked => Owners(t)'
  <2> SUFFICES ASSUME t \notin leaked PROVE Owners(t)'
    OBVIOUS
  <2>2. /\ Open(t) = n
        /\ \A i \in 1..n :
             /\ F(t, i).own
             /\ F(t, i).token <=> i = 1
             /\ F(t, i).kind = "uow" => i = n
        /\ ambient[t] <=> F(t, n).kind = "uow"
        /\ region[t]
    <3>1. /\ Open(t) <= n /\ n # 0 /\ (F(t, n).own <=> n <= Open(t))
      BY <1>1, <1>2, Owned
    <3>2. Open(t) = n
      BY <1>1, <1>2, <3>1
    <3> QED
      BY <1>1, <1>2, <3>2, Owned
  <2>3. ~ambient'[t] /\ (region'[t] <=> m > 0)
    BY <1>1, <1>2, <2>2 DEF Closed
  <2>4. \A i \in 1..m : g[i].own /\ (g[i].token <=> i = 1) /\ g[i].kind # "uow"
    BY <1>1, <2>2
  <2> HIDE DEF n, m
  <2> QED
    BY <1>1, <1>4, <2>2, <2>3, <2>4 DEF Owners, F, Depth, Open
<1>7. t \in leaked => Kept(t)'
  <2> SUFFICES ASSUME t \in leaked PROVE Kept(t)'
    OBVIOUS
  <2>1. Kept(t)
    BY Shaped
  <2>2. ambient[t] /\ F(t, n).kind = "write" /\ n < Open(t)
    <3>1. F(t, n).own /\ n \in DOMAIN frames[t] /\ F(t, n).stage # "draining"
      BY <1>1, <1>2, Shaped
    <3> QED
      BY <2>1, <3>1 DEF Kept
  <2>3. ambient'[t] /\ sessions'[t] # <<>>
    BY <1>1, <1>2, <2>2 DEF Closed
  <2>4. \A i \in 1..m : g[i].own => g[i].kind = "write" /\ i < Len(sessions'[t])
    BY <1>1, <2>1, <2>2 DEF Kept
  <2> HIDE DEF n, m
  <2> QED
    BY <1>1, <2>3, <2>4 DEF Kept, F, Open
<1>8. Single(t)'
  <2>1. Single(t)
    BY Shaped
  <2> HIDE DEF n, m
  <2> QED
    BY <1>1, <2>1 DEF Single, F, Open
<1> QED
  BY <1>5, <1>6, <1>7, <1>8 DEF Shape

(* A cancelled block leaves its session to the task. *)
LEMMA CancelledShaped ==
  ASSUME SInv, TypeOK', NEW t \in Tasks, CloseCancelled(t), IsFront(frames'[t], frames[t]),
         IsReplace(sessions'[t], sessions[t], NewSession),
         ambient'[t] = ambient[t], region'[t] = region[t], draining'[t] = draining[t]
  PROVE  Shape(t)'
<1> DEFINE n == Depth(t)
           m == Depth(t) - 1
           g == frames'[t]
<1>1. /\ Top(t).own /\ ~Draining(t) /\ Top(t) = F(t, n) /\ n \in 1..n /\ F(t, n).kind = "uow"
      /\ F(t, n).stage # "draining" /\ draining'[t] = {}
  BY InEnded DEF CloseCancelled, Ended
<1>2. /\ n \in Nat /\ m \in Nat /\ n = m + 1 /\ Open(t) \in Nat /\ Len(g) = m
      /\ Len(sessions'[t]) = Open(t) /\ sessions'[t] # <<>>
      /\ DOMAIN g = 1..m /\ DOMAIN frames[t] = 1..n
      /\ g = <<>> <=> m = 0
      /\ \A i \in 1..m : g[i] = F(t, i) /\ i \in 1..n /\ i # n
  BY Typed, InEnded, Shorter, SameSessions DEF SInv, CloseCancelled
<1>3. t \notin leaked
  <2> SUFFICES ASSUME t \in leaked PROVE FALSE
    OBVIOUS
  <2>1. Kept(t)
    BY Shaped
  <2> QED
    BY <1>1, <1>2, <2>1 DEF Kept
<1>4. /\ Open(t) = n /\ ambient[t]
      /\ \A i \in 1..n : F(t, i).own
      /\ \A i \in 1..n : F(t, i).own /\ F(t, i).kind = "uow" => i = n
  <2>1. /\ Open(t) <= n /\ n # 0 /\ (F(t, n).own <=> n <= Open(t))
    BY <1>1, <1>2, <1>3, Owned
  <2>2. Open(t) = n
    BY <1>1, <1>2, <2>1
  <2>3. \A i \in 1..n : F(t, i).own <=> i <= n
    BY <1>1, <1>3, <2>2, Owned
  <2> QED
    BY <1>1, <1>2, <1>3, <2>2, <2>3, Owned
<1>5. \A i \in 1..m : F(t, i).kind = "write"
  <2> SUFFICES ASSUME NEW i \in 1..m PROVE F(t, i).kind = "write"
    OBVIOUS
  <2>1. i \in 1..n /\ F(t, i).own /\ F(t, i) \in Frame
    BY <1>2, <1>4, Typed DEF SInv
  <2>2. F(t, i).kind # "uow" /\ F(t, i).kind # "savepoint"
    BY <1>2, <1>4, <2>1, Shaped
  <2> QED
    BY <2>1, <2>2 DEF Frame
<1>6. \A i \in 1..m :
          /\ g[i].token => i = 1 /\ g[i].own
          /\ g[i].own
          /\ g[i].kind = "write" /\ g[i].row \in Rows
          /\ g[i].stage \notin {"committed", "rolledback", "draining"}
  <2> SUFFICES ASSUME NEW i \in 1..m
               PROVE  /\ g[i].token => i = 1 /\ g[i].own
                      /\ g[i].own
                      /\ g[i].kind = "write" /\ g[i].row \in Rows
                      /\ g[i].stage \notin {"committed", "rolledback", "draining"}
    OBVIOUS
  <2>1. g[i] = F(t, i) /\ i \in 1..n /\ i # n /\ F(t, i).own /\ F(t, i).kind = "write"
    BY <1>2, <1>4, <1>5
  <2> QED
    BY <2>1, Shaped
<1>7. ~Draining(t)'
  BY <1>2, <1>6 DEF Draining, Top, Last
<1>8. Stack(t)'
  <2> HIDE DEF n, m
  <2> QED
    BY <1>1, <1>2, <1>6, <1>7 DEF Stack, F, Depth
<1>9. t \in leaked' /\ taken' = taken
  BY DEF CloseCancelled
<1>10. Kept(t)'
  <2>1. \A i \in 1..m : g[i].own => g[i].kind = "write" /\ i < Len(sessions'[t])
    BY <1>2, <1>4, <1>6
  <2>2. ambient'[t]
    BY <1>4
  <2> HIDE DEF n, m
  <2> QED
    BY <1>2, <2>1, <2>2 DEF Kept, F, Open
<1>11. Single(t)'
  <2>1. Single(t)
    BY Shaped
  <2>2. "handlerWrites" \notin taken => m = 0
    BY <1>2, <1>3, <1>4, <2>1 DEF Single
  <2>3. "handlerWrites" \notin taken => DOMAIN g = {}
    BY <1>2, <2>2
  <2> HIDE DEF n, m
  <2> QED
    BY <1>9, <2>3 DEF Single
<1> QED
  BY <1>8, <1>9, <1>10, <1>11 DEF Shape

(* The last callback ends the scope. *)
LEMMA DrainedShaped ==
  ASSUME SInv, TypeOK', NEW t \in Tasks, draining[t] # {}, draining'[t] = {},
         IsFront(frames'[t], frames[t]), sessions'[t] = sessions[t],
         ambient'[t] = ambient[t], region'[t] = region[t], leaked' = leaked, taken' = taken
  PROVE  Shape(t)'
<1>1. Draining(t) /\ Depth(t) = 1 /\ Depth(t) # 0
  BY InDraining
<1>2. Len(frames'[t]) = 0 /\ DOMAIN frames'[t] = {} /\ frames'[t] = <<>>
  <2>1. Len(frames'[t]) = Depth(t) - 1 /\ DOMAIN frames'[t] = 1..(Depth(t) - 1)
        /\ (frames'[t] = <<>> <=> Depth(t) - 1 = 0)
    BY <1>1, Shorter DEF SInv
  <2> QED
    BY <1>1, <2>1
<1>3. ~Draining(t)'
  BY <1>2 DEF Draining
<1>4. Stack(t)'
  BY <1>2, <1>3 DEF Stack
<1>5. t \notin leaked => Owners(t)'
  <2> SUFFICES ASSUME t \notin leaked PROVE Owners(t)'
    OBVIOUS
  <2>1. sessions[t] = <<>> /\ ~ambient[t] /\ ~region[t]
    BY <1>1, Shaped DEF Owners
  <2>2. Len(sessions'[t]) = 0
    BY <2>1, TypedNext
  <2> QED
    BY <1>2, <1>3, <2>1, <2>2 DEF Owners, Depth, Open
<1>6. t \in leaked => Kept(t)'
  BY <1>2, Shaped DEF Kept
<1>7. Single(t)'
  <2>1. Single(t)
    BY Shaped
  <2> QED
    BY <1>2, <2>1 DEF Single, Open
<1> QED
  BY <1>4, <1>5, <1>6, <1>7 DEF Shape

(* The task enters a scope that joins the ambient session. *)
LEMMA JoinedShaped ==
  ASSUME SInv, TypeOK', NEW t \in Tasks, NEW f, IsAppend(frames'[t], frames[t], f),
         ~f.own, ~f.token, f.stage \in {"body", "pre"}, f.kind = "write" => f.row \in Rows,
         ambient[t], ~Draining(t),
         \A i \in 1..Depth(t) : F(t, i).stage \notin {"committed", "rolledback"},
         sessions'[t] = sessions[t], ambient'[t], region'[t] = region[t],
         draining'[t] = draining[t], leaked' = leaked, taken \subseteq taken'
  PROVE  Shape(t)'
<1> DEFINE n == Depth(t)
           m == Depth(t) + 1
           g == frames'[t]
<1>1. /\ n \in Nat /\ m \in Nat /\ m = n + 1 /\ Open(t) \in Nat /\ Len(g) = m
      /\ DOMAIN g = 1..m /\ DOMAIN frames[t] = 1..n
      /\ g # <<>> /\ g[m] = f
      /\ \A i \in 1..m : i = m \/ (i \in 1..n /\ g[i] = F(t, i))
  BY Typed, Longer DEF SInv
<1>2. \A i \in 1..m :
          /\ g[i].token => i = 1 /\ g[i].own
          /\ g[i].own => \A j \in 1..m : j <= i => g[j].own
          /\ g[i].kind = "savepoint" => ~g[i].own
          /\ g[i].kind = "write" => g[i].row \in Rows
          /\ g[i].stage \notin {"committed", "rolledback", "draining"}
  <2> SUFFICES ASSUME NEW i \in 1..m
               PROVE  /\ g[i].token => i = 1 /\ g[i].own
                      /\ g[i].own => \A j \in 1..m : j <= i => g[j].own
                      /\ g[i].kind = "savepoint" => ~g[i].own
                      /\ g[i].kind = "write" => g[i].row \in Rows
                      /\ g[i].stage \notin {"committed", "rolledback", "draining"}
    OBVIOUS
  <2>1. CASE i = m
    <3>1. g[i] = f
      BY <1>1, <2>1
    <3> QED
      BY <3>1
  <2>2. CASE i # m
    <3>1. i \in 1..n /\ g[i] = F(t, i)
      BY <1>1, <2>2
    <3>2. ASSUME g[i].own, NEW j \in 1..m, j <= i PROVE g[j].own
      <4>1. F(t, i).own /\ j # m
        BY <1>1, <3>1, <3>2
      <4>2. j \in 1..n /\ g[j] = F(t, j)
        BY <1>1, <4>1
      <4>3. F(t, j).own
        BY <3>1, <3>2, <4>1, <4>2, Shaped
      <4> QED
        BY <4>2, <4>3
    <3>3. F(t, i).stage # "draining"
      BY <3>1, Shaped
    <3> QED
      BY <3>1, <3>2, <3>3, Shaped
  <2> QED
    BY <2>1, <2>2
<1>3. ~Draining(t)'
  BY <1>1, <1>2 DEF Draining, Top, Last
<1>4. Stack(t)'
  <2>1. draining'[t] = {}
    BY Shaped
  <2> HIDE DEF n, m
  <2> QED
    BY <1>1, <1>2, <1>3, <2>1 DEF Stack, F, Depth
<1>5. t \notin leaked => Owners(t)'
  <2> SUFFICES ASSUME t \notin leaked PROVE Owners(t)'
    OBVIOUS
  <2>1. n # 0
    BY Owned
  <2>2. /\ Open(t) <= n /\ Open(t) > 0 /\ Open(t) \in 1..n
        /\ \A i \in 1..n :
             /\ F(t, i).own <=> i <= Open(t)
             /\ F(t, i).token <=> i = 1
             /\ F(t, i).own /\ F(t, i).kind = "uow" => i = Open(t)
        /\ F(t, Open(t)).kind = "uow"
        /\ region[t]
    BY <2>1, Owned
  <2>3. \A i \in 1..m :
          /\ g[i].own <=> i <= Open(t)
          /\ g[i].token <=> i = 1
          /\ g[i].own /\ g[i].kind = "uow" => i = Open(t)
    BY <1>1, <2>1, <2>2
  <2>4. g[Open(t)].kind = "uow"
    BY <1>1, <2>2
  <2> HIDE DEF n, m
  <2> QED
    BY <1>1, <1>3, <2>2, <2>3, <2>4 DEF Owners, F, Depth, Open
<1>6. t \in leaked => Kept(t)'
  <2> SUFFICES ASSUME t \in leaked PROVE Kept(t)'
    OBVIOUS
  <2>1. Kept(t)
    BY Shaped
  <2>2. \A i \in 1..m : g[i].own => g[i].kind = "write" /\ (g[i].stage # "draining" => i < Open(t))
    BY <1>1, <2>1 DEF Kept
  <2> HIDE DEF n, m
  <2> QED
    BY <1>1, <2>1, <2>2 DEF Kept, F, Open
<1>7. Single(t)'
  <2>1. Single(t)
    BY Shaped
  <2>2. \A i \in 1..m : g[i].own => i \in 1..n /\ F(t, i).own
    BY <1>1
  <2> HIDE DEF n, m
  <2> QED
    BY <1>1, <2>1, <2>2 DEF Single, F, Open
<1> QED
  BY <1>4, <1>5, <1>6, <1>7 DEF Shape

(* A scope that opens a session is the outermost one, or a write's handler  *)
(* entered it outside any block.                                            *)
LEMMA OpenedShaped ==
  ASSUME SInv, TypeOK', NEW t \in Tasks, NEW kind \in {"uow", "write"},
         NEW stage \in {"body", "pre"}, NEW row \in Rows \union {NoRow},
         kind = "write" => row \in Rows,
         IsAppend(frames'[t], frames[t], Scope(t, kind, stage, row)),
         IsAppend(sessions'[t], sessions[t], NewSession),
         ~ambient[t], MayEnter(t), region'[t], ambient'[t] <=> kind = "uow",
         draining'[t] = draining[t], leaked' = leaked, taken \subseteq taken',
         InHandler(t) => "handlerWrites" \in taken'
  PROVE  Shape(t)'
<1> DEFINE n == Depth(t)
           m == Depth(t) + 1
           g == frames'[t]
           f == Scope(t, kind, stage, row)
<1>1. /\ n \in Nat /\ m \in Nat /\ m = n + 1 /\ Open(t) \in Nat /\ Len(g) = m
      /\ Len(sessions'[t]) = Open(t) + 1
      /\ DOMAIN g = 1..m /\ DOMAIN frames[t] = 1..n
      /\ g # <<>> /\ g[m] = f
      /\ \A i \in 1..m : i = m \/ (i \in 1..n /\ g[i] = F(t, i))
      /\ frames[t] = <<>> <=> n = 0
      /\ ambient'[t] \in BOOLEAN /\ region[t] \in BOOLEAN
  BY Typed, TypedNext, Longer, MoreSessions DEF SInv
<1>2. t \notin leaked
  BY Shaped DEF Kept
<1>3. ~Draining(t) /\ (n # 0 => F(t, n).stage \in {"body", "pre", "post"} /\ n \in 1..n
                                /\ (F(t, n).kind = "write" <=> InHandler(t)))
  <2>1. CASE frames[t] = <<>>
    BY <1>1, <2>1 DEF Draining
  <2>2. CASE InBlock(t)
    BY <2>2, Inside DEF InBlock, InHandler, At
  <2>3. CASE InHandler(t)
    BY <2>3, Inside DEF InHandler
  <2> QED
    BY <2>1, <2>2, <2>3 DEF MayEnter
<1>4. Open(t) = n
  BY <1>1, <1>2, <1>3, Owned
<1>5. n # 0 => F(t, n).kind = "write"
  <2> SUFFICES ASSUME n # 0 PROVE F(t, n).kind = "write"
    OBVIOUS
  <2>1. F(t, n).own /\ F(t, n).kind # "uow" /\ F(t, n) \in Frame
    BY <1>1, <1>2, <1>3, <1>4, Owned, Typed DEF SInv
  <2>2. F(t, n).kind # "savepoint"
    BY <1>3, <2>1, Shaped
  <2> QED
    BY <2>1, <2>2 DEF Frame
<1>6. /\ f.kind = kind /\ f.own /\ f.stage = stage /\ f.row = row
      /\ f.token <=> n = 0
  <2>1. f.token <=> ~region[t]
    BY DEF Scope
  <2>2. region[t] <=> n # 0
    BY <1>1, <1>2, <1>3, Owned
  <2> QED
    BY <2>1, <2>2 DEF Scope
<1>7. \A i \in 1..m :
          /\ g[i].token <=> i = 1
          /\ g[i].own
          /\ g[i].kind # "savepoint"
          /\ g[i].kind = "write" => g[i].row \in Rows
          /\ g[i].kind = "uow" => i = m
          /\ g[i].stage \notin {"committed", "rolledback", "draining"}
  <2> SUFFICES ASSUME NEW i \in 1..m
               PROVE  /\ g[i].token <=> i = 1
                      /\ g[i].own
                      /\ g[i].kind # "savepoint"
                      /\ g[i].kind = "write" => g[i].row \in Rows
                      /\ g[i].kind = "uow" => i = m
                      /\ g[i].stage \notin {"committed", "rolledback", "draining"}
    OBVIOUS
  <2>1. CASE i = m
    <3>1. g[i] = f /\ (i = 1 <=> n = 0)
      BY <1>1, <2>1
    <3> HIDE DEF f
    <3> QED
      BY <1>6, <2>1, <3>1
  <2>2. CASE i # m
    <3>1. i \in 1..n /\ g[i] = F(t, i) /\ n # 0
      BY <1>1, <2>2
    <3>2. F(t, i).own /\ (F(t, i).token <=> i = 1) /\ (F(t, i).kind = "uow" => i = n)
      BY <1>1, <1>2, <1>3, <1>4, <3>1, Owned
    <3>3. F(t, i).kind # "uow"
      BY <1>5, <3>1, <3>2
    <3>4. F(t, i).stage \notin {"committed", "rolledback", "draining"}
      BY <1>3, <3>1, Shaped
    <3>5. F(t, i).kind # "savepoint" /\ (F(t, i).kind = "write" => F(t, i).row \in Rows)
      BY <3>1, <3>2, Shaped
    <3> QED
      BY <3>1, <3>2, <3>3, <3>4, <3>5
  <2> QED
    BY <2>1, <2>2
<1>8. ~Draining(t)'
  BY <1>1, <1>7 DEF Draining, Top, Last
<1>9. Stack(t)'
  <2>1. draining'[t] = {}
    BY <1>3, Shaped
  <2> HIDE DEF n, m, f
  <2> QED
    BY <1>1, <1>7, <1>8, <2>1 DEF Stack, F, Depth
<1>10. Owners(t)'
  <2>1. ambient'[t] <=> g[m].kind = "uow"
    BY <1>1, <1>6
  <2> HIDE DEF n, m, f
  <2> QED
    BY <1>1, <1>4, <1>7, <1>8, <2>1 DEF Owners, F, Depth, Open
<1>11. Single(t)'
  <2>1. "handlerWrites" \notin taken' => n = 0
    BY <1>3, <1>5
  <2>2. "handlerWrites" \notin taken' => Len(sessions'[t]) <= 1
    BY <1>1, <1>4, <2>1
  <2> QED
    BY <1>2, <2>2 DEF Single, Open
<1> QED
  BY <1>2, <1>9, <1>10, <1>11 DEF Shape

-----------------------------------------------------------------------------
(* Every step keeps the shape of every task. *)

(* A block or a write is entered. *)
LEMMA EnterShaped ==
  ASSUME SInv, NEW t \in Tasks, NEW kind \in {"uow", "write"}, NEW stage \in {"body", "pre"},
         NEW row \in Rows \union {NoRow}, kind = "write" => row \in Rows,
         Enter(t, kind, stage, row),
         ambient' = [ambient EXCEPT ![t] = @ \/ kind = "uow"]
  PROVE  TypeOK' /\ Sole(t) /\ Shape(t)' /\ leaked' = leaked /\ taken \subseteq taken'
<1>1. TypeOK /\ ambient \in [Tasks -> BOOLEAN]
  BY DEF SInv, TypeOK
<1>2. /\ ambient' \in [Tasks -> BOOLEAN] /\ (ambient'[t] <=> (ambient[t] \/ kind = "uow"))
      /\ \A u \in Tasks \ {t} : ambient'[u] = ambient[u]
  BY <1>1
<1>3. /\ TypeOK' /\ Sole(t)
      /\ IsAppend(frames'[t], frames[t], Scope(t, kind, stage, row))
      /\ IF ambient[t] THEN sessions'[t] = sessions[t]
         ELSE IsAppend(sessions'[t], sessions[t], NewSession)
      /\ region'[t] <=> (region[t] \/ ~ambient[t])
      /\ draining'[t] = draining[t]
  BY <1>2, EnterEffect
<1>4. /\ leaked' = leaked /\ taken \subseteq taken' /\ MayEnter(t)
      /\ InHandler(t) /\ ~ambient[t] => "handlerWrites" \in taken'
  BY DEF Enter, Takes
<1>5. CASE ~ambient[t]
  <2>1. region'[t] /\ (ambient'[t] <=> kind = "uow") /\ (InHandler(t) => "handlerWrites" \in taken')
    BY <1>2, <1>3, <1>4, <1>5
  <2>2. IsAppend(sessions'[t], sessions[t], NewSession)
    BY <1>3, <1>5
  <2>3. Shape(t)'
    BY <1>3, <1>4, <1>5, <2>1, <2>2, OpenedShaped
  <2> QED
    BY <1>3, <1>4, <2>3
<1>6. CASE ambient[t]
  <2> DEFINE f == Scope(t, kind, stage, row)
  <2>1. ~f.own /\ ~f.token /\ f.stage \in {"body", "pre"} /\ (f.kind = "write" => f.row \in Rows)
    BY <1>6 DEF Scope
  <2>2. /\ ~Draining(t)
        /\ \A i \in 1..Depth(t) : F(t, i).stage \notin {"committed", "rolledback"}
    <3>1. CASE frames[t] = <<>>
      BY <1>1, <3>1, Typed DEF Draining
    <3>2. CASE frames[t] # <<>>
      <4>1. InBlock(t) \/ InHandler(t)
        BY <1>4, <3>2 DEF MayEnter
      <4>2. ~Draining(t) /\ F(t, Depth(t)).stage \in {"body", "pre", "post"}
        BY <4>1, Inside DEF InBlock, InHandler
      <4> QED
        BY <4>2, Shaped
    <3> QED
      BY <3>1, <3>2
  <2>3. ambient'[t] /\ region'[t] = region[t] /\ sessions'[t] = sessions[t]
    <3>1. region[t] \in BOOLEAN /\ region'[t] \in BOOLEAN
      BY <1>1, <1>3, Typed, TypedNext
    <3> QED
      BY <1>2, <1>3, <1>6, <3>1
  <2>4. IsAppend(frames'[t], frames[t], f)
    BY <1>3
  <2> HIDE DEF f
  <2>5. Shape(t)'
    BY <1>3, <1>4, <1>6, <2>1, <2>2, <2>3, <2>4, JoinedShaped
  <2> QED
    BY <1>3, <1>4, <2>5
<1> QED
  BY <1>5, <1>6

(* A step that only changes the innermost scope keeps the task in its scopes. *)
LEMMA RestyledTop ==
  ASSUME SInv, TypeOK', NEW t \in Tasks, Depth(t) # 0, ~Draining(t), NEW f,
         IsReplace(frames'[t], frames[t], f),
         f.kind = Top(t).kind, f.own = Top(t).own, f.token = Top(t).token, f.row = Top(t).row,
         f.stage # "draining", f.stage \in {"committed", "rolledback"} => Top(t).own,
         Len(sessions'[t]) = Open(t), ambient'[t] = ambient[t], region'[t] = region[t],
         draining'[t] = draining[t]
  PROVE  Restyled(t)
<1>1. /\ Depth(t) \in 1..Depth(t) /\ Len(frames'[t]) = Depth(t) /\ frames'[t][Depth(t)] = f
      /\ \A i \in 1..Depth(t) : i = Depth(t) \/ frames'[t][i] = F(t, i)
  BY Altered DEF SInv
<1>2. Top(t) = F(t, Depth(t)) /\ F(t, Depth(t)).stage # "draining"
  BY Typed, Shaped DEF SInv
<1> QED
  BY <1>1, <1>2 DEF Restyled

(* So does one that leaves the scopes alone. *)
LEMMA RestyledSame ==
  ASSUME SInv, NEW t \in Tasks, frames'[t] = frames[t],
         Len(sessions'[t]) = Open(t), ambient'[t] = ambient[t], region'[t] = region[t],
         draining'[t] = {} <=> draining[t] = {}
  PROVE  Restyled(t)
BY DEF Restyled, F, Depth

(* A step of the task keeps the shape of its stacks. *)
LEMMA StepShaped ==
  ASSUME SInv, NEW t \in Tasks, Step(t)
  PROVE  TypeOK' /\ Sole(t) /\ Shape(t)' /\ leaked \subseteq leaked' /\ leaked' \subseteq leaked \union {t}
         /\ taken \subseteq taken'
<1> DEFINE Goal == TypeOK' /\ Sole(t) /\ Shape(t)' /\ leaked \subseteq leaked' /\ leaked' \subseteq leaked \union {t}
                   /\ taken \subseteq taken'
<1>1. TypeOK
  BY DEF SInv
<1>2. CASE EnterUow(t)
  <2>1. ambient' = [ambient EXCEPT ![t] = @ \/ "uow" = "uow"]
    BY <1>2 DEF EnterUow
  <2>2. Enter(t, "uow", "body", NoRow)
    BY <1>2 DEF EnterUow
  <2> QED
    BY <2>1, <2>2, EnterShaped
<1>3. ASSUME NEW k \in Rows, BeginWrite(t, k) PROVE Goal
  <2>1. ambient' = [ambient EXCEPT ![t] = @ \/ "write" = "uow"]
    <3>1. ambient \in [Tasks -> BOOLEAN] /\ ambient' = ambient
      BY <1>1, <1>3 DEF BeginWrite, TypeOK
    <3>2. (ambient[t] \/ "write" = "uow") = ambient[t]
      BY <3>1
    <3> QED
      BY <3>1, <3>2
  <2>2. Enter(t, "write", "pre", k)
    BY <1>3 DEF BeginWrite
  <2> QED
    BY <2>1, <2>2, EnterShaped
<1>4. CASE EnterSavepoint(t)
  <2>1. /\ TypeOK' /\ Sole(t) /\ IsAppend(frames'[t], frames[t], Savepoint(t))
        /\ UNCHANGED <<sessions, ambient, region, queued, draining, unwinding>>
        /\ leaked' = leaked /\ taken' = taken
    BY <1>4, SavepointEffect DEF EnterSavepoint, historyVars
  <2>2. InBlock(t) /\ ~Draining(t) /\ F(t, Depth(t)).stage = "body" /\ Depth(t) # 0 /\ Depth(t) \in 1..Depth(t)
    BY <1>4, Inside DEF EnterSavepoint, InBlock
  <2>3. \A i \in 1..Depth(t) : F(t, i).stage \notin {"committed", "rolledback"}
    BY <2>2, Shaped
  <2>4. ambient[t]
    <3>1. CASE t \in leaked
      BY <3>1, Shaped DEF Kept
    <3>2. CASE t \notin leaked
      <4>1. CASE At(t, "uow", "body")
        <5>1. F(t, Depth(t)).kind = "uow"
          BY <4>1, Inside
        <5>2. CASE F(t, Depth(t)).own
          BY <2>2, <3>2, <5>1, <5>2, Owned
        <5>3. CASE ~F(t, Depth(t)).own
          BY <2>2, <3>2, <5>3, Owned
        <5> QED
          BY <5>2, <5>3
      <4>2. CASE At(t, "savepoint", "body")
        <5>1. ~F(t, Depth(t)).own
          BY <2>2, <4>2, Inside, Shaped
        <5> QED
          BY <2>2, <3>2, <5>1, Owned
      <4> QED
        BY <2>2, <4>1, <4>2 DEF InBlock
    <3> QED
      BY <3>1, <3>2
  <2> DEFINE f == Savepoint(t)
  <2>5. ~f.own /\ ~f.token /\ f.stage = "body" /\ f.kind # "write" /\ IsAppend(frames'[t], frames[t], f)
    BY <2>1 DEF Savepoint
  <2> HIDE DEF f
  <2>6. ambient'[t] /\ region'[t] = region[t] /\ sessions'[t] = sessions[t] /\ draining'[t] = draining[t]
    BY <2>1, <2>4
  <2>7. Shape(t)'
    BY <2>1, <2>2, <2>3, <2>4, <2>5, <2>6, JoinedShaped
  <2> QED
    BY <2>1, <2>7
<1>5. CASE Flush(t)
  <2>1. /\ TypeOK' /\ Sole(t) /\ frames'[t] = Flushed(t, clock + 1)
        /\ Len(sessions'[t]) = Open(t)
        /\ UNCHANGED <<ambient, region, queued, draining, unwinding>>
        /\ leaked' = leaked /\ taken' = taken
    BY <1>5, FlushEffect DEF Flush, historyVars, IsReplace, Open
  <2>2. F(t, Depth(t)).stage = "pre"
    BY <1>5, Inside DEF Flush
  <2>3. Restyled(t)
    BY <1>1, <2>1, <2>2, FlushedScopes, Pieces DEF Restyled
  <2>4. Shape(t)'
    BY <2>1, <2>3, RestyledShaped
  <2> QED
    BY <2>1, <2>4
<1>6. ASSUME NEW k \in Rows, FlushPending(t, k) PROVE Goal
  <2>1. /\ TypeOK' /\ Sole(t) /\ Len(sessions'[t]) = Open(t)
        /\ UNCHANGED <<frames, ambient, region, queued, draining, unwinding>>
        /\ leaked' = leaked /\ taken' = taken
    BY <1>6, FlushPendingEffect DEF FlushPending, IsReplace, Open
  <2>2. Shape(t)'
    BY <2>1, RestyledSame, RestyledShaped
  <2> QED
    BY <2>1, <2>2
<1>7. CASE FlushFails(t)
  <2>1. /\ TypeOK' /\ Sole(t) /\ IsFront(frames'[t], frames[t]) /\ Len(sessions'[t]) = Open(t)
        /\ UNCHANGED <<ambient, region, queued, draining>>
        /\ leaked' = leaked /\ taken' = taken
    BY <1>7, FlushFailsEffect DEF FlushFails, IsReplace, Open
  <2>2. Depth(t) # 0 /\ ~F(t, Depth(t)).own
    BY <1>7, Inside DEF FlushFails
  <2>3. Shape(t)'
    BY <2>1, <2>2, DroppedShaped DEF Dropped
  <2> QED
    BY <2>1, <2>3
<1>8. CASE Complete(t)
  <2>1. /\ TypeOK' /\ Sole(t)
        /\ IF Top(t).own THEN IsReplace(frames'[t], frames[t], [Top(t) EXCEPT !.stage = "commit"])
           ELSE IsFront(frames'[t], frames[t])
        /\ UNCHANGED <<sessions, ambient, region, draining, unwinding>>
        /\ leaked' = leaked /\ taken' = taken
    BY <1>8, CompleteEffect DEF Complete, historyVars
  <2>2. Depth(t) # 0 /\ ~Draining(t) /\ Top(t) = F(t, Depth(t)) /\ Top(t) \in Frame
    BY <1>8, Inside DEF Complete
  <2>3. Len(sessions'[t]) = Open(t)
    BY <2>1 DEF Open
  <2>4. CASE Top(t).own
    <3> DEFINE f == [Top(t) EXCEPT !.stage = "commit"]
    <3>1. /\ f.kind = Top(t).kind /\ f.own = Top(t).own /\ f.token = Top(t).token
          /\ f.row = Top(t).row /\ f.stage = "commit" /\ IsReplace(frames'[t], frames[t], f)
      BY <2>1, <2>2, <2>4, Staged
    <3> HIDE DEF f
    <3>2. Restyled(t)
      BY <2>1, <2>2, <2>3, <3>1, RestyledTop
    <3> QED
      BY <2>1, <3>2, RestyledShaped
  <2>5. CASE ~Top(t).own
    <3>1. Dropped(t)
      BY <2>1, <2>2, <2>3, <2>5 DEF Dropped
    <3> QED
      BY <2>1, <3>1, DroppedShaped
  <2> QED
    BY <2>4, <2>5
<1>9. CASE Raise(t)
  <2>1. /\ TypeOK' /\ Sole(t) /\ UNCHANGED <<ambient, region, queued, draining>>
        /\ RaiseOwn(t) \/ RaiseSavepoint(t) \/ RaiseJoined(t)
        /\ leaked' = leaked /\ taken' = taken
    BY <1>9, RaiseEffect DEF Raise
  <2>2. Depth(t) # 0 /\ ~Draining(t) /\ Top(t) = F(t, Depth(t)) /\ Top(t) \in Frame
    BY <1>9, Inside DEF Raise, Running, InBlock, InHandler
  <2>3. Len(sessions'[t]) = Open(t)
    BY <2>1 DEF Open, RaiseOwn, RaiseSavepoint, RaiseJoined, IsReplace
  <2>4. CASE RaiseOwn(t)
    <3> DEFINE f == [Top(t) EXCEPT !.stage = "rolledback"]
    <3>1. /\ f.kind = Top(t).kind /\ f.own = Top(t).own /\ f.token = Top(t).token
          /\ f.row = Top(t).row /\ f.stage = "rolledback" /\ IsReplace(frames'[t], frames[t], f)
          /\ Top(t).own
      BY <2>2, <2>4, Staged DEF RaiseOwn
    <3> HIDE DEF f
    <3>2. Restyled(t)
      BY <2>1, <2>2, <2>3, <3>1, RestyledTop
    <3> QED
      BY <2>1, <3>2, RestyledShaped
  <2>5. CASE RaiseSavepoint(t) \/ RaiseJoined(t)
    <3>1. Dropped(t)
      BY <2>1, <2>2, <2>3, <2>5 DEF Dropped, RaiseSavepoint, RaiseJoined
    <3> QED
      BY <2>1, <3>1, DroppedShaped
  <2> QED
    BY <2>1, <2>4, <2>5
<1>10. CASE Swallow(t)
  <2>1. /\ TypeOK' /\ Sole(t) /\ UNCHANGED <<frames, sessions, ambient, region, queued, draining>>
        /\ leaked' = leaked /\ taken \subseteq taken'
    BY <1>10, SwallowEffect DEF Swallow, Takes
  <2>2. Len(sessions'[t]) = Open(t)
    BY <2>1 DEF Open
  <2>3. Shape(t)'
    BY <2>1, <2>2, RestyledSame, RestyledShaped
  <2> QED
    BY <2>1, <2>3
<1>11. CASE ExitJoined(t) \/ ReleaseSavepoint(t)
  <2>1. /\ TypeOK' /\ Sole(t) /\ ~Top(t).own /\ IsFront(frames'[t], frames[t])
        /\ UNCHANGED <<sessions, ambient, region, queued, draining, unwinding>>
        /\ leaked' = leaked /\ taken' = taken
    BY <1>11, ExitEffect DEF ExitJoined, ReleaseSavepoint, historyVars
  <2>2. Depth(t) # 0 /\ Top(t) = F(t, Depth(t))
    BY <1>11, Inside DEF ExitJoined, ReleaseSavepoint
  <2>3. Len(sessions'[t]) = Open(t)
    BY <2>1 DEF Open
  <2>4. Dropped(t)
    BY <2>1, <2>2, <2>3 DEF Dropped
  <2> QED
    BY <2>1, <2>4, DroppedShaped
<1>12. CASE MidCommit(t)
  <2>1. /\ TypeOK' /\ Sole(t)
        /\ IsReplace(frames'[t], frames[t], [Top(t) EXCEPT !.made = {}])
        /\ Len(sessions'[t]) = Open(t)
        /\ UNCHANGED <<ambient, region, queued, draining, unwinding>>
        /\ leaked' = leaked /\ taken \subseteq taken'
    BY <1>12, MidCommitEffect DEF MidCommit, Takes, IsReplace, Open
  <2>2. /\ Depth(t) # 0 /\ ~Draining(t) /\ Top(t) = F(t, Depth(t)) /\ Top(t) \in Frame
        /\ Top(t).stage = "body"
    BY <1>12, Inside DEF MidCommit
  <2> DEFINE f == [Top(t) EXCEPT !.made = {}]
  <2>3. /\ f.kind = Top(t).kind /\ f.own = Top(t).own /\ f.token = Top(t).token
        /\ f.row = Top(t).row /\ f.stage = "body" /\ IsReplace(frames'[t], frames[t], f)
    BY <2>1, <2>2 DEF Frame
  <2> HIDE DEF f
  <2>4. Restyled(t)
    BY <2>1, <2>2, <2>3, RestyledTop
  <2>5. Shape(t)'
    BY <1>12, <2>1, <2>4, RestyledShaped
  <2> QED
    BY <2>1, <2>5
<1>13. CASE MidRollback(t)
  <2>1. /\ TypeOK' /\ Sole(t) /\ Len(sessions'[t]) = Open(t)
        /\ UNCHANGED <<frames, ambient, region, queued, draining, unwinding>>
        /\ leaked' = leaked /\ taken' = taken
    BY <1>13, MidRollbackEffect DEF MidRollback, IsReplace, Open
  <2>2. Shape(t)'
    BY <2>1, RestyledSame, RestyledShaped
  <2> QED
    BY <2>1, <2>2
<1>14. CASE Commit(t) \/ CommitFails(t) \/ CommitLost(t)
  <2>1. /\ TypeOK' /\ Sole(t)
        /\ UNCHANGED <<ambient, region, queued, draining, unwinding>>
        /\ leaked' = leaked /\ taken' = taken
    BY <1>14, CommitEffect DEF Commit, CommitFails, CommitLost
  <2>2. /\ Depth(t) # 0 /\ ~Draining(t) /\ Top(t) = F(t, Depth(t)) /\ Top(t) \in Frame
    BY <1>14, Inside DEF Commit, CommitFails, CommitLost, AtCommit
  <2>3. PICK stage \in {"committed", "rolledback"} : Ends(t, stage)
    BY <1>14, CommitEffect
  <2> DEFINE f == [Top(t) EXCEPT !.stage = stage]
  <2>4. /\ f.kind = Top(t).kind /\ f.own = Top(t).own /\ f.token = Top(t).token
        /\ f.row = Top(t).row /\ f.stage = stage /\ IsReplace(frames'[t], frames[t], f)
        /\ Top(t).own
    <3>1. IsReplace(frames'[t], frames[t], f) /\ Top(t).own
      BY <2>3 DEF Ends
    <3>2. stage \in {"body", "pre", "post", "commit", "committed", "rolledback", "draining"}
      OBVIOUS
    <3>3. Top(t) \in Frame
      BY <2>2
    <3>4. /\ f.kind = Top(t).kind /\ f.own = Top(t).own /\ f.token = Top(t).token
          /\ f.row = Top(t).row /\ f.stage = stage
      BY <3>2, <3>3 DEF Frame
    <3> QED
      BY <3>1, <3>4
  <2>5. Len(sessions'[t]) = Open(t)
    BY <2>3 DEF Ends, IsReplace, Open
  <2> HIDE DEF f
  <2>6. Restyled(t)
    BY <2>1, <2>2, <2>3, <2>4, <2>5, RestyledTop
  <2>7. Shape(t)'
    BY <2>1, <2>6, RestyledShaped
  <2> QED
    BY <2>1, <2>7
<1>15. CASE Close(t)
  <2>1. /\ TypeOK' /\ Sole(t) /\ Closed(t) /\ draining'[t] = Drained(t)
        /\ CloseDraining(t) \/ CloseLeaving(t)
        /\ leaked' = leaked /\ taken' = taken
    BY <1>15, CloseEffect DEF Close, Closed, historyVars
  <2>2. CASE CloseDraining(t)
    BY <2>1, <2>2, DrainingShaped
  <2>3. CASE CloseLeaving(t)
    <3>1. draining'[t] = {} /\ IsFront(frames'[t], frames[t])
      BY <2>1, <2>3 DEF CloseLeaving
    <3> QED
      BY <2>1, <3>1, ClosedShaped
  <2> QED
    BY <2>1, <2>2, <2>3
<1>16. CASE CloseCancelled(t)
  <2>1. /\ TypeOK' /\ Sole(t) /\ IsFront(frames'[t], frames[t])
        /\ IsReplace(sessions'[t], sessions[t], NewSession)
        /\ UNCHANGED <<ambient, region, queued, draining>>
    BY <1>16, CloseCancelledEffect
  <2>2. leaked' = leaked \union {t} /\ taken' = taken
    BY <1>16 DEF CloseCancelled
  <2>3. Shape(t)'
    BY <1>16, <2>1, CancelledShaped
  <2> QED
    BY <2>1, <2>2, <2>3
<1>17. ASSUME NEW k \in Rows, Invalidate(t, k) \/ InvalidateFails(t, k) PROVE Goal
  <2>1. /\ TypeOK' /\ Sole(t) /\ k \in draining[t]
        /\ UNCHANGED <<sessions, ambient, region, queued>>
        /\ IF draining'[t] = {} THEN IsFront(frames'[t], frames[t]) /\ unwinding'[t] = FALSE
           ELSE frames'[t] = frames[t] /\ unwinding'[t] = unwinding[t]
        /\ leaked' = leaked /\ taken' = taken
    BY <1>17, InvalidateEffect DEF Invalidate, InvalidateFails
  <2>2. CASE draining'[t] = {}
    BY <2>1, <2>2, DrainedShaped
  <2>3. CASE draining'[t] # {}
    <3>1. Len(sessions'[t]) = Open(t)
      BY <2>1 DEF Open
    <3>2. Restyled(t)
      BY <2>1, <2>3, <3>1, RestyledSame
    <3> QED
      BY <2>1, <3>2, RestyledShaped
  <2> QED
    BY <2>2, <2>3
<1> QED
  BY <1>2, <1>3, <1>4, <1>5, <1>6, <1>7, <1>8, <1>9, <1>10, <1>11, <1>12, <1>13, <1>14, <1>15,
     <1>16, <1>17 DEF Step

(* The shape of the stacks is an invariant. *)
LEMMA ShapeStep ==
  ASSUME SInv, [Next]_vars
  PROVE  SInv'
<1>1. ASSUME NEW t \in Tasks, Step(t) PROVE SInv'
  <2>1. TypeOK' /\ Sole(t) /\ Shape(t)' /\ leaked \subseteq leaked' /\ leaked' \subseteq leaked \union {t}
        /\ taken \subseteq taken'
    BY <1>1, StepShaped
  <2>2. \A u \in Tasks \ {t} : Shape(u)'
    BY <2>1, OthersShaped
  <2>3. \A u \in Tasks : Shape(u)'
    BY <2>1, <2>2
  <2> QED
    BY <2>1, <2>3 DEF SInv
<1>2. CASE UNCHANGED vars
  BY <1>2 DEF SInv, TypeOK, Shape, Stack, Owners, Kept, Single, F, Depth, Open, Draining, Top, vars,
     contextVars, historyVars
<1> QED
  BY <1>1, <1>2 DEF Next

(* At first no task is in any scope. *)
LEMMA ShapeInit ==
  ASSUME Init
  PROVE  SInv
<1>1. TypeOK
  BY UnitOfWorkAssumption DEF Init, TypeOK, NoWrites, Writes, Liberties
<1>2. ASSUME NEW t \in Tasks PROVE Shape(t)
  <2>1. /\ frames[t] = <<>> /\ sessions[t] = <<>> /\ ~ambient[t] /\ ~region[t] /\ draining[t] = {}
        /\ t \notin leaked /\ Depth(t) = 0 /\ Open(t) = 0 /\ DOMAIN frames[t] = {}
    BY <1>1 DEF Init, Depth, Open
  <2>2. ~Draining(t)
    BY <2>1 DEF Draining
  <2>3. Stack(t)
    BY <2>1, <2>2 DEF Stack
  <2>4. Owners(t)
    BY <2>1, <2>2 DEF Owners
  <2>5. Single(t)
    BY <2>1 DEF Single
  <2> QED
    BY <2>1, <2>3, <2>4, <2>5 DEF Shape
<1> QED
  BY <1>1, <1>2 DEF SInv

(* Every variable stays in its type and every stack in its shape. *)
LEMMA ShapeInvariant == Spec => []SInv
<1>1. Init => SInv
  BY ShapeInit
<1>2. SInv /\ [Next]_vars => SInv'
  BY ShapeStep
<1> QED
  BY <1>1, <1>2, PTL DEF Spec

-----------------------------------------------------------------------------
(* The variables hold values of their types, whatever the tasks do: frames,  *)
(* sessions, rows and write numbers, at any nesting of scopes.               *)
THEOREM TypeCorrect == Spec => []TypeOK
<1>1. SInv => TypeOK
  BY DEF SInv
<1> QED
  BY <1>1, ShapeInvariant, PTL

(* The context of a task agrees with the scopes it is inside. *)
LEMMA ContextAgrees ==
  ASSUME SInv, NEW t \in Tasks, t \notin leaked
  PROVE  LET live == {i \in DOMAIN frames[t] : frames[t][i].stage # "draining"} IN
           /\ ambient[t] <=> \E i \in live : frames[t][i].own /\ frames[t][i].kind = "uow"
           /\ region[t] <=> \E i \in live : frames[t][i].token
           /\ Len(sessions[t]) = Cardinality({i \in live : frames[t][i].own})
<1> DEFINE n == Depth(t)
           live == {i \in DOMAIN frames[t] : frames[t][i].stage # "draining"}
<1>1. /\ n \in Nat /\ Open(t) \in Nat /\ DOMAIN frames[t] = 1..n
      /\ Len(sessions[t]) = Open(t) /\ \A i \in 1..n : F(t, i) = frames[t][i]
      /\ Draining(t) <=> (n # 0 /\ F(t, n).stage = "draining")
  BY Typed, Shaped DEF SInv, F, Open
<1>2. CASE Draining(t)
  <2>1. n = 1 /\ F(t, 1).stage = "draining"
    <3>1. draining[t] # {}
      BY <1>2, Shaped
    <3> QED
      BY <3>1, InDraining
  <2>2. live = {}
    BY <1>1, <2>1
  <2>3. sessions[t] = <<>> /\ ~ambient[t] /\ ~region[t]
    BY <1>2, Shaped DEF Owners
  <2>4. Len(sessions[t]) = 0
    BY <2>3
  <2>5. {i \in live : frames[t][i].own} = {}
    BY <2>2
  <2>6. Cardinality({i \in live : frames[t][i].own}) = 0
    BY <2>5, FS_EmptySet
  <2> QED
    BY <2>2, <2>3, <2>4, <2>6
<1>3. CASE ~Draining(t)
  <2>1. live = 1..n
    <3>1. \A i \in 1..n : F(t, i).stage # "draining"
      BY <1>1, <1>3, Shaped
    <3> QED
      BY <1>1, <3>1
  <2>2. /\ Open(t) <= n
        /\ \A i \in 1..n : F(t, i).own <=> i <= Open(t)
        /\ \A i \in 1..n : F(t, i).token <=> i = 1
        /\ \A i \in 1..n : F(t, i).own /\ F(t, i).kind = "uow" => i = Open(t)
        /\ n # 0 => /\ Open(t) > 0 /\ Open(t) \in 1..n /\ region[t]
                    /\ ambient[t] <=> F(t, Open(t)).kind = "uow"
        /\ n = 0 => Open(t) = 0 /\ ~ambient[t] /\ ~region[t]
    BY <1>3, Owned
  <2>3. {i \in live : frames[t][i].own} = 1..Open(t)
    <3>1. \A i \in 1..n : frames[t][i].own <=> i <= Open(t)
      BY <1>1, <2>2
    <3> HIDE DEF live, n
    <3> QED
      BY <1>1, <2>1, <2>2, <3>1
  <2>4. Cardinality({i \in live : frames[t][i].own}) = Open(t)
    <3>1. Cardinality(1..Open(t)) = IF 1 > Open(t) THEN 0 ELSE Open(t) - 1 + 1
      <4>1. 1 \in Int /\ Open(t) \in Int
        BY <1>1
      <4> QED
        BY <4>1, FS_Interval
    <3>2. Cardinality(1..Open(t)) = Open(t)
      BY <1>1, <3>1
    <3> QED
      BY <2>3, <3>2
  <2>5. ambient[t] <=> \E i \in live : frames[t][i].own /\ frames[t][i].kind = "uow"
    <3>1. CASE n = 0
      <4>1. live = {}
        BY <2>1, <3>1
      <4> QED
        BY <2>2, <3>1, <4>1
    <3>2. CASE n # 0
      <4>1. ASSUME ambient[t] PROVE \E i \in live : frames[t][i].own /\ frames[t][i].kind = "uow"
        <5>1. Open(t) \in 1..n /\ F(t, Open(t)).own /\ F(t, Open(t)).kind = "uow"
          BY <1>1, <2>2, <3>2, <4>1
        <5> HIDE DEF live, n
        <5> QED
          BY <1>1, <2>1, <5>1
      <4>2. ASSUME NEW i \in live, frames[t][i].own, frames[t][i].kind = "uow" PROVE ambient[t]
        <5>1. i \in 1..n /\ F(t, i).own /\ F(t, i).kind = "uow"
          BY <1>1, <2>1, <4>2
        <5>2. i = Open(t)
          BY <2>2, <5>1
        <5> QED
          BY <2>2, <3>2, <5>1, <5>2
      <4> QED
        BY <4>1, <4>2
    <3> QED
      BY <3>1, <3>2
  <2>6. region[t] <=> \E i \in live : frames[t][i].token
    <3>1. CASE n = 0
      <4>1. live = {}
        BY <2>1, <3>1
      <4> QED
        BY <2>2, <3>1, <4>1
    <3>2. CASE n # 0
      <4>1. 1 \in 1..n /\ F(t, 1).token
        BY <1>1, <2>2, <3>2
      <4>2. 1 \in live /\ frames[t][1].token
        BY <1>1, <2>1, <4>1
      <4> QED
        BY <2>2, <3>2, <4>2
    <3> QED
      BY <3>1, <3>2
  <2> QED
    BY <1>1, <2>4, <2>5, <2>6
<1> QED
  BY <1>2, <1>3

(* However a scope ends, by exit, exception, failed or lost commit, it leaves *)
(* _active_session, the post-commit region and the open sessions as it found  *)
(* them; only a cancellation while a block closes does not.                   *)
THEOREM ScopesRestoreTheContext == Spec => []ContextRestored
<1>1. SInv => ContextRestored
  BY ContextAgrees DEF ContextRestored
<1> QED
  BY <1>1, ShapeInvariant, PTL

-----------------------------------------------------------------------------
(* Where the writes that a step leaves behind come from. *)

Fresh(n) == n = clock + 1 /\ clock' = clock + 1

ProvMade(t) ==
  \A j \in DOMAIN frames'[t] : \A n \in frames'[t][j].made :
    Fresh(n) \/ (j \in DOMAIN frames[t] /\ n \in F(t, j).made)

ProvSaved(t) ==
  \A j \in DOMAIN frames'[t], k \in Rows :
    \/ frames'[t][j].saved[k] = 0
    \/ j \in DOMAIN frames[t] /\ frames'[t][j].saved[k] = F(t, j).saved[k]
    \/ Open(t) # 0 /\ frames'[t][j].saved[k] = Current(t).writes[k]

ProvWrites(t) ==
  \A i \in DOMAIN sessions'[t], k \in Rows :
    \/ sessions'[t][i].writes[k] = 0 \/ Fresh(sessions'[t][i].writes[k])
    \/ \E j \in DOMAIN sessions[t] : sessions'[t][i].writes[k] = sessions[t][j].writes[k]
    \/ \E j \in DOMAIN frames[t] : sessions'[t][i].writes[k] = F(t, j).saved[k]

ProvUndone(t) ==
  \A n \in undone' : \/ n \in undone \/ Fresh(n)
                     \/ /\ Depth(t) # 0 /\ n \in F(t, Depth(t)).made
                        /\ MayRaise(t, Depth(t)) /\ db' = db

ProvDb(t) ==
  \A k \in Rows :
    \/ db'[k] = db[k]
    \/ /\ Depth(t) # 0 /\ F(t, Depth(t)).own /\ ~Draining(t) /\ ~unwinding[t] /\ Open(t) # 0
       /\ db'[k] = Current(t).writes[k]

Provenance(t) ==
  /\ clock' = clock \/ clock' = clock + 1
  /\ ProvMade(t) /\ ProvSaved(t) /\ ProvWrites(t) /\ ProvUndone(t) /\ ProvDb(t)

(* Scopes that are left alone, left, or changed in something else. *)
LEMMA ScopesProvenance ==
  ASSUME TypeOK, TypeOK', NEW t \in Tasks,
         \/ frames'[t] = frames[t]
         \/ Depth(t) # 0 /\ IsFront(frames'[t], frames[t])
         \/ \E f \in Frame : /\ Depth(t) # 0 /\ IsReplace(frames'[t], frames[t], f)
                             /\ f.made \subseteq F(t, Depth(t)).made
                             /\ f.saved = F(t, Depth(t)).saved
         \/ \E f \in Frame : /\ IsAppend(frames'[t], frames[t], f) /\ f.made = {}
                             /\ f.saved = NoWrites \/ (Open(t) # 0 /\ f.saved = Current(t).writes)
  PROVE  ProvMade(t) /\ ProvSaved(t)
<1>1. DOMAIN frames[t] = 1..Depth(t) /\ \A i \in 1..Depth(t) : F(t, i) = frames[t][i]
  BY Typed DEF F
<1>2. CASE frames'[t] = frames[t]
  BY <1>1, <1>2 DEF ProvMade, ProvSaved
<1>3. CASE Depth(t) # 0 /\ IsFront(frames'[t], frames[t])
  <2>1. \A j \in DOMAIN frames'[t] : j \in DOMAIN frames[t] /\ frames'[t][j] = F(t, j)
    BY <1>3, Shorter
  <2> QED
    BY <2>1 DEF ProvMade, ProvSaved
<1>4. ASSUME NEW f \in Frame, Depth(t) # 0, IsReplace(frames'[t], frames[t], f),
             f.made \subseteq F(t, Depth(t)).made, f.saved = F(t, Depth(t)).saved
      PROVE  ProvMade(t) /\ ProvSaved(t)
  <2>1. \A j \in DOMAIN frames'[t] : /\ j \in DOMAIN frames[t]
                                     /\ frames'[t][j].made \subseteq F(t, j).made
                                     /\ frames'[t][j].saved = F(t, j).saved
    BY <1>4, Altered
  <2> QED
    BY <2>1 DEF ProvMade, ProvSaved
<1>5. ASSUME NEW f \in Frame, IsAppend(frames'[t], frames[t], f), f.made = {},
             f.saved = NoWrites \/ (Open(t) # 0 /\ f.saved = Current(t).writes)
      PROVE  ProvMade(t) /\ ProvSaved(t)
  <2>1. \A j \in DOMAIN frames'[t] : \/ frames'[t][j] = f
                                     \/ j \in DOMAIN frames[t] /\ frames'[t][j] = F(t, j)
    BY <1>5, Longer
  <2> QED
    BY <1>5, <2>1 DEF ProvMade, ProvSaved, NoWrites
<1> QED
  BY <1>2, <1>3, <1>4, <1>5

(* A scope that goes on to another stage. *)
LEMMA StageProvenance ==
  ASSUME TypeOK, TypeOK', NEW t \in Tasks, Depth(t) # 0,
         NEW stage \in {"body", "pre", "post", "commit", "committed", "rolledback", "draining"},
         IsReplace(frames'[t], frames[t], [Top(t) EXCEPT !.stage = stage])
  PROVE  ProvMade(t) /\ ProvSaved(t)
<1>1. Top(t) = F(t, Depth(t)) /\ Top(t) \in Frame
  BY Typed
<1> DEFINE f == [Top(t) EXCEPT !.stage = stage]
<1>2. f \in Frame /\ f.made = Top(t).made /\ f.saved = Top(t).saved
  BY <1>1 DEF Frame
<1>3. IsReplace(frames'[t], frames[t], f)
  OBVIOUS
<1> HIDE DEF f
<1> QED
  BY <1>1, <1>2, <1>3, ScopesProvenance

(* Sessions that are left alone, closed, opened or taken back. *)
LEMMA SessionsProvenance ==
  ASSUME TypeOK, TypeOK', NEW t \in Tasks,
         \/ sessions'[t] = sessions[t]
         \/ Open(t) # 0 /\ IsFront(sessions'[t], sessions[t])
         \/ IsAppend(sessions'[t], sessions[t], NewSession)
         \/ \E s \in Session :
              /\ Open(t) # 0 /\ IsReplace(sessions'[t], sessions[t], s)
              /\ \A k \in Rows : \/ s.writes[k] = 0 \/ Fresh(s.writes[k])
                                 \/ s.writes[k] = Current(t).writes[k]
                                 \/ \E j \in DOMAIN frames[t] : s.writes[k] = F(t, j).saved[k]
  PROVE  ProvWrites(t)
<1>1. /\ DOMAIN sessions[t] = 1..Open(t)
      /\ Open(t) # 0 => Open(t) \in 1..Open(t) /\ Current(t) = sessions[t][Open(t)]
  BY Typed DEF Current, Last, Open
<1>2. CASE sessions'[t] = sessions[t]
  BY <1>2 DEF ProvWrites
<1>3. CASE Open(t) # 0 /\ IsFront(sessions'[t], sessions[t])
  <2>1. \A i \in DOMAIN sessions'[t] : i \in DOMAIN sessions[t] /\ sessions'[t][i] = sessions[t][i]
    BY <1>1, <1>3, FewerSessions
  <2> QED
    BY <2>1 DEF ProvWrites
<1>4. CASE IsAppend(sessions'[t], sessions[t], NewSession)
  <2>1. \A i \in DOMAIN sessions'[t] :
          \/ sessions'[t][i] = NewSession
          \/ i \in DOMAIN sessions[t] /\ sessions'[t][i] = sessions[t][i]
    <3>1. DOMAIN sessions'[t] = 1..(Open(t) + 1)
      BY <1>4, MoreSessions
    <3>2. \A i \in 1..(Open(t) + 1) : \/ i = Open(t) + 1 /\ sessions'[t][i] = NewSession
                                      \/ i \in 1..Open(t) /\ sessions'[t][i] = sessions[t][i]
      BY <1>4, MoreSessions
    <3> QED
      BY <1>1, <3>1, <3>2
  <2>2. \A k \in Rows : NewSession.writes[k] = 0
    BY DEF NewSession, NoWrites
  <2> QED
    BY <2>1, <2>2 DEF ProvWrites
<1>5. ASSUME NEW s \in Session, Open(t) # 0, IsReplace(sessions'[t], sessions[t], s),
             \A k \in Rows : \/ s.writes[k] = 0 \/ Fresh(s.writes[k])
                             \/ s.writes[k] = Current(t).writes[k]
                             \/ \E j \in DOMAIN frames[t] : s.writes[k] = F(t, j).saved[k]
      PROVE  ProvWrites(t)
  <2>1. \A i \in DOMAIN sessions'[t] :
          \/ sessions'[t][i] = s
          \/ i \in DOMAIN sessions[t] /\ sessions'[t][i] = sessions[t][i]
    <3>1. DOMAIN sessions'[t] = 1..Open(t)
      BY <1>5, SameSessions
    <3>2. \A i \in 1..Open(t) : \/ i = Open(t) /\ sessions'[t][i] = s
                                \/ i # Open(t) /\ sessions'[t][i] = sessions[t][i]
      BY <1>5, SameSessions
    <3> QED
      BY <1>1, <3>1, <3>2
  <2>2. \A k \in Rows : \/ s.writes[k] = 0 \/ Fresh(s.writes[k])
                        \/ \E j \in DOMAIN sessions[t] : s.writes[k] = sessions[t][j].writes[k]
                        \/ \E j \in DOMAIN frames[t] : s.writes[k] = F(t, j).saved[k]
    BY <1>1, <1>5
  <2> QED
    BY <2>1, <2>2 DEF ProvWrites
<1> QED
  BY <1>2, <1>3, <1>4, <1>5

(* A session whose writes are taken back to nothing. *)
LEMMA ClearedProvenance ==
  ASSUME TypeOK, TypeOK', NEW t \in Tasks, Open(t) # 0, NEW s \in Session,
         IsReplace(sessions'[t], sessions[t], s), s.writes = NoWrites
  PROVE  ProvWrites(t)
<1>1. \A k \in Rows : s.writes[k] = 0
  BY DEF NoWrites
<1> QED
  BY <1>1, SessionsProvenance

(* Nothing that a step leaves behind comes from another task. *)
LEMMA StepProvenance ==
  ASSUME SInv, TypeOK', NEW t \in Tasks, Step(t)
  PROVE  Provenance(t)
<1>1. TypeOK
  BY DEF SInv
<1>2. /\ NewSession \in Session /\ NewSession.writes = NoWrites
  BY <1>1, Pieces DEF NewSession
<1>3. ASSUME NEW kind \in {"uow", "write"}, NEW stage \in {"body", "pre"},
             NEW row \in Rows \union {NoRow}, kind = "write" => row \in Rows,
             Enter(t, kind, stage, row),
             ambient' = [ambient EXCEPT ![t] = @ \/ kind = "uow"]
      PROVE  Provenance(t)
  <2>1. /\ ambient' \in [Tasks -> BOOLEAN] /\ \A u \in Tasks \ {t} : ambient'[u] = ambient[u]
    <3>1. ambient \in [Tasks -> BOOLEAN]
      BY <1>1 DEF TypeOK
    <3> QED
      BY <1>3, <3>1
  <2>2. /\ IsAppend(frames'[t], frames[t], Scope(t, kind, stage, row))
        /\ IF ambient[t] THEN sessions'[t] = sessions[t]
           ELSE IsAppend(sessions'[t], sessions[t], NewSession)
    BY <1>3, <2>1, EnterEffect
  <2>3. UNCHANGED <<db, clock, undone>>
    BY <1>3 DEF Enter
  <2>4. Scope(t, kind, stage, row) \in Frame
    BY <1>1, Pieces DEF Scope, Frame
  <2>5. Scope(t, kind, stage, row).made = {} /\ Scope(t, kind, stage, row).saved = NoWrites
    BY DEF Scope
  <2>6. ProvMade(t) /\ ProvSaved(t)
    BY <1>1, <2>2, <2>4, <2>5, ScopesProvenance
  <2>7. ProvWrites(t)
    BY <1>1, <2>2, SessionsProvenance
  <2> QED
    BY <2>3, <2>6, <2>7 DEF Provenance, ProvUndone, ProvDb
<1>4. CASE EnterUow(t)
  <2>1. ambient' = [ambient EXCEPT ![t] = @ \/ "uow" = "uow"] /\ Enter(t, "uow", "body", NoRow)
    BY <1>4 DEF EnterUow
  <2> QED
    BY <1>3, <2>1
<1>5. ASSUME NEW k \in Rows, BeginWrite(t, k) PROVE Provenance(t)
  <2>1. ambient' = [ambient EXCEPT ![t] = @ \/ "write" = "uow"]
    <3>1. ambient \in [Tasks -> BOOLEAN] /\ ambient' = ambient
      BY <1>1, <1>5 DEF BeginWrite, TypeOK
    <3>2. (ambient[t] \/ "write" = "uow") = ambient[t]
      BY <3>1
    <3> QED
      BY <3>1, <3>2
  <2>2. Enter(t, "write", "pre", k)
    BY <1>5 DEF BeginWrite
  <2> QED
    BY <1>3, <2>1, <2>2
<1>6. CASE EnterSavepoint(t)
  <2>1. /\ Savepoint(t) \in Frame /\ IsAppend(frames'[t], frames[t], Savepoint(t))
        /\ sessions' = sessions
    BY <1>6, SavepointEffect
  <2>2. UNCHANGED <<db, clock, undone>> /\ Open(t) # 0
    BY <1>6, Inside DEF EnterSavepoint, historyVars, InBlock
  <2>3. Savepoint(t).made = {} /\ Savepoint(t).saved = Current(t).writes
    BY DEF Savepoint
  <2>4. ProvMade(t) /\ ProvSaved(t)
    BY <1>1, <2>1, <2>2, <2>3, ScopesProvenance
  <2>5. ProvWrites(t)
    BY <1>1, <2>1, SessionsProvenance
  <2> QED
    BY <2>2, <2>4, <2>5 DEF Provenance, ProvUndone, ProvDb
<1>7. CASE Flush(t)
  <2>1. /\ frames'[t] = Flushed(t, clock + 1) /\ Top(t).row \in Rows /\ clock' = clock + 1
        /\ IsReplace(sessions'[t], sessions[t],
                      [Current(t) EXCEPT !.writes[Top(t).row] = clock + 1])
    BY <1>7, FlushEffect
  <2>2. UNCHANGED <<db, undone>> /\ Open(t) # 0 /\ Current(t) \in Session
    BY <1>7, Inside DEF Flush, historyVars
  <2>3. ProvMade(t) /\ ProvSaved(t)
    <3>1. /\ DOMAIN frames'[t] = 1..Depth(t) /\ DOMAIN frames[t] = 1..Depth(t)
          /\ \A j \in 1..Depth(t) : /\ frames'[t][j].made = F(t, j).made \union {clock + 1}
                                    /\ frames'[t][j].saved = F(t, j).saved
      BY <1>1, <2>1, FlushedScopes, Pieces, Typed, TypedNext
    <3> QED
      BY <2>1, <3>1 DEF ProvMade, ProvSaved, Fresh
  <2>4. ProvWrites(t)
    <3> DEFINE s == [Current(t) EXCEPT !.writes[Top(t).row] = clock + 1]
    <3>1. s \in Session /\ \A k \in Rows : s.writes[k] = clock + 1 \/ s.writes[k] = Current(t).writes[k]
      BY <1>1, <2>1, <2>2, Pieces DEF Session
    <3>2. IsReplace(sessions'[t], sessions[t], s)
      BY <2>1
    <3> HIDE DEF s
    <3>3. \A k \in Rows : Fresh(s.writes[k]) \/ s.writes[k] = Current(t).writes[k]
      BY <2>1, <3>1 DEF Fresh
    <3> QED
      BY <1>1, <2>2, <3>1, <3>2, <3>3, SessionsProvenance
  <2> QED
    BY <2>1, <2>2, <2>3, <2>4 DEF Provenance, ProvUndone, ProvDb
<1>8. ASSUME NEW k \in Rows, FlushPending(t, k) PROVE Provenance(t)
  <2>1. /\ frames' = frames
        /\ IsReplace(sessions'[t], sessions[t],
                      [Current(t) EXCEPT !.writes[k] = clock + 1, !.pending = @ \ {k}])
    BY <1>8, FlushPendingEffect
  <2>2. /\ db' = db /\ clock' = clock + 1 /\ undone' = undone \union {clock + 1}
        /\ Open(t) # 0 /\ Current(t) \in Session
    BY <1>1, <1>8, Typed DEF FlushPending
  <2>3. ProvMade(t) /\ ProvSaved(t)
    BY <1>1, <2>1, ScopesProvenance
  <2>4. ProvWrites(t)
    <3> DEFINE s == [Current(t) EXCEPT !.writes[k] = clock + 1, !.pending = @ \ {k}]
    <3>1. s \in Session /\ \A r \in Rows : s.writes[r] = clock + 1 \/ s.writes[r] = Current(t).writes[r]
      BY <1>1, <2>2, Pieces DEF Session
    <3>2. IsReplace(sessions'[t], sessions[t], s)
      BY <2>1
    <3> HIDE DEF s
    <3>3. \A r \in Rows : Fresh(s.writes[r]) \/ s.writes[r] = Current(t).writes[r]
      BY <2>2, <3>1 DEF Fresh
    <3> QED
      BY <1>1, <2>2, <3>1, <3>2, <3>3, SessionsProvenance
  <2> QED
    BY <2>2, <2>3, <2>4 DEF Provenance, ProvUndone, ProvDb, Fresh
<1>9. CASE FlushFails(t)
  <2>1. PICK w \in [Rows -> Writes] :
          /\ IsReplace(sessions'[t], sessions[t], [writes |-> w, pending |-> {}, doomed |-> TRUE])
          /\ \/ w = NoWrites
             \/ \E i \in 1..Depth(t) : F(t, i).kind = "savepoint" /\ w = F(t, i).saved
    BY <1>9, FlushFailsEffect
  <2>2. IsFront(frames'[t], frames[t])
    BY <1>9, FlushFailsEffect
  <2>3. /\ UNCHANGED <<db, clock>> /\ undone' = undone \union Top(t).made
        /\ Depth(t) # 0 /\ Open(t) # 0 /\ Top(t) = F(t, Depth(t)) /\ DOMAIN frames[t] = 1..Depth(t)
        /\ MayRaise(t, Depth(t))
    BY <1>1, <1>9, Inside, Typed DEF FlushFails, MayRaise
  <2>4. ProvMade(t) /\ ProvSaved(t)
    BY <1>1, <2>2, <2>3, ScopesProvenance
  <2>5. ProvWrites(t)
    <3> DEFINE s == [writes |-> w, pending |-> {}, doomed |-> TRUE]
    <3>1. s \in Session /\ s.writes = w /\ IsReplace(sessions'[t], sessions[t], s)
      BY <1>1, <2>1, Restored
    <3> HIDE DEF s
    <3>2. \A k \in Rows : s.writes[k] = 0 \/ \E j \in DOMAIN frames[t] : s.writes[k] = F(t, j).saved[k]
      BY <2>1, <2>3, <3>1 DEF NoWrites
    <3> QED
      BY <1>1, <2>3, <3>1, <3>2, SessionsProvenance
  <2> QED
    BY <2>3, <2>4, <2>5 DEF Provenance, ProvUndone, ProvDb
<1>10. CASE Complete(t)
  <2>1. /\ IF Top(t).own THEN IsReplace(frames'[t], frames[t], [Top(t) EXCEPT !.stage = "commit"])
           ELSE IsFront(frames'[t], frames[t])
        /\ sessions' = sessions
    BY <1>10, CompleteEffect
  <2>2. /\ UNCHANGED <<db, clock, undone>>
        /\ Depth(t) # 0 /\ Top(t) = F(t, Depth(t)) /\ Top(t) \in Frame
    BY <1>10, Inside DEF Complete, historyVars
  <2>3. ProvMade(t) /\ ProvSaved(t)
    <3>1. CASE Top(t).own
      BY <1>1, <2>1, <2>2, <3>1, StageProvenance
    <3>2. CASE ~Top(t).own
      BY <1>1, <2>1, <2>2, <3>2, ScopesProvenance
    <3> QED
      BY <3>1, <3>2
  <2>4. ProvWrites(t)
    BY <1>1, <2>1, SessionsProvenance
  <2> QED
    BY <2>2, <2>3, <2>4 DEF Provenance, ProvUndone, ProvDb
<1>11. CASE Raise(t)
  <2>1. RaiseOwn(t) \/ RaiseSavepoint(t) \/ RaiseJoined(t)
    BY <1>11, RaiseEffect
  <2>2. /\ UNCHANGED <<db, clock>> /\ undone' = undone \union Top(t).made
        /\ Depth(t) # 0 /\ Open(t) # 0 /\ Top(t) = F(t, Depth(t)) /\ DOMAIN frames[t] = 1..Depth(t)
        /\ Top(t) \in Frame /\ Current(t) \in Session /\ Depth(t) \in 1..Depth(t)
        /\ MayRaise(t, Depth(t))
    BY <1>1, <1>11, Inside, Typed DEF Raise, Running, InBlock, InHandler, MayRaise
  <2>3. CASE RaiseOwn(t)
    <3>1. ProvMade(t) /\ ProvSaved(t)
      BY <1>1, <2>2, <2>3, StageProvenance DEF RaiseOwn
    <3>2. ProvWrites(t)
      BY <1>1, <1>2, <2>2, <2>3, ClearedProvenance DEF RaiseOwn
    <3> QED
      BY <2>2, <3>1, <3>2 DEF Provenance, ProvUndone, ProvDb
  <2>4. CASE RaiseSavepoint(t)
    <3>1. ProvMade(t) /\ ProvSaved(t)
      BY <1>1, <2>2, <2>4, ScopesProvenance DEF RaiseSavepoint
    <3>2. ProvWrites(t)
      <4> DEFINE s == [writes |-> Top(t).saved, pending |-> {}, doomed |-> FALSE]
      <4>1. s \in Session
        BY <1>1, <2>2, Restored, Pieces
      <4>2. s.writes = Top(t).saved /\ IsReplace(sessions'[t], sessions[t], s)
        BY <2>4 DEF RaiseSavepoint
      <4> HIDE DEF s
      <4>3. \A k \in Rows : \E j \in DOMAIN frames[t] : s.writes[k] = F(t, j).saved[k]
        BY <2>2, <4>2
      <4> QED
        BY <1>1, <2>2, <4>1, <4>2, <4>3, SessionsProvenance
    <3> QED
      BY <2>2, <3>1, <3>2 DEF Provenance, ProvUndone, ProvDb
  <2>5. CASE RaiseJoined(t)
    <3>1. ProvMade(t) /\ ProvSaved(t)
      BY <1>1, <2>2, <2>5, ScopesProvenance DEF RaiseJoined
    <3>2. ProvWrites(t)
      <4>1. CASE sessions'[t] = sessions[t]
        BY <1>1, <4>1, SessionsProvenance
      <4>2. CASE IsReplace(sessions'[t], sessions[t],
                           [Current(t) EXCEPT !.pending = @ \union {Top(t).row}])
        <5> DEFINE s == [Current(t) EXCEPT !.pending = @ \union {Top(t).row}]
        <5>1. s.writes = Current(t).writes /\ IsReplace(sessions'[t], sessions[t], s)
          BY <2>2, <4>2 DEF Session
        <5>2. s \in Session
          <6>1. sessions'[t][Len(sessions'[t])] = s /\ Len(sessions'[t]) \in 1..Len(sessions'[t])
            BY <1>1, <2>2, <5>1, SameSessions, Typed DEF IsReplace, Current, Last
          <6> QED
            BY <6>1, TypedNext
        <5> HIDE DEF s
        <5>3. \A k \in Rows : s.writes[k] = Current(t).writes[k]
          BY <5>1
        <5> QED
          BY <1>1, <2>2, <5>1, <5>2, <5>3, SessionsProvenance
      <4> QED
        BY <2>5, <4>1, <4>2 DEF RaiseJoined
    <3> QED
      BY <2>2, <3>1, <3>2 DEF Provenance, ProvUndone, ProvDb
  <2> QED
    BY <2>1, <2>3, <2>4, <2>5
<1>12. CASE Swallow(t)
  <2>1. UNCHANGED <<frames, sessions, db, clock, undone>>
    BY <1>12 DEF Swallow
  <2>2. ProvMade(t) /\ ProvSaved(t) /\ ProvWrites(t)
    BY <1>1, <2>1, ScopesProvenance, SessionsProvenance
  <2> QED
    BY <2>1, <2>2 DEF Provenance, ProvUndone, ProvDb
<1>13. CASE ExitJoined(t) \/ ReleaseSavepoint(t)
  <2>1. /\ IsFront(frames'[t], frames[t]) /\ UNCHANGED <<sessions, db, clock, undone>> /\ Depth(t) # 0
    BY <1>13, ExitEffect, Inside DEF ExitJoined, ReleaseSavepoint, historyVars
  <2>2. ProvMade(t) /\ ProvSaved(t) /\ ProvWrites(t)
    BY <1>1, <2>1, ScopesProvenance, SessionsProvenance
  <2> QED
    BY <2>1, <2>2 DEF Provenance, ProvUndone, ProvDb
<1>14. CASE MidCommit(t)
  <2>1. /\ IsReplace(frames'[t], frames[t], [Top(t) EXCEPT !.made = {}])
        /\ IsReplace(sessions'[t], sessions[t], NewSession)
        /\ \A k \in Rows : db'[k] = IF Current(t).writes[k] # 0 THEN Current(t).writes[k] ELSE db[k]
    BY <1>14, MidCommitEffect
  <2>2. /\ UNCHANGED <<clock, undone>> /\ Depth(t) # 0 /\ Open(t) # 0 /\ Top(t) = F(t, Depth(t))
        /\ Top(t) \in Frame /\ F(t, Depth(t)).own /\ ~unwinding[t] /\ ~Draining(t)
    BY <1>14, Inside DEF MidCommit
  <2>3. ProvMade(t) /\ ProvSaved(t)
    <3> DEFINE f == [Top(t) EXCEPT !.made = {}]
    <3>1. f \in Frame /\ f.made = {} /\ f.saved = F(t, Depth(t)).saved /\ IsReplace(frames'[t], frames[t], f)
      BY <2>1, <2>2 DEF Frame
    <3> HIDE DEF f
    <3> QED
      BY <1>1, <2>2, <3>1, ScopesProvenance
  <2>4. ProvWrites(t)
    BY <1>1, <1>2, <2>1, <2>2, ClearedProvenance
  <2> QED
    BY <2>1, <2>2, <2>3, <2>4 DEF Provenance, ProvUndone, ProvDb
<1>15. CASE MidRollback(t)
  <2>1. frames' = frames /\ IsReplace(sessions'[t], sessions[t], NewSession)
    BY <1>15, MidRollbackEffect
  <2>2. /\ UNCHANGED <<db, clock>> /\ undone' = undone \union Top(t).made
        /\ Depth(t) # 0 /\ Open(t) # 0 /\ Top(t) = F(t, Depth(t)) /\ MayRaise(t, Depth(t))
    BY <1>15, Inside DEF MidRollback, MayRaise
  <2>3. ProvMade(t) /\ ProvSaved(t)
    BY <1>1, <2>1, ScopesProvenance
  <2>4. ProvWrites(t)
    BY <1>1, <1>2, <2>1, <2>2, ClearedProvenance
  <2> QED
    BY <2>2, <2>3, <2>4 DEF Provenance, ProvUndone, ProvDb
<1>16. CASE Commit(t) \/ CommitFails(t) \/ CommitLost(t)
  <2>1. PICK stage \in {"committed", "rolledback"} : Ends(t, stage)
    BY <1>16, CommitEffect
  <2>2. \/ \A k \in Rows : db'[k] = IF Current(t).writes[k] # 0 THEN Current(t).writes[k] ELSE db[k]
        \/ db' = db
    BY <1>16, CommitEffect
  <2>3. /\ clock' = clock /\ Depth(t) # 0 /\ Open(t) # 0 /\ Top(t) = F(t, Depth(t))
        /\ Top(t) \in Frame /\ F(t, Depth(t)).own /\ ~unwinding[t] /\ ~Draining(t)
        /\ MayRaise(t, Depth(t))
    BY <1>16, Inside DEF Commit, CommitFails, CommitLost, AtCommit, MayRaise
  <2>4. ProvMade(t) /\ ProvSaved(t)
    BY <1>1, <2>1, <2>3, StageProvenance DEF Ends
  <2>5. ProvWrites(t)
    BY <1>1, <1>2, <2>1, <2>3, ClearedProvenance DEF Ends
  <2>6. ProvUndone(t)
    <3>1. undone' = undone \/ (undone' = undone \union Top(t).made /\ db' = db)
      BY <1>16 DEF Commit, CommitFails, CommitLost
    <3> QED
      BY <2>3, <3>1 DEF ProvUndone
  <2>7. ProvDb(t)
    BY <2>2, <2>3 DEF ProvDb
  <2> QED
    BY <2>3, <2>4, <2>5, <2>6, <2>7 DEF Provenance
<1>17. CASE Close(t)
  <2>1. IsFront(sessions'[t], sessions[t]) /\ (CloseDraining(t) \/ CloseLeaving(t))
    BY <1>17, CloseEffect
  <2>2. /\ UNCHANGED <<db, clock, undone>> /\ Depth(t) # 0 /\ Open(t) # 0 /\ Top(t) = F(t, Depth(t))
        /\ Top(t) \in Frame
    BY <1>17, InEnded DEF Close, historyVars
  <2>3. ProvMade(t) /\ ProvSaved(t)
    <3>1. CASE CloseDraining(t)
      BY <1>1, <2>2, <3>1, StageProvenance DEF CloseDraining
    <3>2. CASE CloseLeaving(t)
      BY <1>1, <2>2, <3>2, ScopesProvenance DEF CloseLeaving
    <3> QED
      BY <2>1, <3>1, <3>2
  <2>4. ProvWrites(t)
    BY <1>1, <2>1, <2>2, SessionsProvenance
  <2> QED
    BY <2>2, <2>3, <2>4 DEF Provenance, ProvUndone, ProvDb
<1>18. CASE CloseCancelled(t)
  <2>1. IsFront(frames'[t], frames[t]) /\ IsReplace(sessions'[t], sessions[t], NewSession)
    BY <1>18, CloseCancelledEffect
  <2>2. UNCHANGED <<db, clock, undone>> /\ Depth(t) # 0 /\ Open(t) # 0
    BY <1>18, InEnded DEF CloseCancelled
  <2>3. ProvMade(t) /\ ProvSaved(t)
    BY <1>1, <2>1, <2>2, ScopesProvenance
  <2>4. ProvWrites(t)
    BY <1>1, <1>2, <2>1, <2>2, ClearedProvenance
  <2> QED
    BY <2>2, <2>3, <2>4 DEF Provenance, ProvUndone, ProvDb
<1>19. ASSUME NEW k \in Rows, Invalidate(t, k) \/ InvalidateFails(t, k) PROVE Provenance(t)
  <2>1. /\ sessions' = sessions /\ draining[t] # {}
        /\ frames'[t] = frames[t] \/ IsFront(frames'[t], frames[t])
    BY <1>19, InvalidateEffect
  <2>2. UNCHANGED <<db, clock, undone>> /\ Depth(t) # 0
    BY <1>19, <2>1, InDraining DEF Invalidate, InvalidateFails
  <2>3. ProvMade(t) /\ ProvSaved(t) /\ ProvWrites(t)
    BY <1>1, <2>1, <2>2, ScopesProvenance, SessionsProvenance
  <2> QED
    BY <2>2, <2>3 DEF Provenance, ProvUndone, ProvDb
<1> QED
  BY <1>4, <1>5, <1>6, <1>7, <1>8, <1>9, <1>10, <1>11, <1>12, <1>13, <1>14, <1>15,
     <1>16, <1>17, <1>18, <1>19 DEF Step

-----------------------------------------------------------------------------
(* Writes are numbered in the order they are made. *)

(* No write has a number that was not given out yet. *)
LEMMA NumberedStep ==
  ASSUME SInv, TypeOK', Numbered, NEW t \in Tasks, Sole(t), Provenance(t)
  PROVE  Numbered'
<1>1. /\ clock \in Nat /\ clock' \in Nat /\ clock <= clock' /\ 0 <= clock'
      /\ \A n : Fresh(n) => n \in 1..clock' /\ n <= clock'
      /\ \A n \in 1..clock : n \in 1..clock'
  BY DEF SInv, TypeOK, Writes, Provenance, Fresh
<1>2. /\ \A n \in Nat : n <= clock => n <= clock'
      /\ DOMAIN sessions[t] = 1..Open(t) /\ DOMAIN frames[t] = 1..Depth(t)
      /\ Open(t) # 0 => Open(t) \in 1..Open(t) /\ Current(t) = sessions[t][Open(t)]
      /\ Depth(t) # 0 => Depth(t) \in 1..Depth(t)
  BY <1>1, Typed DEF SInv, Current, Last, Open
<1>3. /\ \A k \in Rows : db[k] \in Nat /\ db[k] <= clock
      /\ \A u \in Tasks : \A i \in DOMAIN sessions[u] : \A k \in Rows :
           sessions[u][i].writes[k] \in Nat /\ sessions[u][i].writes[k] <= clock
      /\ \A u \in Tasks : \A i \in DOMAIN frames[u] :
           F(u, i).made \subseteq 1..clock
           /\ \A k \in Rows : F(u, i).saved[k] \in Nat /\ F(u, i).saved[k] <= clock
  <2>1. \A k \in Rows : db[k] \in Nat
    BY DEF SInv, TypeOK, Writes
  <2>2. \A u \in Tasks : \A i \in DOMAIN sessions[u] : \A k \in Rows :
           sessions[u][i].writes[k] \in Nat
    BY Typed, Pieces DEF SInv, Writes
  <2>3. \A u \in Tasks : \A i \in DOMAIN frames[u] : \A k \in Rows : F(u, i).saved[k] \in Nat
    BY Typed, Pieces DEF SInv, Writes
  <2> QED
    BY <2>1, <2>2, <2>3 DEF Numbered
<1>4. \A k \in Rows : db'[k] <= clock'
  BY <1>1, <1>2, <1>3 DEF Provenance, ProvDb
<1>5. undone' \subseteq 1..clock'
  BY <1>1, <1>2, <1>3 DEF Provenance, ProvUndone, Numbered
<1>6. \A u \in Tasks : \A i \in DOMAIN sessions'[u] : \A k \in Rows :
        sessions'[u][i].writes[k] <= clock'
  <2> SUFFICES ASSUME NEW u \in Tasks, NEW i \in DOMAIN sessions'[u], NEW k \in Rows
               PROVE  sessions'[u][i].writes[k] <= clock'
    OBVIOUS
  <2>1. CASE u = t
    BY <1>1, <1>2, <1>3, <2>1 DEF Provenance, ProvWrites
  <2>2. CASE u # t
    <3>1. sessions'[u] = sessions[u]
      BY <2>2 DEF Sole
    <3> QED
      BY <1>2, <1>3, <3>1
  <2> QED
    BY <2>1, <2>2
<1>7. \A u \in Tasks : \A i \in DOMAIN frames'[u] :
        frames'[u][i].made \subseteq 1..clock' /\ \A k \in Rows : frames'[u][i].saved[k] <= clock'
  <2> SUFFICES ASSUME NEW u \in Tasks, NEW i \in DOMAIN frames'[u]
               PROVE  /\ frames'[u][i].made \subseteq 1..clock'
                      /\ \A k \in Rows : frames'[u][i].saved[k] <= clock'
    OBVIOUS
  <2>1. CASE u = t
    <3>1. \A n \in frames'[t][i].made : n \in 1..clock'
      BY <1>1, <1>3, <2>1 DEF Provenance, ProvMade
    <3>2. \A k \in Rows : frames'[t][i].saved[k] <= clock'
      BY <1>1, <1>2, <1>3, <2>1 DEF Provenance, ProvSaved
    <3> QED
      BY <2>1, <3>1, <3>2
  <2>2. CASE u # t
    <3>1. frames'[u] = frames[u]
      BY <2>2 DEF Sole
    <3> QED
      BY <1>1, <1>2, <1>3, <3>1 DEF F
  <2> QED
    BY <2>1, <2>2
<1> QED
  BY <1>4, <1>5, <1>6, <1>7 DEF Numbered, F

(* At first there are no writes. *)
LEMMA NumberedInit ==
  ASSUME Init
  PROVE  Numbered
BY DEF Init, Numbered, NoWrites, F

-----------------------------------------------------------------------------
(* The writes of failed scopes stay out of the database. *)

Sober == taken \subseteq {"midCommit"}

(* A task that owns the session it is in is the one to commit it. *)
LEMMA OwnerWorks ==
  ASSUME SInv, "handlerWrites" \notin taken, NEW t \in Tasks,
         Depth(t) # 0, F(t, Depth(t)).own, ~Draining(t)
  PROVE  /\ Working(t) /\ Depth(t) = 1 /\ Open(t) = 1 /\ t \notin leaked
         /\ F(t, 1).token /\ region[t]
         /\ \A i \in DOMAIN frames[t] : i = 1 /\ F(t, i).kind # "savepoint"
<1>1. /\ DOMAIN frames[t] = 1..Depth(t) /\ Depth(t) \in 1..Depth(t)
      /\ Depth(t) \in Nat /\ Open(t) \in Nat /\ (sessions[t] = <<>> <=> Open(t) = 0)
  BY Typed DEF SInv
<1>2. Single(t)
  BY Shaped
<1>3. t \notin leaked
  BY <1>1, <1>2 DEF Single
<1>4. Open(t) <= 1 /\ Open(t) > 0 /\ Depth(t) <= Open(t) /\ region[t]
  BY <1>1, <1>2, <1>3, Owned DEF Single
<1>5. Depth(t) = 1 /\ Open(t) = 1
  BY <1>1, <1>4
<1>6. F(t, 1).token /\ F(t, 1).own
  BY <1>1, <1>3, <1>5, Owned
<1>7. F(t, 1).kind # "savepoint"
  BY <1>1, <1>5, <1>6, Shaped
<1> QED
  BY <1>1, <1>3, <1>4, <1>5, <1>6, <1>7 DEF Working

(* The numbers given out so far. *)
LEMMA Counted ==
  ASSUME SInv, Numbered
  PROVE  /\ \A k \in Rows : ~Fresh(db[k])
         /\ \A u \in Tasks, k \in Rows : Open(u) # 0 => ~Fresh(Current(u).writes[k])
         /\ \A u \in Tasks : \A i \in DOMAIN frames[u] : \A k \in Rows : ~Fresh(F(u, i).saved[k])
         /\ 0 \notin undone
         /\ \A u \in Tasks : \A i \in DOMAIN frames[u] : 0 \notin F(u, i).made
<1>1. clock \in Nat /\ \A n \in Nat : n <= clock => ~Fresh(n)
  BY DEF SInv, TypeOK, Writes, Fresh
<1>2. \A k \in Rows : db[k] \in Nat
  BY DEF SInv, TypeOK, Writes
<1>3. \A u \in Tasks : \A i \in DOMAIN frames[u] : \A k \in Rows : F(u, i).saved[k] \in Nat
  BY Typed, Pieces DEF SInv, Writes
<1>4. \A u \in Tasks, k \in Rows : Open(u) # 0 =>
        Current(u).writes[k] \in Nat /\ Current(u).writes[k] <= clock
  <2> SUFFICES ASSUME NEW u \in Tasks, NEW k \in Rows, Open(u) # 0
               PROVE  Current(u).writes[k] \in Nat /\ Current(u).writes[k] <= clock
    OBVIOUS
  <2>1. /\ Open(u) \in DOMAIN sessions[u] /\ Current(u) = sessions[u][Open(u)]
        /\ Current(u) \in Session
    BY Typed DEF SInv, Current, Last, Open
  <2>2. Current(u).writes \in [Rows -> Writes]
    BY <2>1, Pieces DEF SInv
  <2> QED
    BY <2>1, <2>2 DEF Numbered, Writes
<1>5. 0 \notin 1..clock
  BY <1>1
<1> QED
  BY <1>1, <1>2, <1>3, <1>4, <1>5 DEF Numbered

(* Another task's step does not mix its writes with those of this one. *)
LEMMA OthersSeparate ==
  ASSUME SInv, TypeOK', Numbered, NInv, NEW t \in Tasks, Sole(t), Provenance(t),
         leaked \subseteq leaked', leaked' \subseteq leaked \union {t}, taken \subseteq taken', Sober',
         NEW u \in Tasks \ {t}
  PROVE  Separate(u)'
<1>1. /\ frames'[u] = frames[u] /\ sessions'[u] = sessions[u] /\ unwinding'[u] = unwinding[u]
      /\ u \in leaked' <=> u \in leaked
      /\ \A i : F(u, i)' = F(u, i)
      /\ Working(u)' <=> Working(u)
      /\ Current(u)' = Current(u)
  BY DEF Sole, Working, Current, F
<1>2. Sober /\ "handlerWrites" \notin taken /\ Separate(u) /\ Separate(t)
  BY DEF Sober, NInv
<1>3. \A k \in Rows : \/ db'[k] = db[k]
                      \/ /\ SeparateWrites(t) /\ db'[k] = Current(t).writes[k] /\ Open(t) # 0
  BY <1>2, OwnerWorks DEF Provenance, ProvDb, Separate
<1>4. SeparateScopes(u)'
  <2>1. SeparateScopes(u)
    BY <1>2 DEF Separate
  <2>2. \A i \in DOMAIN frames[u], k \in Rows : MayRaise(u, i) => db'[k] \notin F(u, i).made
    <3> SUFFICES ASSUME NEW i \in DOMAIN frames[u], NEW k \in Rows, MayRaise(u, i)
                 PROVE  db'[k] \notin F(u, i).made
      OBVIOUS
    <3>1. CASE db'[k] = db[k]
      BY <2>1, <3>1 DEF SeparateScopes
    <3>2. CASE SeparateWrites(t) /\ db'[k] = Current(t).writes[k]
      BY <3>2 DEF SeparateWrites
    <3> QED
      BY <1>3, <3>1, <3>2
  <2> QED
    BY <1>1, <2>1, <2>2 DEF SeparateScopes, MayRaise
<1>5. Working(u)' => SeparateWrites(u)'
  <2> SUFFICES ASSUME Working(u) PROVE SeparateWrites(u)'
    BY <1>1
  <2>1. SeparateWrites(u) /\ Open(u) # 0
    BY <1>2, Typed DEF Separate, Working, SInv
  <2>2. \A k \in Rows : \A j \in DOMAIN frames'[t] : Current(u).writes[k] \notin frames'[t][j].made
    BY <2>1, Counted DEF SeparateWrites, Provenance, ProvMade
  <2>3. ~unwinding[u] => \A k \in Rows : Current(u).writes[k] \notin undone'
    <3> SUFFICES ASSUME ~unwinding[u], NEW k \in Rows PROVE Current(u).writes[k] \notin undone'
      OBVIOUS
    <3>1. Current(u).writes[k] \notin undone /\ ~Fresh(Current(u).writes[k])
      BY <2>1, Counted DEF SeparateWrites
    <3>2. Depth(t) # 0 => Current(u).writes[k] \notin F(t, Depth(t)).made
      BY <2>1, Typed DEF SeparateWrites, SInv
    <3> QED
      BY <3>1, <3>2 DEF Provenance, ProvUndone
  <2>4. \A k \in Rows, v \in Tasks \ {u} : \A j \in DOMAIN frames'[v] :
           Current(u).writes[k] \notin frames'[v][j].made
    <3> SUFFICES ASSUME NEW k \in Rows, NEW v \in Tasks \ {u}, NEW j \in DOMAIN frames'[v]
                 PROVE  Current(u).writes[k] \notin frames'[v][j].made
      OBVIOUS
    <3>1. CASE v = t
      BY <2>2, <3>1
    <3>2. CASE v # t
      BY <2>1, <3>2 DEF SeparateWrites, Sole, F
    <3> QED
      BY <3>1, <3>2
  <2> QED
    BY <1>1, <2>1, <2>3, <2>4 DEF SeparateWrites, F
<1>6. Working(u)' => SeparateSaved(u)'
  <2> SUFFICES ASSUME Working(u), NEW i \in DOMAIN frames[u], NEW k \in Rows, F(u, i).kind = "savepoint"
               PROVE  /\ F(u, i).saved[k] \notin undone' /\ F(u, i).saved[k] \notin F(u, i).made
                      /\ \A v \in Tasks \ {u} : \A j \in DOMAIN frames'[v] :
                            F(u, i).saved[k] \notin frames'[v][j].made
    BY <1>1 DEF SeparateSaved, F
  <2>1. /\ F(u, i).saved[k] \notin undone /\ F(u, i).saved[k] \notin F(u, i).made
        /\ \A v \in Tasks \ {u} : \A j \in DOMAIN frames[v] : F(u, i).saved[k] \notin F(v, j).made
        /\ ~Fresh(F(u, i).saved[k])
    BY <1>2, Counted DEF Separate, SeparateSaved
  <2>2. Depth(t) # 0 => F(u, i).saved[k] \notin F(t, Depth(t)).made
    BY <2>1, Typed DEF SInv
  <2>3. F(u, i).saved[k] \notin undone'
    BY <2>1, <2>2 DEF Provenance, ProvUndone
  <2>4. ASSUME NEW v \in Tasks \ {u}, NEW j \in DOMAIN frames'[v]
        PROVE  F(u, i).saved[k] \notin frames'[v][j].made
    <3>1. CASE v = t
      BY <2>1, <2>4, <3>1 DEF Provenance, ProvMade
    <3>2. CASE v # t
      BY <2>1, <3>2 DEF Sole, F
    <3> QED
      BY <3>1, <3>2
  <2> QED
    BY <2>1, <2>3, <2>4
<1> QED
  BY <1>4, <1>5, <1>6 DEF Separate

(* The database stays free of the writes of failed scopes. *)
LEMMA DbStaysClean ==
  ASSUME SInv, Numbered, NInv, NEW t \in Tasks, Provenance(t), taken \subseteq taken', Sober'
  PROVE  \A k \in Rows : db'[k] \notin undone'
<1>1. Sober /\ "handlerWrites" \notin taken /\ Separate(t) /\ \A k \in Rows : db[k] \notin undone
  BY DEF Sober, NInv
<1> SUFFICES ASSUME NEW k \in Rows PROVE db'[k] \notin undone'
  OBVIOUS
<1>2. Depth(t) # 0 => Depth(t) \in DOMAIN frames[t]
  BY Typed DEF SInv
<1>3. CASE db'[k] = db[k]
  <2>1. db[k] \notin undone /\ ~Fresh(db[k])
    BY <1>1, Counted
  <2>2. Depth(t) # 0 /\ MayRaise(t, Depth(t)) => db[k] \notin F(t, Depth(t)).made
    BY <1>1, <1>2 DEF Separate, SeparateScopes
  <2> QED
    BY <1>3, <2>1, <2>2 DEF Provenance, ProvUndone
<1>4. CASE db'[k] # db[k]
  <2>1. /\ Depth(t) # 0 /\ F(t, Depth(t)).own /\ ~Draining(t) /\ ~unwinding[t] /\ Open(t) # 0
        /\ db'[k] = Current(t).writes[k]
    BY <1>4 DEF Provenance, ProvDb
  <2>2. SeparateWrites(t)
    BY <1>1, <2>1, OwnerWorks DEF Separate
  <2>3. db'[k] \notin undone /\ ~Fresh(db'[k])
    BY <2>1, <2>2, Counted DEF SeparateWrites
  <2> QED
    BY <1>4, <2>3 DEF Provenance, ProvUndone
<1> QED
  BY <1>3, <1>4

-----------------------------------------------------------------------------
(* What a step of the task itself keeps. *)

(* Scopes that are left, entered or go on keep their writes apart. *)
LEMMA ScopesSeparate ==
  ASSUME TypeOK, TypeOK', NEW t \in Tasks, SeparateScopes(t), db' = db,
         \/ frames'[t] = frames[t]
         \/ Depth(t) # 0 /\ IsFront(frames'[t], frames[t])
         \/ \E f : /\ Depth(t) # 0 /\ IsReplace(frames'[t], frames[t], f)
                   /\ f.made = F(t, Depth(t)).made
                   /\ f.stage \in {"body", "pre", "post", "commit"} => MayRaise(t, Depth(t))
         \/ \E f : IsAppend(frames'[t], frames[t], f) /\ f.made = {}
  PROVE  SeparateScopes(t)'
<1>1. CASE \A j \in DOMAIN frames'[t] :
             \/ /\ j \in DOMAIN frames[t] /\ frames'[t][j].made = F(t, j).made
                /\ frames'[t][j].stage \in {"body", "pre", "post", "commit"} => MayRaise(t, j)
             \/ frames'[t][j].made = {} /\ \A i \in DOMAIN frames'[t] : j <= i => i = j
  <2>1. ASSUME NEW i \in DOMAIN frames'[t], NEW j \in DOMAIN frames'[t], i <= j
        PROVE  frames'[t][j].made \subseteq frames'[t][i].made
    <3>1. CASE frames'[t][j].made = {}
      BY <3>1
    <3>2. CASE i # j /\ frames'[t][j].made # {}
      <4>1. i \in DOMAIN frames[t] /\ frames'[t][i].made = F(t, i).made
        BY <1>1, <2>1, <3>2
      <4>2. j \in DOMAIN frames[t] /\ frames'[t][j].made = F(t, j).made
        BY <1>1, <3>2
      <4> QED
        BY <2>1, <4>1, <4>2 DEF SeparateScopes
    <3> QED
      BY <3>1, <3>2
  <2>2. ASSUME NEW i \in DOMAIN frames'[t], NEW k \in Rows,
               frames'[t][i].stage \in {"body", "pre", "post", "commit"}
        PROVE  db[k] \notin frames'[t][i].made
    BY <1>1, <2>2 DEF SeparateScopes
  <2> QED
    BY <2>1, <2>2 DEF SeparateScopes, MayRaise, F
<1>2. CASE frames'[t] = frames[t]
  <2>1. \A j \in DOMAIN frames'[t] :
          /\ j \in DOMAIN frames[t] /\ frames'[t][j].made = F(t, j).made
          /\ frames'[t][j].stage \in {"body", "pre", "post", "commit"} => MayRaise(t, j)
    BY <1>2 DEF F, MayRaise
  <2> QED
    BY <1>1, <2>1
<1>3. CASE Depth(t) # 0 /\ IsFront(frames'[t], frames[t])
  <2>1. \A j \in DOMAIN frames'[t] : j \in DOMAIN frames[t] /\ frames'[t][j] = F(t, j)
    BY <1>3, Shorter
  <2>2. \A j \in DOMAIN frames'[t] :
          /\ j \in DOMAIN frames[t] /\ frames'[t][j].made = F(t, j).made
          /\ frames'[t][j].stage \in {"body", "pre", "post", "commit"} => MayRaise(t, j)
    BY <2>1 DEF MayRaise
  <2> QED
    BY <1>1, <2>2
<1>4. ASSUME NEW f, Depth(t) # 0, IsReplace(frames'[t], frames[t], f), f.made = F(t, Depth(t)).made,
             f.stage \in {"body", "pre", "post", "commit"} => MayRaise(t, Depth(t))
      PROVE  SeparateScopes(t)'
  <2>1. /\ DOMAIN frames'[t] = DOMAIN frames[t]
        /\ \A j \in DOMAIN frames'[t] :
             \/ j = Depth(t) /\ frames'[t][j] = f
             \/ frames'[t][j] = F(t, j)
    BY <1>4, Altered
  <2>2. \A j \in DOMAIN frames'[t] :
          /\ j \in DOMAIN frames[t] /\ frames'[t][j].made = F(t, j).made
          /\ frames'[t][j].stage \in {"body", "pre", "post", "commit"} => MayRaise(t, j)
    BY <1>4, <2>1 DEF MayRaise
  <2> QED
    BY <1>1, <2>2
<1>5. ASSUME NEW f, IsAppend(frames'[t], frames[t], f), f.made = {}
      PROVE  SeparateScopes(t)'
  <2>1. /\ DOMAIN frames'[t] = 1..(Depth(t) + 1) /\ DOMAIN frames[t] = 1..Depth(t) /\ Depth(t) \in Nat
        /\ \A j \in DOMAIN frames'[t] :
             \/ j = Depth(t) + 1 /\ frames'[t][j] = f
             \/ j \in DOMAIN frames[t] /\ frames'[t][j] = F(t, j)
    <3>1. /\ DOMAIN frames'[t] = 1..(Depth(t) + 1) /\ DOMAIN frames[t] = 1..Depth(t) /\ Depth(t) \in Nat
          /\ frames'[t][Depth(t) + 1] = f
          /\ \A i \in 1..(Depth(t) + 1) :
               i = Depth(t) + 1 \/ (i \in 1..Depth(t) /\ frames'[t][i] = F(t, i))
      BY <1>5, Longer
    <3> QED
      BY <3>1
  <2>2. \A j \in DOMAIN frames'[t] : j = Depth(t) + 1 => \A i \in DOMAIN frames'[t] : j <= i => i = j
    BY <2>1
  <2>3. \A j \in DOMAIN frames'[t] :
             \/ /\ j \in DOMAIN frames[t] /\ frames'[t][j].made = F(t, j).made
                /\ frames'[t][j].stage \in {"body", "pre", "post", "commit"} => MayRaise(t, j)
             \/ frames'[t][j].made = {} /\ \A i \in DOMAIN frames'[t] : j <= i => i = j
    BY <1>5, <2>1, <2>2 DEF MayRaise
  <2> QED
    BY <1>1, <2>3
<1> QED
  BY <1>2, <1>3, <1>4, <1>5

(* A session without writes has none to keep apart. *)
LEMMA FreshSeparate ==
  ASSUME TypeOK', Numbered', NEW t \in Tasks, Current(t)' = NewSession
  PROVE  SeparateWrites(t)'
<1>1. /\ NewSession.pending = {} /\ \A k \in Rows : NewSession.writes[k] = 0
  BY DEF NewSession, NoWrites
<1>2. clock' \in Nat /\ 0 \notin 1..clock'
  BY DEF TypeOK, Writes
<1>3. 0 \notin undone' /\ \A u \in Tasks : \A j \in DOMAIN frames'[u] : 0 \notin F(u, j)'.made
  BY <1>2 DEF Numbered
<1> QED
  BY <1>1, <1>3 DEF SeparateWrites

(* The writes that savepoints would restore stay apart. *)
LEMMA SavedSeparate ==
  ASSUME SInv, Numbered, NEW t \in Tasks, Sole(t), Provenance(t),
         SeparateScopes(t), SeparateSaved(t),
         \A j \in DOMAIN frames'[t] : frames'[t][j].kind = "savepoint" =>
           /\ j \in DOMAIN frames[t] /\ F(t, j).kind = "savepoint"
           /\ frames'[t][j].saved = F(t, j).saved
  PROVE  SeparateSaved(t)'
<1> SUFFICES ASSUME NEW i \in DOMAIN frames'[t], NEW k \in Rows, frames'[t][i].kind = "savepoint"
             PROVE  /\ frames'[t][i].saved[k] \notin undone' /\ frames'[t][i].saved[k] \notin frames'[t][i].made
                    /\ \A u \in Tasks \ {t} : \A j \in DOMAIN frames'[u] :
                         frames'[t][i].saved[k] \notin frames'[u][j].made
  BY DEF SeparateSaved, F
<1>1. i \in DOMAIN frames[t] /\ F(t, i).kind = "savepoint" /\ frames'[t][i].saved[k] = F(t, i).saved[k]
  OBVIOUS
<1>2. /\ F(t, i).saved[k] \notin undone /\ F(t, i).saved[k] \notin F(t, i).made
      /\ \A u \in Tasks \ {t} : \A j \in DOMAIN frames[u] : F(t, i).saved[k] \notin F(u, j).made
      /\ ~Fresh(F(t, i).saved[k])
  BY <1>1, Counted DEF SeparateSaved
<1>3. Depth(t) # 0 => F(t, Depth(t)).made \subseteq F(t, i).made
  <2>1. DOMAIN frames[t] = 1..Depth(t) /\ Depth(t) \in Nat /\ (Depth(t) # 0 => Depth(t) \in 1..Depth(t))
    BY Typed DEF SInv
  <2>2. i <= Depth(t)
    BY <1>1, <2>1
  <2> QED
    BY <1>1, <2>1, <2>2 DEF SeparateScopes
<1>4. F(t, i).saved[k] \notin undone'
  BY <1>2, <1>3 DEF Provenance, ProvUndone
<1>5. F(t, i).saved[k] \notin frames'[t][i].made
  BY <1>2 DEF Provenance, ProvMade
<1>6. \A u \in Tasks \ {t} : \A j \in DOMAIN frames'[u] : F(t, i).saved[k] \notin frames'[u][j].made
  BY <1>2 DEF Sole, F
<1> QED
  BY <1>1, <1>4, <1>5, <1>6

(* So do those of a session that is left alone. *)
LEMMA WritesSeparate ==
  ASSUME NEW t \in Tasks, Sole(t), SeparateWrites(t), Current(t)'.writes = Current(t).writes,
         \/ unwinding'[t]
         \/ ~unwinding[t] /\ undone' = undone /\ Current(t)'.pending = Current(t).pending
  PROVE  SeparateWrites(t)'
<1>1. \A k \in Rows, u \in Tasks \ {t} : \A j \in DOMAIN frames'[u] :
        Current(t)'.writes[k] \notin frames'[u][j].made
  BY DEF SeparateWrites, Sole, F
<1>2. CASE unwinding'[t]
  BY <1>1, <1>2 DEF SeparateWrites, F
<1>3. CASE ~unwinding[t] /\ undone' = undone /\ Current(t)'.pending = Current(t).pending
  BY <1>1, <1>3 DEF SeparateWrites, F
<1> QED
  BY <1>2, <1>3

(* A session without writes, and scopes without savepoints, owe nothing. *)
LEMMA FreshQueues ==
  ASSUME NEW t \in Tasks, Current(t)' = NewSession,
         \A j \in DOMAIN frames'[t] : frames'[t][j].kind # "savepoint"
  PROVE  Queues(t)'
<1>1. \A k \in Rows : NewSession.writes[k] = 0
  BY DEF NewSession, NoWrites
<1> QED
  BY <1>1 DEF Queues, F

(* A scope that still has to queue its row goes on to, or queues it now. *)
StillAwaits(t) ==
  /\ queued[t] \subseteq queued'[t]
  /\ \A j \in DOMAIN frames[t] : F(t, j).stage = "post" =>
       \/ F(t, j).row \in queued'[t]
       \/ /\ j \in DOMAIN frames'[t] /\ frames'[t][j].stage = "post"
          /\ frames'[t][j].row = F(t, j).row

(* Nothing is lost of what was queued or going to be. *)
LEMMA AwaitsStays ==
  ASSUME NEW t \in Tasks, StillAwaits(t), NEW i, NEW k, k \in queued[t] \/ Awaits(t, i, k)
  PROVE  k \in queued'[t] \/ Awaits(t, i, k)'
<1>1. CASE k \in queued[t]
  BY <1>1 DEF StillAwaits
<1>2. CASE Awaits(t, i, k)
  <2>1. PICK j \in DOMAIN frames[t] : j <= i /\ F(t, j).stage = "post" /\ F(t, j).row = k
    BY <1>2 DEF Awaits
  <2>2. \/ k \in queued'[t]
        \/ j \in DOMAIN frames'[t] /\ frames'[t][j].stage = "post" /\ frames'[t][j].row = k
    BY <2>1 DEF StillAwaits
  <2> QED
    BY <2>1, <2>2 DEF Awaits, F
<1> QED
  BY <1>1, <1>2

(* A task that writes nothing more owes nothing more. *)
LEMMA QueuesStay ==
  ASSUME TypeOK', NEW t \in Tasks, Queues(t), Working(t)' => Working(t), StillAwaits(t),
         \/ unwinding'[t]
         \/ ~unwinding[t] /\ Current(t)'.writes = Current(t).writes,
         \A j \in DOMAIN frames'[t] : frames'[t][j].kind = "savepoint" =>
           /\ j \in DOMAIN frames[t] /\ F(t, j).kind = "savepoint"
           /\ frames'[t][j].saved = F(t, j).saved
  PROVE  Queues(t)'
<1> SUFFICES ASSUME Working(t)' PROVE
      /\ ~unwinding'[t] => \A k \in Rows : Current(t)'.writes[k] # 0 =>
           k \in queued'[t] \/ \E i \in DOMAIN frames'[t] : Awaits(t, i, k)'
      /\ \A i \in DOMAIN frames'[t], k \in Rows :
           frames'[t][i].kind = "savepoint" /\ frames'[t][i].saved[k] # 0 =>
             k \in queued'[t] \/ Awaits(t, i, k)'
  BY DEF Queues, F
<1>1. Working(t)
  OBVIOUS
<1>2. ASSUME ~unwinding'[t], NEW k \in Rows, Current(t)'.writes[k] # 0, k \notin queued'[t]
      PROVE  \E i \in DOMAIN frames'[t] : Awaits(t, i, k)'
  <2>1. k \in queued[t] \/ \E i \in DOMAIN frames[t] : Awaits(t, i, k)
    BY <1>1, <1>2 DEF Queues
  <2>2. PICK i : Awaits(t, i, k)'
    BY <1>2, <2>1, AwaitsStays
  <2>3. PICK j \in DOMAIN frames'[t] : frames'[t][j].stage = "post" /\ frames'[t][j].row = k
    BY <2>2 DEF Awaits, F
  <2>4. j <= j
    BY TypedNext
  <2>5. Awaits(t, j, k)'
    BY <2>3, <2>4 DEF Awaits, F
  <2> QED
    BY <2>3, <2>5
<1>3. ASSUME NEW i \in DOMAIN frames'[t], NEW k \in Rows,
             frames'[t][i].kind = "savepoint", frames'[t][i].saved[k] # 0
      PROVE  k \in queued'[t] \/ Awaits(t, i, k)'
  <2>1. k \in queued[t] \/ Awaits(t, i, k)
    BY <1>1, <1>3 DEF Queues
  <2> QED
    BY <2>1, AwaitsStays
<1> QED
  BY <1>2, <1>3

-----------------------------------------------------------------------------
(* A step keeps the writes of the task that takes it apart and accounted for. *)

Own(t) == (Sober' => Separate(t)') /\ (taken' = {} => Queues(t)')

(* What is known before a step, and of the step whatever it is. *)
Given(t) ==
  /\ IInv /\ SInv' /\ Numbered' /\ t \in Tasks /\ Sole(t) /\ Provenance(t)
  /\ leaked \subseteq leaked' /\ leaked' \subseteq leaked \union {t} /\ taken \subseteq taken'

(* What a step of task t may take for granted, when Given(t) holds. *)
LEMMA Known ==
  ASSUME NEW t, Given(t)
  PROVE  /\ TypeOK /\ TypeOK' /\ SInv /\ Numbered /\ t \in Tasks /\ Sole(t) /\ Provenance(t)
         /\ Sober' => /\ Sober /\ "handlerWrites" \notin taken /\ "handlerWrites" \notin taken'
                      /\ Separate(t) /\ SeparateScopes(t)
                      /\ Working(t) => SeparateWrites(t) /\ SeparateSaved(t)
         /\ taken' = {} => Sober' /\ Queues(t)
<1>1. Sober' => Sober /\ "handlerWrites" \notin taken /\ "handlerWrites" \notin taken'
  BY DEF Given, Sober
<1>2. Sober => Separate(t)
  BY DEF Given, IInv, NInv, Sober
<1>3. taken' = {} => taken = {} /\ Sober'
  BY DEF Given, Sober
<1> QED
  BY <1>1, <1>2, <1>3 DEF Given, IInv, SInv, QInv, Separate

(* The task goes on with the writes it has, or has none to commit. *)
LEMMA QuietOwn ==
  ASSUME NEW t, Given(t), db' = db,
         \/ frames'[t] = frames[t]
         \/ Depth(t) # 0 /\ IsFront(frames'[t], frames[t])
         \/ \E f : /\ Depth(t) # 0 /\ IsReplace(frames'[t], frames[t], f)
                   /\ f.made = F(t, Depth(t)).made
                   /\ f.stage \in {"body", "pre", "post", "commit"} => MayRaise(t, Depth(t))
         \/ \E f : IsAppend(frames'[t], frames[t], f) /\ f.made = {},
         Sober' /\ Working(t)' =>
           /\ Working(t) /\ StillAwaits(t) /\ Current(t)'.writes = Current(t).writes
           /\ \/ unwinding'[t]
              \/ ~unwinding[t] /\ undone' = undone /\ Current(t)'.pending = Current(t).pending
           /\ \A j \in DOMAIN frames'[t] : frames'[t][j].kind = "savepoint" =>
                /\ j \in DOMAIN frames[t] /\ F(t, j).kind = "savepoint"
                /\ frames'[t][j].saved = F(t, j).saved
  PROVE  Own(t)
<1>1. ASSUME Sober' PROVE SeparateScopes(t)'
  BY <1>1, Known, ScopesSeparate
<1>2. ASSUME Sober', Working(t)' PROVE SeparateWrites(t)'
  BY <1>2, Known, WritesSeparate
<1>3. ASSUME Sober', Working(t)' PROVE SeparateSaved(t)'
  BY <1>3, Known, SavedSeparate
<1>4. ASSUME taken' = {} PROVE Queues(t)'
  <2>1. CASE Working(t)'
    BY <1>4, <2>1, Known, QueuesStay
  <2>2. CASE ~Working(t)'
    BY <2>2 DEF Queues
  <2> QED
    BY <2>1, <2>2
<1> QED
  BY <1>1, <1>2, <1>3, <1>4 DEF Own, Separate

(* The task starts over with a session of no writes, outside any savepoint. *)
LEMMA FreshOwn ==
  ASSUME NEW t, Given(t),
         Sober' => /\ SeparateScopes(t)' /\ Current(t)' = NewSession
                   /\ \A j \in DOMAIN frames'[t] : frames'[t][j].kind # "savepoint"
  PROVE  Own(t)
<1>1. ASSUME Sober' PROVE SeparateWrites(t)'
  BY <1>1, Known, FreshSeparate DEF Given
<1>2. ASSUME Sober' PROVE SeparateSaved(t)'
  BY <1>2 DEF SeparateSaved, F
<1>3. ASSUME taken' = {} PROVE Queues(t)'
  BY <1>3, Known, FreshQueues
<1> QED
  BY <1>1, <1>2, <1>3 DEF Own, Separate

(* Tasks that do not work have nothing to keep apart but their scopes. *)
LEMMA IdleOwn ==
  ASSUME NEW t, Given(t), Sober' => ~Working(t)' /\ SeparateScopes(t)'
  PROVE  Own(t)
BY Known DEF Own, Separate, Queues

(* A block or a write is entered. *)
LEMMA EnterOwn ==
  ASSUME NEW t, Given(t), NEW kind \in {"uow", "write"}, NEW stage \in {"body", "pre"},
         NEW row \in Rows \union {NoRow}, Enter(t, kind, stage, row),
         ambient' \in [Tasks -> BOOLEAN], \A u \in Tasks \ {t} : ambient'[u] = ambient[u]
  PROVE  Own(t)
<1> DEFINE f == Scope(t, kind, stage, row)
<1>1. /\ TypeOK /\ TypeOK' /\ SInv /\ t \in Tasks
  BY Known
<1>2. /\ IsAppend(frames'[t], frames[t], f)
      /\ IF ambient[t] THEN sessions'[t] = sessions[t]
         ELSE IsAppend(sessions'[t], sessions[t], NewSession)
      /\ queued'[t] = queued[t]
  BY <1>1, EnterEffect
<1>3. /\ f.made = {} /\ f.kind = kind /\ (f.own <=> ~ambient[t])
      /\ UNCHANGED <<db, undone, leaked, unwinding>> /\ ~unwinding[t] /\ MayEnter(t)
  <2>1. ambient[t] \in BOOLEAN
    BY <1>1, Typed
  <2> QED
    BY <2>1 DEF Scope, Enter, MayEnter
<1> HIDE DEF f
<1>4. /\ DOMAIN frames'[t] = 1..(Depth(t) + 1) /\ DOMAIN frames[t] = 1..Depth(t) /\ Depth(t) \in Nat
      /\ frames'[t][Depth(t) + 1] = f
      /\ \A i \in 1..(Depth(t) + 1) :
            i = Depth(t) + 1 \/ (i \in 1..Depth(t) /\ frames'[t][i] = F(t, i))
  BY <1>1, <1>2, Longer
<1>5. CASE ambient[t]
  <2>1. sessions'[t] = sessions[t] /\ Current(t)' = Current(t) /\ (Working(t)' <=> Working(t))
    BY <1>2, <1>3, <1>5 DEF Current, Working
  <2>2. StillAwaits(t)
    <3>1. \A j \in 1..Depth(t) : j \in 1..(Depth(t) + 1) /\ j # Depth(t) + 1
      BY <1>4
    <3> QED
      BY <1>2, <1>4, <3>1 DEF StillAwaits
  <2>3. \A j \in DOMAIN frames'[t] : frames'[t][j].kind = "savepoint" =>
           /\ j \in DOMAIN frames[t] /\ F(t, j).kind = "savepoint"
           /\ frames'[t][j].saved = F(t, j).saved
    BY <1>3, <1>4
  <2> QED
    BY <1>2, <1>3, <2>1, <2>2, <2>3, QuietOwn
<1>6. CASE ~ambient[t]
  <2> SUFFICES ASSUME Sober'
               PROVE  /\ SeparateScopes(t)' /\ Current(t)' = NewSession
                      /\ \A j \in DOMAIN frames'[t] : frames'[t][j].kind # "savepoint"
    BY FreshOwn
  <2>1. Current(t)' = NewSession /\ Len(sessions'[t]) = Open(t) + 1 /\ Open(t) \in Nat
    BY <1>1, <1>2, <1>6, MoreSessions
  <2>2. SeparateScopes(t)'
    BY <1>1, <1>2, <1>3, Known, ScopesSeparate
  <2>3. "handlerWrites" \notin taken' /\ Single(t)'
    BY <1>1, Known DEF Given, SInv, Shape
  <2>4. t \notin leaked
    <3>1. Depth(t) + 1 \in DOMAIN frames'[t] /\ frames'[t][Depth(t) + 1].own
      BY <1>3, <1>4, <1>6
    <3> QED
      BY <1>3, <2>3, <3>1 DEF Single, F
  <2>5. Open(t) = 0
    BY <1>3, <2>1, <2>3, <2>4 DEF Single, Open
  <2>6. ~Draining(t)
    <3>1. CASE frames[t] = <<>>
      BY <3>1 DEF Draining
    <3>2. CASE frames[t] # <<>>
      BY <1>1, <1>3, <3>2, Inside DEF MayEnter, InBlock, InHandler
    <3> QED
      BY <3>1, <3>2
  <2>7. Depth(t) = 0
    BY <1>1, <2>4, <2>5, <2>6, Owned
  <2>8. \A j \in DOMAIN frames'[t] : frames'[t][j].kind # "savepoint"
    BY <1>3, <1>4, <2>7
  <2> QED
    BY <2>1, <2>2, <2>8
<1> QED
  BY <1>5, <1>6

(* A savepoint remembers the writes of the session. *)
LEMMA SavepointOwn ==
  ASSUME NEW t, Given(t), EnterSavepoint(t)
  PROVE  Own(t)
<1> DEFINE f == Savepoint(t)
<1>1. /\ TypeOK /\ TypeOK' /\ SInv /\ Numbered /\ t \in Tasks /\ Sole(t) /\ Provenance(t)
  BY Known
<1>2. /\ IsAppend(frames'[t], frames[t], f) /\ UNCHANGED <<sessions, queued, unwinding>>
      /\ UNCHANGED <<db, undone, leaked, taken>> /\ ~unwinding[t]
  BY <1>1, SavepointEffect DEF EnterSavepoint, MayEnter, historyVars
<1>3. f.made = {} /\ f.kind = "savepoint" /\ f.saved = Current(t).writes /\ f.stage = "body"
  BY DEF Savepoint
<1> HIDE DEF f
<1>4. /\ DOMAIN frames'[t] = 1..(Depth(t) + 1) /\ DOMAIN frames[t] = 1..Depth(t) /\ Depth(t) \in Nat
      /\ frames'[t][Depth(t) + 1] = f
      /\ \A i \in 1..(Depth(t) + 1) :
            i = Depth(t) + 1 \/ (i \in 1..Depth(t) /\ frames'[t][i] = F(t, i))
  BY <1>1, <1>2, Longer
<1>5. Current(t)' = Current(t) /\ (Working(t)' <=> Working(t))
  BY <1>2 DEF Current, Working
<1>6. StillAwaits(t)
  <2>1. \A j \in 1..Depth(t) : j \in 1..(Depth(t) + 1) /\ j # Depth(t) + 1
    BY <1>4
  <2> QED
    BY <1>2, <1>4, <2>1 DEF StillAwaits
<1>7. ASSUME Sober' PROVE SeparateScopes(t)'
  BY <1>1, <1>2, <1>3, <1>7, Known, ScopesSeparate
<1>8. ASSUME Sober', Working(t)' PROVE SeparateWrites(t)'
  BY <1>1, <1>2, <1>5, <1>8, Known, WritesSeparate
<1>9. ASSUME Sober', Working(t)' PROVE SeparateSaved(t)'
  <2>1. SeparateWrites(t) /\ SeparateSaved(t)
    BY <1>5, <1>9, Known
  <2> SUFFICES ASSUME NEW i \in DOMAIN frames'[t], NEW k \in Rows, frames'[t][i].kind = "savepoint"
               PROVE  /\ frames'[t][i].saved[k] \notin undone
                      /\ frames'[t][i].saved[k] \notin frames'[t][i].made
                      /\ \A u \in Tasks \ {t} : \A j \in DOMAIN frames'[u] :
                           frames'[t][i].saved[k] \notin frames'[u][j].made
    BY <1>2 DEF SeparateSaved, F
  <2>2. CASE i = Depth(t) + 1
    <3>1. frames'[t][i].saved[k] = Current(t).writes[k] /\ frames'[t][i].made = {}
      BY <1>3, <1>4, <2>2
    <3> QED
      BY <1>1, <1>2, <2>1, <3>1 DEF SeparateWrites, Sole, F
  <2>3. CASE i # Depth(t) + 1
    <3>1. i \in DOMAIN frames[t] /\ frames'[t][i] = F(t, i)
      BY <1>4, <2>3
    <3> QED
      BY <1>1, <2>1, <3>1 DEF SeparateSaved, Sole, F
  <2> QED
    BY <2>2, <2>3
<1>10. ASSUME taken' = {}, Working(t)' PROVE Queues(t)'
  <2>1. Queues(t) /\ Working(t)
    BY <1>5, <1>10, Known
  <2>n. PICK n : n = Depth(t) + 1
    OBVIOUS
  <2>2. ASSUME NEW k \in Rows, Current(t).writes[k] # 0, k \notin queued'[t]
        PROVE  Awaits(t, n, k)'
    <3>1. \E i \in DOMAIN frames[t] : Awaits(t, i, k)
      BY <1>2, <2>1, <2>2 DEF Queues
    <3>2. PICK j \in DOMAIN frames[t] : F(t, j).stage = "post" /\ F(t, j).row = k
      BY <3>1 DEF Awaits
    <3>3. j \in DOMAIN frames'[t] /\ j <= n /\ frames'[t][j] = F(t, j)
      BY <1>4, <2>n
    <3> QED
      BY <3>2, <3>3 DEF Awaits, F
  <2>3. ASSUME NEW k \in Rows, Current(t).writes[k] # 0, k \notin queued'[t]
        PROVE  \E i \in DOMAIN frames'[t] : Awaits(t, i, k)'
    <3>1. n \in DOMAIN frames'[t]
      BY <1>4, <2>n
    <3> QED
      BY <2>2, <2>3, <3>1
  <2>4. ASSUME NEW i \in DOMAIN frames'[t], NEW k \in Rows,
               frames'[t][i].kind = "savepoint", frames'[t][i].saved[k] # 0
        PROVE  k \in queued'[t] \/ Awaits(t, i, k)'
    <3>1. CASE i = n
      <4>1. Current(t).writes[k] # 0
        BY <1>3, <1>4, <2>4, <2>n, <3>1
      <4> QED
        BY <2>2, <3>1, <4>1
    <3>2. CASE i # n
      <4>1. i \in DOMAIN frames[t] /\ frames'[t][i] = F(t, i)
        BY <1>4, <2>n, <3>2
      <4>2. k \in queued[t] \/ Awaits(t, i, k)
        BY <2>1, <2>4, <4>1 DEF Queues
      <4> QED
        BY <1>1, <1>6, <4>2, AwaitsStays
    <3> QED
      BY <3>1, <3>2
  <2> QED
    BY <1>5, <2>3, <2>4 DEF Queues, F
<1> QED
  BY <1>7, <1>8, <1>9, <1>10 DEF Own, Separate, Queues

(* The new write is in no failed scope, and its row awaits its post handlers. *)
LEMMA FlushOwn ==
  ASSUME NEW t, Given(t), Flush(t)
  PROVE  Own(t)
<1> DEFINE s == [Current(t) EXCEPT !.writes[Top(t).row] = clock + 1]
<1>1. /\ TypeOK /\ TypeOK' /\ SInv /\ Numbered /\ t \in Tasks /\ Sole(t) /\ Provenance(t)
  BY Known
<1>2. /\ frames'[t] = Flushed(t, clock + 1) /\ Top(t).row \in Rows /\ clock' = clock + 1
      /\ IsReplace(sessions'[t], sessions[t], s)
      /\ UNCHANGED <<queued, unwinding>>
      /\ UNCHANGED <<db, undone, leaked, taken>> /\ ~unwinding[t] /\ Usable(Current(t))
  BY <1>1, FlushEffect DEF Flush, historyVars
<1>3. /\ Depth(t) # 0 /\ Depth(t) \in 1..Depth(t) /\ Top(t) = F(t, Depth(t))
      /\ F(t, Depth(t)).stage = "pre" /\ Open(t) # 0 /\ sessions[t] # <<>> /\ Current(t) \in Session
      /\ DOMAIN frames[t] = 1..Depth(t) /\ Depth(t) \in Nat
  BY <1>1, <1>2, Inside, Typed DEF Flush
<1>4. /\ s.pending = {} /\ s.writes[Top(t).row] = clock + 1
      /\ \A k \in Rows : k # Top(t).row => s.writes[k] = Current(t).writes[k]
  BY <1>2, <1>3 DEF Session, Usable
<1> HIDE DEF s
<1>5. Current(t)' = s /\ sessions'[t] # <<>> /\ (Working(t)' <=> Working(t))
  <2>1. Current(t)' = s /\ sessions'[t] # <<>>
    BY <1>1, <1>2, <1>3, SameSessions
  <2> QED
    BY <1>2, <1>3, <2>1 DEF Working
<1>6. /\ clock + 1 \in Writes /\ clock + 1 \notin 1..clock /\ clock \in Nat /\ Fresh(clock + 1)
  BY <1>1, <1>2 DEF TypeOK, Writes, Fresh
<1>7. /\ DOMAIN frames'[t] = 1..Depth(t)
      /\ \A i \in 1..Depth(t) :
           /\ frames'[t][i].kind = F(t, i).kind /\ frames'[t][i].row = F(t, i).row
           /\ frames'[t][i].saved = F(t, i).saved
           /\ frames'[t][i].made = F(t, i).made \union {clock + 1}
           /\ frames'[t][i].stage = IF i = Depth(t) THEN "post" ELSE F(t, i).stage
  BY <1>1, <1>2, <1>6, FlushedScopes, TypedNext
<1>8. \A u \in Tasks : \A i \in DOMAIN frames[u] : clock + 1 \notin F(u, i).made
  BY <1>1, <1>6 DEF Numbered
<1>9. ASSUME Sober' PROVE SeparateScopes(t)'
  <2>1. SeparateScopes(t)
    BY <1>9, Known
  <2>2. \A i, j \in 1..Depth(t) : i <= j => frames'[t][j].made \subseteq frames'[t][i].made
    BY <1>3, <1>7, <2>1 DEF SeparateScopes
  <2>3. ASSUME NEW i \in 1..Depth(t), NEW k \in Rows,
               frames'[t][i].stage \in {"body", "pre", "post", "commit"}
        PROVE  db[k] \notin frames'[t][i].made
    <3>1. MayRaise(t, i)
      BY <1>3, <1>7, <2>3 DEF MayRaise
    <3>2. db[k] \notin F(t, i).made
      BY <1>3, <2>1, <3>1 DEF SeparateScopes
    <3>3. db[k] # clock + 1
      BY <1>1, <1>6, Counted
    <3> QED
      BY <1>7, <3>2, <3>3
  <2> QED
    BY <1>2, <1>7, <2>2, <2>3 DEF SeparateScopes, MayRaise, F
<1>10. ASSUME Sober', Working(t)' PROVE SeparateWrites(t)'
  <2>1. SeparateWrites(t)
    BY <1>5, <1>10, Known
  <2>2. ASSUME NEW k \in Rows
        PROVE  /\ s.writes[k] \notin undone
               /\ \A u \in Tasks \ {t} : \A j \in DOMAIN frames[u] : s.writes[k] \notin F(u, j).made
    <3>1. CASE k = Top(t).row
      <4>1. s.writes[k] = clock + 1
        BY <1>4, <3>1
      <4>2. clock + 1 \notin undone
        BY <1>1, <1>6 DEF Numbered
      <4> QED
        BY <1>8, <4>1, <4>2
    <3>2. CASE k # Top(t).row
      BY <1>2, <1>4, <2>1, <3>2 DEF SeparateWrites
    <3> QED
      BY <3>1, <3>2
  <2> QED
    BY <1>1, <1>2, <1>4, <1>5, <2>2 DEF SeparateWrites, Sole, F
<1>11. ASSUME Sober', Working(t)' PROVE SeparateSaved(t)'
  BY <1>1, <1>3, <1>5, <1>7, <1>11, Known, SavedSeparate
<1>12. StillAwaits(t)
  BY <1>2, <1>3, <1>7 DEF StillAwaits
<1>13. ASSUME taken' = {}, Working(t)' PROVE Queues(t)'
  <2>1. Queues(t) /\ Working(t)
    BY <1>5, <1>13, Known
  <2>2. ASSUME NEW k \in Rows, s.writes[k] # 0, k \notin queued'[t]
        PROVE  \E i \in DOMAIN frames'[t] : Awaits(t, i, k)'
    <3>1. CASE k = Top(t).row
      <4>1. PICK i : i = Depth(t)
        OBVIOUS
      <4>2. /\ i \in DOMAIN frames'[t] /\ frames'[t][i].stage = "post"
            /\ frames'[t][i].row = k /\ i <= i
        BY <1>3, <1>7, <3>1, <4>1
      <4>3. Awaits(t, i, k)'
        BY <4>2 DEF Awaits, F
      <4> QED
        BY <4>2, <4>3
    <3>2. CASE k # Top(t).row
      <4>1. Current(t).writes[k] # 0 /\ k \notin queued[t]
        BY <1>2, <1>4, <2>2, <3>2
      <4>2. PICK i \in DOMAIN frames[t] : Awaits(t, i, k)
        BY <1>2, <2>1, <4>1 DEF Queues
      <4>3. Awaits(t, i, k)'
        BY <1>1, <1>12, <2>2, <4>2, AwaitsStays
      <4> QED
        BY <1>3, <1>7, <4>2, <4>3
    <3> QED
      BY <3>1, <3>2
  <2>3. ASSUME NEW i \in DOMAIN frames'[t], NEW k \in Rows,
               frames'[t][i].kind = "savepoint", frames'[t][i].saved[k] # 0
        PROVE  k \in queued'[t] \/ Awaits(t, i, k)'
    <3>1. i \in DOMAIN frames[t] /\ F(t, i).kind = "savepoint" /\ F(t, i).saved[k] # 0
      BY <1>3, <1>7, <2>3
    <3>2. k \in queued[t] \/ Awaits(t, i, k)
      BY <2>1, <3>1 DEF Queues
    <3> QED
      BY <1>1, <1>12, <3>2, AwaitsStays
  <2> QED
    BY <1>5, <2>2, <2>3 DEF Queues, F
<1> QED
  BY <1>9, <1>10, <1>11, <1>13 DEF Own, Separate, Queues

(* Writes that are taken back to those of a savepoint stay apart. *)
LEMMA RestoredSeparate ==
  ASSUME NEW t, Given(t), Sober', Working(t),
         \/ unwinding'[t]
         \/ Current(t)'.pending = {} /\ \A k \in Rows : Current(t)'.writes[k] \notin undone',
         \A k \in Rows : \/ Current(t)'.writes[k] = 0
                         \/ \E i \in DOMAIN frames[t] :
                              F(t, i).kind = "savepoint" /\ Current(t)'.writes[k] = F(t, i).saved[k]
  PROVE  SeparateWrites(t)'
<1>1. /\ SInv /\ Numbered /\ t \in Tasks /\ Sole(t) /\ SeparateSaved(t)
  BY Known
<1>2. ASSUME NEW k \in Rows, NEW u \in Tasks \ {t}, NEW j \in DOMAIN frames'[u]
      PROVE  Current(t)'.writes[k] \notin frames'[u][j].made
  <2>1. frames'[u] = frames[u]
    BY <1>1 DEF Sole
  <2>2. CASE Current(t)'.writes[k] = 0
    BY <1>1, <2>1, <2>2, Counted DEF F
  <2>3. CASE Current(t)'.writes[k] # 0
    BY <1>1, <2>1, <2>3 DEF SeparateSaved, F
  <2> QED
    BY <2>2, <2>3
<1> QED
  BY <1>2 DEF SeparateWrites, F

(* A failed flush leaves an exception under way. *)
LEMMA FlushFailsOwn ==
  ASSUME NEW t, Given(t), FlushFails(t)
  PROVE  Own(t)
<1>1. /\ TypeOK /\ TypeOK' /\ SInv /\ Numbered /\ t \in Tasks /\ Sole(t) /\ Provenance(t)
  BY Known
<1>2. /\ Depth(t) # 0 /\ Open(t) # 0 /\ sessions[t] # <<>> /\ F(t, Depth(t)).stage = "pre"
      /\ DOMAIN frames[t] = 1..Depth(t)
  BY <1>1, Inside, Typed DEF FlushFails
<1>3. IsFront(frames'[t], frames[t]) /\ queued' = queued /\ unwinding'[t] = TRUE
  BY <1>1, FlushFailsEffect
<1>4. PICK w \in [Rows -> Writes] :
        /\ IsReplace(sessions'[t], sessions[t], [writes |-> w, pending |-> {}, doomed |-> TRUE])
        /\ \/ w = NoWrites
           \/ \E i \in 1..Depth(t) : F(t, i).kind = "savepoint" /\ w = F(t, i).saved
  BY <1>1, FlushFailsEffect
<1> DEFINE s == [writes |-> w, pending |-> {}, doomed |-> TRUE]
<1>5. s.writes = w
  OBVIOUS
<1>6. IsReplace(sessions'[t], sessions[t], s)
  BY <1>4
<1> HIDE DEF s
<1>7. Current(t)' = s /\ sessions'[t] # <<>>
  BY <1>1, <1>2, <1>6, SameSessions
<1>8. \A j \in DOMAIN frames'[t] : j \in DOMAIN frames[t] /\ frames'[t][j] = F(t, j) /\ j # Depth(t)
  BY <1>1, <1>2, <1>3, Shorter
<1>9. StillAwaits(t)
  <2>1. DOMAIN frames'[t] = 1..(Depth(t) - 1) /\ Depth(t) \in Nat
    BY <1>1, <1>2, <1>3, Shorter
  <2>2. \A j \in DOMAIN frames[t] : j # Depth(t) => j \in DOMAIN frames'[t]
    BY <1>2, <2>1
  <2> QED
    BY <1>2, <1>3, <1>8, <2>2 DEF StillAwaits
<1>10. Working(t)' <=> Working(t)
  BY <1>2, <1>7 DEF Working, FlushFails
<1>11. ASSUME Sober' PROVE SeparateScopes(t)'
  BY <1>1, <1>2, <1>3, <1>11, Known, ScopesSeparate DEF FlushFails
<1>12. ASSUME Sober', Working(t)' PROVE SeparateWrites(t)'
  <2>1. \A k \in Rows : \/ Current(t)'.writes[k] = 0
                        \/ \E i \in DOMAIN frames[t] :
                             F(t, i).kind = "savepoint" /\ Current(t)'.writes[k] = F(t, i).saved[k]
    <3>1. CASE w = NoWrites
      BY <1>5, <1>7, <3>1 DEF NoWrites
    <3>2. CASE \E i \in 1..Depth(t) : F(t, i).kind = "savepoint" /\ w = F(t, i).saved
      BY <1>2, <1>5, <1>7, <3>2
    <3> QED
      BY <1>4, <3>1, <3>2
  <2> QED
    BY <1>3, <1>10, <1>12, <2>1, RestoredSeparate
<1>13. ASSUME Sober', Working(t)' PROVE SeparateSaved(t)'
  BY <1>1, <1>8, <1>10, <1>13, Known, SavedSeparate
<1>14. ASSUME taken' = {} PROVE Queues(t)'
  BY <1>1, <1>3, <1>8, <1>9, <1>10, <1>14, Known, QueuesStay
<1> QED
  BY <1>11, <1>12, <1>13, <1>14 DEF Own, Separate

(* An exception leaves a savepoint: the session has the writes of before. *)
LEMMA RaiseSavepointOwn ==
  ASSUME NEW t, Given(t), Raise(t), RaiseSavepoint(t)
  PROVE  Own(t)
<1>1. /\ TypeOK /\ TypeOK' /\ SInv /\ Numbered /\ t \in Tasks /\ Sole(t) /\ Provenance(t)
  BY Known
<1>2. /\ Depth(t) # 0 /\ Depth(t) \in 1..Depth(t) /\ Open(t) # 0 /\ sessions[t] # <<>>
      /\ Top(t) = F(t, Depth(t)) /\ F(t, Depth(t)).kind = "savepoint"
      /\ F(t, Depth(t)).stage = "body" /\ DOMAIN frames[t] = 1..Depth(t)
  <2>1. At(t, "savepoint", "body")
    BY DEF Raise, RaiseSavepoint, Running, InBlock, InHandler, At
  <2> QED
    BY <1>1, <2>1, Inside, Typed
<1>3. queued' = queued /\ UNCHANGED <<db, leaked, taken>> /\ undone' = undone \union Top(t).made
  BY <1>1, RaiseEffect DEF Raise
<1> DEFINE s == [writes |-> Top(t).saved, pending |-> {}, doomed |-> FALSE]
<1>4. s.writes = F(t, Depth(t)).saved /\ s.pending = {}
  BY <1>2
<1>5. IsReplace(sessions'[t], sessions[t], s) /\ IsFront(frames'[t], frames[t])
  BY DEF RaiseSavepoint
<1> HIDE DEF s
<1>6. Current(t)' = s /\ sessions'[t] # <<>>
  BY <1>1, <1>2, <1>5, SameSessions
<1>7. \A j \in DOMAIN frames'[t] : j \in DOMAIN frames[t] /\ frames'[t][j] = F(t, j) /\ j # Depth(t)
  BY <1>1, <1>2, <1>5, Shorter
<1>8. StillAwaits(t)
  <2>1. DOMAIN frames'[t] = 1..(Depth(t) - 1) /\ Depth(t) \in Nat
    BY <1>1, <1>2, <1>5, Shorter
  <2>2. \A j \in DOMAIN frames[t] : j # Depth(t) => j \in DOMAIN frames'[t]
    BY <1>2, <2>1
  <2> QED
    BY <1>2, <1>3, <1>7, <2>2 DEF StillAwaits
<1>9. Working(t)' <=> Working(t)
  BY <1>2, <1>3, <1>6 DEF Working
<1>10. ASSUME Sober' PROVE SeparateScopes(t)'
  BY <1>1, <1>2, <1>3, <1>5, <1>10, Known, ScopesSeparate
<1>11. ASSUME Sober', Working(t)' PROVE SeparateWrites(t)'
  <2>1. SeparateSaved(t)
    BY <1>9, <1>11, Known
  <2>2. \A k \in Rows : Current(t)'.writes[k] \notin undone'
    BY <1>2, <1>3, <1>4, <1>6, <2>1 DEF SeparateSaved
  <2>3. Current(t)'.pending = {}
    BY <1>4, <1>6
  <2>4. \A k \in Rows : Current(t)'.writes[k] = F(t, Depth(t)).saved[k]
    BY <1>4, <1>6
  <2> QED
    BY <1>2, <1>9, <1>11, <2>2, <2>3, <2>4, RestoredSeparate
<1>12. ASSUME Sober', Working(t)' PROVE SeparateSaved(t)'
  BY <1>1, <1>7, <1>9, <1>12, Known, SavedSeparate
<1>13. ASSUME taken' = {}, Working(t)' PROVE Queues(t)'
  <2>1. Queues(t) /\ Working(t)
    BY <1>9, <1>13, Known
  <2>2. ASSUME NEW k \in Rows, Current(t)'.writes[k] # 0, k \notin queued'[t]
        PROVE  \E i \in DOMAIN frames'[t] : Awaits(t, i, k)'
    <3>1. F(t, Depth(t)).saved[k] # 0
      BY <1>4, <1>6, <2>2
    <3>2. Awaits(t, Depth(t), k)
      BY <1>2, <1>3, <2>1, <2>2, <3>1 DEF Queues
    <3>3. PICK j \in DOMAIN frames[t] : F(t, j).stage = "post" /\ F(t, j).row = k
      BY <3>2 DEF Awaits
    <3>4. j \in DOMAIN frames'[t] /\ frames'[t][j].stage = "post" /\ frames'[t][j].row = k
      BY <1>8, <2>2, <3>3 DEF StillAwaits
    <3>5. j <= j
      BY <1>1, <3>4, TypedNext
    <3>6. Awaits(t, j, k)'
      BY <3>4, <3>5 DEF Awaits, F
    <3> QED
      BY <3>4, <3>6
  <2>3. ASSUME NEW i \in DOMAIN frames'[t], NEW k \in Rows,
               frames'[t][i].kind = "savepoint", frames'[t][i].saved[k] # 0
        PROVE  k \in queued'[t] \/ Awaits(t, i, k)'
    <3>1. i \in DOMAIN frames[t] /\ F(t, i).kind = "savepoint" /\ F(t, i).saved[k] # 0
      BY <1>7, <2>3
    <3>2. k \in queued[t] \/ Awaits(t, i, k)
      BY <2>1, <3>1 DEF Queues
    <3> QED
      BY <1>1, <1>8, <3>2, AwaitsStays
  <2> QED
    BY <2>2, <2>3 DEF Queues, F
<1> QED
  BY <1>10, <1>11, <1>12, <1>13 DEF Own, Separate, Queues

(* An exception leaves a joined scope: it goes on to the scope around it. *)
LEMMA RaiseJoinedOwn ==
  ASSUME NEW t, Given(t), Raise(t), RaiseJoined(t)
  PROVE  Own(t)
<1>1. /\ TypeOK /\ TypeOK' /\ SInv /\ Numbered /\ t \in Tasks /\ Sole(t) /\ Provenance(t)
  BY Known
<1>2. /\ Depth(t) # 0 /\ Depth(t) \in 1..Depth(t) /\ Open(t) # 0 /\ sessions[t] # <<>>
      /\ Top(t) = F(t, Depth(t)) /\ DOMAIN frames[t] = 1..Depth(t) /\ Depth(t) \in Nat
      /\ ~Draining(t) /\ Current(t) \in Session
  BY <1>1, Inside, Typed DEF Raise, Running, InBlock, InHandler
<1>3. queued' = queued /\ UNCHANGED <<db, leaked, taken>> /\ undone' = undone \union Top(t).made
  BY <1>1, RaiseEffect DEF Raise
<1>4. IsFront(frames'[t], frames[t]) /\ ~Top(t).own /\ (unwinding'[t] <=> Depth(t) > 1)
  BY DEF RaiseJoined
<1>5. SeparateScopes(t) => SeparateScopes(t)'
  BY <1>1, <1>2, <1>3, <1>4, ScopesSeparate
<1>6. CASE ~Working(t)
  <2>1. ~Working(t)'
    <3>1. t \in leaked
      BY <1>2, <1>6 DEF Working
    <3> QED
      BY <1>3, <3>1 DEF Working
  <2> QED
    BY <1>5, <2>1, Known, IdleOwn
<1>7. CASE Working(t)
  <2>1. unwinding'[t]
    <3>1. t \notin leaked
      BY <1>7 DEF Working
    <3>2. Open(t) > 0 /\ Open(t) \in Nat /\ ~(Depth(t) <= Open(t))
      BY <1>1, <1>2, <1>4, <3>1, Owned
    <3>3. Depth(t) > 1
      BY <1>2, <3>2
    <3> QED
      BY <1>4, <3>3
  <2>2. Current(t)'.writes = Current(t).writes
    <3>1. CASE sessions'[t] = sessions[t]
      BY <3>1 DEF Current
    <3>2. CASE IsReplace(sessions'[t], sessions[t], [Current(t) EXCEPT !.pending = @ \union {Top(t).row}])
      <4>1. Current(t)' = [Current(t) EXCEPT !.pending = @ \union {Top(t).row}]
        BY <1>1, <1>2, <3>2, SameSessions
      <4> QED
        BY <1>2, <4>1 DEF Session
    <3> QED
      BY <3>1, <3>2 DEF RaiseJoined
  <2>3. /\ \A j \in DOMAIN frames'[t] : j \in DOMAIN frames[t] /\ frames'[t][j] = F(t, j)
        /\ DOMAIN frames'[t] = 1..(Depth(t) - 1)
    BY <1>1, <1>2, <1>4, Shorter
  <2>4. ASSUME Sober' PROVE SeparateWrites(t)' /\ SeparateSaved(t)'
    <3>1. SeparateWrites(t) /\ SeparateSaved(t) /\ SeparateScopes(t)
      BY <1>7, <2>4, Known
    <3>2. SeparateWrites(t)'
      BY <1>1, <2>1, <2>2, <3>1, WritesSeparate
    <3>3. SeparateSaved(t)'
      BY <1>1, <2>3, <3>1, SavedSeparate
    <3> QED
      BY <3>2, <3>3
  <2>5. ASSUME taken' = {}, NEW i \in DOMAIN frames'[t], NEW k \in Rows,
               frames'[t][i].kind = "savepoint", frames'[t][i].saved[k] # 0
        PROVE  k \in queued'[t] \/ Awaits(t, i, k)'
    <3>1. k \in queued[t] \/ Awaits(t, i, k)
      BY <1>7, <2>3, <2>5, Known DEF Queues
    <3>2. CASE k \in queued[t]
      BY <1>3, <3>2
    <3>3. CASE Awaits(t, i, k)
      <4>1. PICK j \in DOMAIN frames[t] : j <= i /\ F(t, j).stage = "post" /\ F(t, j).row = k
        BY <3>3 DEF Awaits
      <4>2. j \in DOMAIN frames'[t]
        BY <1>2, <2>3, <4>1
      <4>3. frames'[t][j] = F(t, j)
        BY <2>3, <4>2
      <4> QED
        BY <4>1, <4>2, <4>3 DEF Awaits, F
    <3> QED
      BY <3>1, <3>2, <3>3
  <2>6. ASSUME taken' = {} PROVE Queues(t)'
    BY <2>1, <2>5, <2>6 DEF Queues, F
  <2> QED
    BY <1>5, <2>4, <2>6, Known DEF Own, Separate
<1> QED
  BY <1>6, <1>7

(* A scope of its own session begins anew, is left by an exception, or ends. *)
LEMMA EndOwn ==
  ASSUME NEW t, Given(t), Depth(t) # 0, ~Draining(t), Top(t).own,
         IsReplace(sessions'[t], sessions[t], NewSession),
         \/ frames'[t] = frames[t]
         \/ \E f : IsReplace(frames'[t], frames[t], f) /\ f.kind = Top(t).kind,
         Sober' => SeparateScopes(t)'
  PROVE  Own(t)
<1>1. /\ TypeOK /\ TypeOK' /\ SInv /\ t \in Tasks
  BY Known
<1>2. Top(t) = F(t, Depth(t)) /\ DOMAIN frames[t] = 1..Depth(t) /\ Depth(t) \in 1..Depth(t)
  BY <1>1, Typed
<1>3. ASSUME Sober'
      PROVE  Current(t)' = NewSession /\ \A j \in DOMAIN frames'[t] : frames'[t][j].kind # "savepoint"
  <2>1. "handlerWrites" \notin taken
    BY <1>3, Known
  <2>2. Open(t) = 1 /\ \A i \in DOMAIN frames[t] : F(t, i).kind # "savepoint"
    BY <1>1, <1>2, <2>1, OwnerWorks
  <2>3. Current(t)' = NewSession
    <3>1. Open(t) # 0
      BY <2>2
    <3> QED
      BY <1>1, <3>1, SameSessions
  <2>4. CASE frames'[t] = frames[t]
    BY <2>2, <2>3, <2>4 DEF F
  <2>5. ASSUME NEW f, IsReplace(frames'[t], frames[t], f), f.kind = Top(t).kind
        PROVE  \A j \in DOMAIN frames'[t] : frames'[t][j].kind # "savepoint"
    <3>1. /\ DOMAIN frames'[t] = 1..Depth(t) /\ frames'[t][Depth(t)] = f
          /\ \A i \in 1..Depth(t) : i = Depth(t) \/ frames'[t][i] = F(t, i)
      BY <1>1, <2>5, Altered
    <3> QED
      BY <1>2, <2>2, <2>5, <3>1
  <2> QED
    BY <2>3, <2>4, <2>5
<1> QED
  BY <1>3, FreshOwn

(* The only scope of a task has nothing to keep apart once it cannot fail. *)
LEMMA LoneSeparate ==
  ASSUME TypeOK, TypeOK', NEW t \in Tasks, Depth(t) = 1, NEW f, IsReplace(frames'[t], frames[t], f),
         f.made = {} \/ f.stage \notin {"body", "pre", "post", "commit"}
  PROVE  SeparateScopes(t)'
<1>1. DOMAIN frames'[t] = 1..1 /\ frames'[t][1] = f
  <2>1. Depth(t) # 0
    OBVIOUS
  <2>2. DOMAIN frames'[t] = 1..Depth(t) /\ frames'[t][Depth(t)] = f
    BY <2>1, Altered
  <2> QED
    BY <2>2
<1>2. \A i \in DOMAIN frames'[t] : i = 1
  BY <1>1
<1> QED
  BY <1>1, <1>2 DEF SeparateScopes, MayRaise, F

(* The post handlers have run: the row of the write is queued. *)
LEMMA CompleteOwn ==
  ASSUME NEW t, Given(t), Complete(t)
  PROVE  Own(t)
<1>1. /\ TypeOK /\ TypeOK' /\ SInv /\ t \in Tasks
  BY Known
<1>2. /\ Depth(t) # 0 /\ Depth(t) \in 1..Depth(t) /\ Top(t) = F(t, Depth(t)) /\ Top(t) \in Frame
      /\ ~Draining(t) /\ F(t, Depth(t)).stage = "post" /\ F(t, Depth(t)).kind = "write"
      /\ DOMAIN frames[t] = 1..Depth(t)
  BY <1>1, Inside, Typed DEF Complete
<1>3. /\ IF Top(t).own THEN IsReplace(frames'[t], frames[t], [Top(t) EXCEPT !.stage = "commit"])
         ELSE IsFront(frames'[t], frames[t])
      /\ queued'[t] = IF region[t] THEN queued[t] \union {Top(t).row} ELSE queued[t]
      /\ UNCHANGED <<sessions, unwinding>>
  BY <1>1, CompleteEffect
<1>4. UNCHANGED <<db, undone, leaked>> /\ ~unwinding[t]
  BY DEF Complete, historyVars
<1>5. Current(t)' = Current(t) /\ (Working(t)' <=> Working(t))
  BY <1>3, <1>4 DEF Current, Working
<1>6. Working(t) => queued[t] \subseteq queued'[t] /\ F(t, Depth(t)).row \in queued'[t]
  BY <1>1, <1>2, <1>3, Owned DEF Working
<1>7. CASE Top(t).own
  <2> DEFINE f == [Top(t) EXCEPT !.stage = "commit"]
  <2>1. f.made = F(t, Depth(t)).made /\ f.kind = "write" /\ MayRaise(t, Depth(t))
    BY <1>2 DEF Frame, MayRaise
  <2>2. IsReplace(frames'[t], frames[t], f)
    BY <1>3, <1>7
  <2> HIDE DEF f
  <2>3. /\ DOMAIN frames'[t] = 1..Depth(t) /\ frames'[t][Depth(t)] = f
        /\ \A i \in 1..Depth(t) : i = Depth(t) \/ frames'[t][i] = F(t, i)
    BY <1>1, <1>2, <2>2, Altered
  <2>4. Working(t) => StillAwaits(t)
    BY <1>2, <1>6, <2>3 DEF StillAwaits
  <2>5. \A j \in DOMAIN frames'[t] : frames'[t][j].kind = "savepoint" =>
           /\ j \in DOMAIN frames[t] /\ F(t, j).kind = "savepoint"
           /\ frames'[t][j].saved = F(t, j).saved
    BY <1>2, <2>1, <2>3
  <2> QED
    BY <1>2, <1>4, <1>5, <2>1, <2>2, <2>4, <2>5, QuietOwn
<1>8. CASE ~Top(t).own
  <2>1. IsFront(frames'[t], frames[t])
    BY <1>3, <1>8
  <2>2. /\ \A j \in DOMAIN frames'[t] : j \in DOMAIN frames[t] /\ frames'[t][j] = F(t, j)
        /\ \A j \in DOMAIN frames[t] : j = Depth(t) \/ j \in DOMAIN frames'[t]
    <3>1. /\ DOMAIN frames'[t] = 1..(Depth(t) - 1) /\ Depth(t) \in Nat
          /\ \A i \in 1..(Depth(t) - 1) : frames'[t][i] = F(t, i) /\ i \in 1..Depth(t)
      BY <1>1, <1>2, <2>1, Shorter
    <3> QED
      BY <1>2, <3>1
  <2>3. Working(t) => StillAwaits(t)
    BY <1>2, <1>6, <2>2 DEF StillAwaits
  <2> QED
    BY <1>2, <1>4, <1>5, <2>1, <2>2, <2>3, QuietOwn
<1> QED
  BY <1>7, <1>8

(* A joined block or a savepoint ends. *)
LEMMA ExitOwn ==
  ASSUME NEW t, Given(t), ExitJoined(t) \/ ReleaseSavepoint(t)
  PROVE  Own(t)
<1>1. /\ TypeOK /\ TypeOK' /\ SInv /\ t \in Tasks
  BY Known
<1>2. /\ Depth(t) # 0 /\ F(t, Depth(t)).stage = "body" /\ DOMAIN frames[t] = 1..Depth(t)
  BY <1>1, Inside, Typed DEF ExitJoined, ReleaseSavepoint
<1>3. IsFront(frames'[t], frames[t]) /\ UNCHANGED <<sessions, queued, unwinding>>
  BY <1>1, ExitEffect
<1>4. UNCHANGED <<db, undone, leaked>> /\ ~unwinding[t]
  BY DEF ExitJoined, ReleaseSavepoint, historyVars
<1>5. Current(t)' = Current(t) /\ (Working(t)' <=> Working(t))
  BY <1>3, <1>4 DEF Current, Working
<1>6. /\ \A j \in DOMAIN frames'[t] : j \in DOMAIN frames[t] /\ frames'[t][j] = F(t, j)
      /\ \A j \in DOMAIN frames[t] : j = Depth(t) \/ j \in DOMAIN frames'[t]
  <2>1. /\ DOMAIN frames'[t] = 1..(Depth(t) - 1) /\ Depth(t) \in Nat
        /\ \A i \in 1..(Depth(t) - 1) : frames'[t][i] = F(t, i) /\ i \in 1..Depth(t)
    BY <1>1, <1>2, <1>3, Shorter
  <2> QED
    BY <1>2, <2>1
<1>7. StillAwaits(t)
  BY <1>2, <1>3, <1>6 DEF StillAwaits
<1> QED
  BY <1>2, <1>3, <1>4, <1>5, <1>6, <1>7, QuietOwn

(* A transaction ends, for good or for the block to go on in a new one. *)
LEMMA TransactionOwn ==
  ASSUME NEW t, Given(t),
         \/ Raise(t) /\ RaiseOwn(t)
         \/ MidCommit(t) \/ MidRollback(t) \/ Commit(t) \/ CommitFails(t) \/ CommitLost(t)
  PROVE  Own(t)
<1>1. /\ TypeOK /\ TypeOK' /\ SInv /\ t \in Tasks
  BY Known
<1>2. /\ Depth(t) # 0 /\ Depth(t) \in 1..Depth(t) /\ ~Draining(t) /\ Top(t).own
      /\ Top(t) = F(t, Depth(t)) /\ Top(t) \in Frame
  BY <1>1, Inside DEF Raise, RaiseOwn, Running, InBlock, InHandler, MidCommit, MidRollback, Commit,
     CommitFails, CommitLost, AtCommit
<1>3. Sober' => Depth(t) = 1 /\ SeparateScopes(t)
  BY <1>1, <1>2, Known, OwnerWorks
<1>4. CASE Raise(t) /\ RaiseOwn(t)
  <2> DEFINE f == [Top(t) EXCEPT !.stage = "rolledback"]
  <2>1. f.kind = Top(t).kind /\ f.made = F(t, Depth(t)).made /\ f.stage = "rolledback"
    BY <1>2 DEF Frame
  <2>2. IsReplace(frames'[t], frames[t], f) /\ IsReplace(sessions'[t], sessions[t], NewSession)
        /\ db' = db
    BY <1>4 DEF RaiseOwn, Raise
  <2> HIDE DEF f
  <2>3. Sober' => SeparateScopes(t)'
    BY <1>1, <1>3, <2>1, <2>2, LoneSeparate
  <2> QED
    BY <1>2, <2>1, <2>2, <2>3, EndOwn
<1>5. CASE MidCommit(t)
  <2> DEFINE f == [Top(t) EXCEPT !.made = {}]
  <2>1. f.kind = Top(t).kind /\ f.made = {}
    BY <1>2 DEF Frame
  <2>2. IsReplace(frames'[t], frames[t], f) /\ IsReplace(sessions'[t], sessions[t], NewSession)
    BY <1>1, <1>5, MidCommitEffect
  <2> HIDE DEF f
  <2>3. Sober' => SeparateScopes(t)'
    BY <1>1, <1>3, <2>1, <2>2, LoneSeparate
  <2> QED
    BY <1>2, <2>1, <2>2, <2>3, EndOwn
<1>6. CASE MidRollback(t)
  <2>1. frames'[t] = frames[t] /\ IsReplace(sessions'[t], sessions[t], NewSession) /\ db' = db
    BY <1>1, <1>6, MidRollbackEffect DEF MidRollback
  <2>2. Sober' => SeparateScopes(t)'
    BY <1>1, <1>3, <2>1, ScopesSeparate
  <2> QED
    BY <1>2, <2>1, <2>2, EndOwn
<1>7. ASSUME NEW stage \in {"committed", "rolledback"}, Ends(t, stage)
      PROVE  Own(t)
  <2> DEFINE f == [Top(t) EXCEPT !.stage = stage]
  <2>1. f.kind = Top(t).kind /\ f.stage = stage
    BY <1>2 DEF Frame
  <2>2. IsReplace(frames'[t], frames[t], f) /\ IsReplace(sessions'[t], sessions[t], NewSession)
    BY <1>7 DEF Ends
  <2> HIDE DEF f
  <2>3. f.stage \notin {"body", "pre", "post", "commit"}
    BY <2>1
  <2>4. Sober' => SeparateScopes(t)'
    BY <1>1, <1>3, <2>2, <2>3, LoneSeparate
  <2> QED
    BY <1>2, <2>1, <2>2, <2>4, EndOwn
<1>8. CASE Commit(t) \/ CommitFails(t) \/ CommitLost(t)
  BY <1>1, <1>7, <1>8, CommitEffect
<1> QED
  BY <1>4, <1>5, <1>6, <1>8

(* A task that closes a session, or runs callbacks, has no session to commit. *)
LEMMA CloseOwn ==
  ASSUME NEW t, Given(t),
         Close(t) \/ CloseCancelled(t) \/ \E k \in Rows : Invalidate(t, k) \/ InvalidateFails(t, k)
  PROVE  Own(t)
<1>1. /\ TypeOK /\ TypeOK' /\ SInv /\ t \in Tasks
  BY Known
<1>2. CASE Close(t)
  <2>1. /\ Depth(t) # 0 /\ Depth(t) \in 1..Depth(t) /\ ~Draining(t) /\ Top(t).own
        /\ Top(t) = F(t, Depth(t)) /\ Top(t) \in Frame
    BY <1>1, <1>2, InEnded DEF Close
  <2>2. /\ IsFront(sessions'[t], sessions[t])
        /\ CloseDraining(t) \/ CloseLeaving(t)
        /\ db' = db
    BY <1>1, <1>2, CloseEffect DEF Close
  <2>3. ASSUME Sober' PROVE ~Working(t)' /\ SeparateScopes(t)
    <3>1. Open(t) = 1 /\ SeparateScopes(t)
      BY <1>1, <2>1, <2>3, Known, OwnerWorks
    <3>2. sessions'[t] = <<>> <=> Open(t) - 1 = 0
      BY <1>1, <2>2, <3>1, FewerSessions
    <3> QED
      BY <3>1, <3>2 DEF Working
  <2>4. CASE CloseDraining(t)
    <3> DEFINE f == [Top(t) EXCEPT !.stage = "draining"]
    <3>1. f.made = F(t, Depth(t)).made /\ f.stage = "draining"
      BY <2>1 DEF Frame
    <3>2. IsReplace(frames'[t], frames[t], f)
      BY <2>4 DEF CloseDraining
    <3> HIDE DEF f
    <3>3. f.stage \in {"body", "pre", "post", "commit"} => MayRaise(t, Depth(t))
      BY <3>1
    <3>4. ASSUME Sober' PROVE SeparateScopes(t)'
      BY <1>1, <2>1, <2>2, <2>3, <3>1, <3>2, <3>3, <3>4, ScopesSeparate
    <3> QED
      BY <2>3, <3>4, IdleOwn
  <2>5. CASE CloseLeaving(t)
    <3>1. IsFront(frames'[t], frames[t])
      BY <2>5 DEF CloseLeaving
    <3>2. ASSUME Sober' PROVE SeparateScopes(t)'
      BY <1>1, <2>1, <2>2, <2>3, <3>1, <3>2, ScopesSeparate
    <3> QED
      BY <2>3, <3>2, IdleOwn
  <2> QED
    BY <2>2, <2>4, <2>5
<1>3. CASE CloseCancelled(t)
  <2>1. Depth(t) # 0 /\ IsFront(frames'[t], frames[t]) /\ db' = db /\ t \in leaked'
    BY <1>1, <1>3, CloseCancelledEffect, InEnded DEF CloseCancelled
  <2>2. ASSUME Sober' PROVE ~Working(t)' /\ SeparateScopes(t)'
    BY <1>1, <2>1, <2>2, Known, ScopesSeparate DEF Working
  <2> QED
    BY <2>2, IdleOwn
<1>4. ASSUME NEW k \in Rows, Invalidate(t, k) \/ InvalidateFails(t, k) PROVE Own(t)
  <2>1. /\ k \in draining[t] /\ UNCHANGED <<sessions>> /\ db' = db /\ leaked' = leaked
        /\ \/ IsFront(frames'[t], frames[t])
           \/ frames'[t] = frames[t]
    BY <1>1, <1>4, InvalidateEffect DEF Invalidate, InvalidateFails
  <2>2. Draining(t) /\ Depth(t) = 1
    BY <1>1, <2>1, InDraining
  <2>3. ~Working(t)'
    <3>1. t \in leaked \/ sessions[t] = <<>>
      BY <1>1, <2>2, Shaped DEF Owners
    <3> QED
      BY <2>1, <3>1 DEF Working
  <2>4. ASSUME Sober' PROVE SeparateScopes(t)'
    BY <1>1, <2>1, <2>2, <2>4, Known, ScopesSeparate
  <2> QED
    BY <2>3, <2>4, IdleOwn
<1> QED
  BY <1>2, <1>3, <1>4

(* What another statement flushes belongs to a write that failed. *)
LEMMA FlushPendingOwn ==
  ASSUME NEW t, Given(t), NEW k \in Rows, FlushPending(t, k)
  PROVE  Own(t)
<1>1. SInv /\ t \in Tasks /\ frames' = frames /\ UNCHANGED <<db, leaked>>
  BY Known DEF FlushPending
<1>2. ASSUME Sober' PROVE ~Working(t)'
  <2>1. ~Working(t)
    BY <1>2, Known DEF FlushPending, SeparateWrites
  <2>2. t \in leaked
    BY <2>1 DEF Working, FlushPending
  <2> QED
    BY <1>1, <2>2 DEF Working
<1> QED
  BY <1>1, <1>2, QuietOwn

(* Whatever a task does. *)
LEMMA StepOwn ==
  ASSUME NEW t, Given(t), Step(t)
  PROVE  Own(t)
<1>1. /\ TypeOK /\ TypeOK' /\ SInv /\ t \in Tasks
  BY Known
<1>2. CASE EnterUow(t)
  <2>1. /\ Enter(t, "uow", "body", NoRow) /\ ambient' = [ambient EXCEPT ![t] = TRUE]
        /\ ambient \in [Tasks -> BOOLEAN]
    BY <1>1, <1>2 DEF EnterUow, TypeOK
  <2> QED
    BY <2>1, EnterOwn
<1>3. ASSUME NEW k \in Rows, BeginWrite(t, k) PROVE Own(t)
  <2>1. Enter(t, "write", "pre", k) /\ ambient' = ambient /\ ambient \in [Tasks -> BOOLEAN]
    BY <1>1, <1>3 DEF BeginWrite, TypeOK
  <2> QED
    BY <2>1, EnterOwn
<1>4. CASE EnterSavepoint(t)
  BY <1>4, SavepointOwn
<1>5. CASE Flush(t)
  BY <1>5, FlushOwn
<1>6. ASSUME NEW k \in Rows, FlushPending(t, k) PROVE Own(t)
  BY <1>6, FlushPendingOwn
<1>7. CASE FlushFails(t)
  BY <1>7, FlushFailsOwn
<1>8. CASE Complete(t)
  BY <1>8, CompleteOwn
<1>9. CASE Raise(t)
  <2>1. RaiseOwn(t) \/ RaiseSavepoint(t) \/ RaiseJoined(t)
    BY <1>1, <1>9, RaiseEffect
  <2> QED
    BY <1>9, <2>1, TransactionOwn, RaiseSavepointOwn, RaiseJoinedOwn
<1>10. CASE Swallow(t)
  <2>1. "swallow" \in taken'
    BY <1>1, <1>10, SwallowEffect
  <2> QED
    BY <2>1 DEF Own, Sober
<1>11. CASE ExitJoined(t) \/ ReleaseSavepoint(t)
  BY <1>11, ExitOwn
<1>12. CASE MidCommit(t) \/ MidRollback(t) \/ Commit(t) \/ CommitFails(t) \/ CommitLost(t)
  BY <1>12, TransactionOwn
<1>13. CASE Close(t) \/ CloseCancelled(t) \/ \E k \in Rows : Invalidate(t, k) \/ InvalidateFails(t, k)
  BY <1>13, CloseOwn
<1> QED
  BY <1>2, <1>3, <1>4, <1>5, <1>6, <1>7, <1>8, <1>9, <1>10, <1>11, <1>12, <1>13 DEF Step

-----------------------------------------------------------------------------
(* What was committed is invalidated, or a callback is going to do so. *)

Owed == \A k \in stale : k \in interrupted \/ \E u \in Tasks : Owes(u, k)

(* What the others owe they still owe. *)
LEMMA OwesKept ==
  ASSUME NEW t, Given(t), taken' = {},
         \A k \in stale' :
           \/ k \in interrupted' \/ Owes(t, k)'
           \/ k \in stale /\ (k \in interrupted => k \in interrupted')
              /\ (Owes(t, k) => Owes(t, k)' \/ k \in interrupted')
  PROVE  Owed'
<1>1. Owed /\ t \in Tasks /\ Sole(t)
  BY Known DEF Given, IInv, QInv, Owed
<1> SUFFICES ASSUME NEW k \in stale', k \notin interrupted'
             PROVE  \E u \in Tasks : Owes(u, k)'
  BY DEF Owed
<1>2. CASE Owes(t, k)'
  BY <1>1, <1>2
<1>3. CASE ~Owes(t, k)'
  <2>1. k \in stale /\ k \notin interrupted /\ ~Owes(t, k)
    BY <1>3
  <2>2. PICK u \in Tasks : Owes(u, k)
    BY <1>1, <2>1 DEF Owed
  <2>3. u # t
    BY <2>1, <2>2
  <2>4. Owes(u, k)'
    BY <1>1, <2>2, <2>3 DEF Owes, Sole, Top
  <2> QED
    BY <2>4
<1> QED
  BY <1>2, <1>3

(* A task owes nothing before it commits. *)
LEMMA OwesNothing ==
  ASSUME SInv, NEW t \in Tasks, draining[t] = {},
         frames[t] = <<>> \/ Top(t).stage # "committed"
  PROVE  \A k : ~Owes(t, k)
BY DEF Owes

(* So it is in every scope that has not ended. *)
LEMMA RunningOwesNothing ==
  ASSUME NEW t, Given(t),
         \/ MayEnter(t) \/ Running(t) \/ At(t, "write", "commit")
  PROVE  \A k : ~Owes(t, k)
<1>1. SInv /\ t \in Tasks /\ TypeOK
  BY Known
<1>2. CASE frames[t] = <<>>
  <2>1. draining[t] = {}
    BY <1>1, <1>2, Shaped DEF Draining
  <2> QED
    BY <1>1, <1>2, <2>1, OwesNothing
<1>3. CASE frames[t] # <<>>
  <2>1. \E kind \in {"uow", "savepoint", "write"}, stage \in {"body", "pre", "post", "commit"} :
          At(t, kind, stage)
    BY <1>3 DEF MayEnter, Running, InBlock, InHandler
  <2>2. draining[t] = {} /\ Top(t).stage # "committed"
    BY <1>1, <2>1, Inside DEF At
  <2> QED
    BY <1>1, <2>2, OwesNothing
<1> QED
  BY <1>2, <1>3

(* At a commit every write of the session has its invalidation queued. *)
LEMMA CommitsQueued ==
  ASSUME NEW t, Given(t), taken' = {}, AtCommit(t)
  PROVE  Depth(t) = 1 /\ Written(Current(t)) \subseteq queued[t]
<1>1. SInv /\ t \in Tasks /\ TypeOK /\ "handlerWrites" \notin taken /\ Queues(t)
  BY Known
<1>2. /\ Depth(t) # 0 /\ Depth(t) \in 1..Depth(t) /\ ~Draining(t) /\ Top(t) = F(t, Depth(t))
      /\ Top(t).own /\ ~unwinding[t] /\ Top(t).stage \in {"body", "commit"}
  BY <1>1, Inside DEF AtCommit, At
<1>3. Working(t) /\ Depth(t) = 1 /\ \A i \in DOMAIN frames[t] : i = 1
  BY <1>1, <1>2, OwnerWorks
<1>4. ASSUME NEW k \in Rows, Current(t).writes[k] # 0 PROVE k \in queued[t]
  <2>1. \A i : ~Awaits(t, i, k)
    BY <1>2, <1>3 DEF Awaits
  <2> QED
    BY <1>1, <1>2, <1>3, <1>4, <2>1 DEF Queues
<1> QED
  BY <1>3, <1>4 DEF Written

(* A commit leaves its rows to the callbacks, or to the fault that hid it. *)
LEMMA CommitOwes ==
  ASSUME NEW t, Given(t), taken' = {}, Commit(t) \/ CommitLost(t)
  PROVE  Owed'
<1>1. SInv /\ t \in Tasks /\ TypeOK /\ TypeOK' /\ AtCommit(t)
  BY Known DEF Commit, CommitLost
<1>2. Depth(t) = 1 /\ Written(Current(t)) \subseteq queued[t]
  BY <1>1, CommitsQueued
<1>3. \A k : ~Owes(t, k)
  BY <1>1, RunningOwesNothing DEF AtCommit, Running, InBlock
<1>4. stale' = stale \union Written(Current(t)) /\ queued' = queued
  BY DEF Commit, CommitLost, Commits, contextVars
<1>5. CASE Commit(t)
  <2>1. IsReplace(frames'[t], frames[t], [Top(t) EXCEPT !.stage = "committed"])
    BY <1>1, <1>5, CommitEffect DEF Ends
  <2>2. Top(t) \in Frame
    BY <1>1, <1>2, Typed
  <2> DEFINE f == [Top(t) EXCEPT !.stage = "committed"]
  <2>3. f.stage = "committed"
    BY <2>2 DEF Frame
  <2>4. IsReplace(frames'[t], frames[t], f)
    BY <2>1
  <2> HIDE DEF f
  <2>5. frames'[t] # <<>> /\ Len(frames'[t]) = 1 /\ frames'[t][1] = f
    <3>1. Depth(t) # 0
      BY <1>2
    <3>2. frames'[t] # <<>> /\ Len(frames'[t]) = Depth(t) /\ frames'[t][Depth(t)] = f
      BY <1>1, <2>4, <3>1, Altered
    <3> QED
      BY <1>2, <3>2
  <2>6. frames'[t] # <<>> /\ Top(t)'.stage = "committed"
    BY <2>3, <2>5 DEF Top, Last
  <2>7. \A k \in Written(Current(t)) : Owes(t, k)'
    BY <1>2, <1>4, <2>6 DEF Owes
  <2>8. interrupted' = interrupted
    BY <1>5 DEF Commit
  <2> QED
    BY <1>3, <1>4, <2>7, <2>8, OwesKept
<1>6. CASE CommitLost(t)
  <2>1. interrupted' = interrupted \union Written(Current(t))
    BY <1>6 DEF CommitLost
  <2> QED
    BY <1>3, <1>4, <2>1, OwesKept
<1> QED
  BY <1>5, <1>6

(* The end of the scope hands what it queued to the callbacks. *)
LEMMA CloseOwes ==
  ASSUME NEW t, Given(t), taken' = {}, Close(t) \/ CloseCancelled(t)
  PROVE  Owed'
<1>1. SInv /\ t \in Tasks /\ TypeOK /\ TypeOK' /\ "handlerWrites" \notin taken
  BY Known
<1>2. /\ Depth(t) # 0 /\ Depth(t) \in 1..Depth(t) /\ ~Draining(t) /\ draining[t] = {}
      /\ Top(t) = F(t, Depth(t)) /\ Top(t).own
  BY <1>1, InEnded DEF Close, CloseCancelled
<1>3. Depth(t) = 1 /\ F(t, 1).token
  BY <1>1, <1>2, OwnerWorks
<1>4. stale' = stale
  BY DEF Close, CloseCancelled, historyVars
<1>5. CASE Close(t)
  <2>1. interrupted' = interrupted
    BY <1>5 DEF Close, historyVars
  <2>2. draining'[t] = Drained(t)
    BY <1>1, <1>5, CloseEffect
  <2>3. \A k : Owes(t, k) => Owes(t, k)'
    BY <1>2, <1>3, <2>2 DEF Owes, Drained
  <2> QED
    BY <1>4, <2>1, <2>3, OwesKept
<1>6. CASE CloseCancelled(t)
  <2>1. interrupted' = interrupted \union queued[t]
    BY <1>6 DEF CloseCancelled
  <2>2. \A k : Owes(t, k) => k \in interrupted'
    BY <1>2, <2>1 DEF Owes
  <2> QED
    BY <1>4, <2>1, <2>2, OwesKept
<1> QED
  BY <1>5, <1>6

(* A callback that has run has invalidated its row, or failed. *)
LEMMA InvalidateOwes ==
  ASSUME NEW t, Given(t), taken' = {}, NEW k \in Rows, Invalidate(t, k) \/ InvalidateFails(t, k)
  PROVE  Owed'
<1>1. SInv /\ t \in Tasks
  BY Known
<1>2. /\ draining'[t] \subseteq draining[t]
      /\ draining[t] \ draining'[t] \subseteq (IF Invalidate(t, k) THEN {k} ELSE interrupted')
      /\ k \in draining[t]
  BY <1>1, InvalidateEffect
<1>3. Top(t).stage = "draining"
  BY <1>1, <1>2, InDraining
<1>4. \A j : Owes(t, j) => j \in draining[t]
  BY <1>3 DEF Owes
<1>5. \A j : j \in draining'[t] => Owes(t, j)'
  BY DEF Owes
<1>6. CASE Invalidate(t, k)
  <2>1. stale' = stale \ {k} /\ interrupted' = interrupted \ {k}
    BY <1>6 DEF Invalidate
  <2> QED
    BY <1>2, <1>4, <1>5, <1>6, <2>1, OwesKept
<1>7. CASE ~Invalidate(t, k)
  <2>1. stale' = stale /\ interrupted \subseteq interrupted'
    BY <1>7 DEF InvalidateFails
  <2> QED
    BY <1>2, <1>4, <1>5, <1>7, <2>1, OwesKept
<1> QED
  BY <1>6, <1>7

(* Whatever a task does. *)
LEMMA StepOwes ==
  ASSUME NEW t, Given(t), taken' = {}, Step(t)
  PROVE  Owed'
<1>1. SInv /\ t \in Tasks /\ "midCommit" \notin taken'
  BY Known
<1>2. ASSUME stale' = stale, interrupted' = interrupted,
             MayEnter(t) \/ Running(t) \/ At(t, "write", "commit")
      PROVE  Owed'
  BY <1>2, RunningOwesNothing, OwesKept
<1>3. CASE EnterUow(t) \/ EnterSavepoint(t) \/ \E k \in Rows : BeginWrite(t, k)
  <2>1. MayEnter(t) /\ stale' = stale /\ interrupted' = interrupted
    BY <1>3 DEF EnterUow, EnterSavepoint, BeginWrite, Enter, historyVars
  <2> QED
    BY <1>2, <2>1
<1>4. CASE Flush(t) \/ FlushFails(t) \/ Complete(t) \/ Raise(t)
  <2>1. Running(t) /\ stale' = stale /\ interrupted' = interrupted
    BY <1>4 DEF Flush, FlushFails, Complete, Raise, Running, InHandler, historyVars
  <2> QED
    BY <1>2, <2>1
<1>5. CASE ExitJoined(t) \/ ReleaseSavepoint(t) \/ MidRollback(t)
  <2>1. Running(t) /\ stale' = stale /\ interrupted' = interrupted
    BY <1>5 DEF ExitJoined, ReleaseSavepoint, MidRollback, Running, InBlock, historyVars
  <2> QED
    BY <1>2, <2>1
<1>6. CASE CommitFails(t)
  <2>1. /\ Running(t) \/ At(t, "write", "commit")
        /\ stale' = stale /\ interrupted' = interrupted
    BY <1>6 DEF CommitFails, AtCommit, Running, InBlock
  <2> QED
    BY <1>2, <2>1
<1>7. CASE Swallow(t) \/ \E k \in Rows : FlushPending(t, k)
  <2>1. UNCHANGED <<frames, queued, draining, stale, interrupted>>
    BY <1>7 DEF Swallow, FlushPending, contextVars
  <2>2. \A k : Owes(t, k) => Owes(t, k)'
    BY <2>1 DEF Owes, Top
  <2> QED
    BY <2>1, <2>2, OwesKept
<1>8. ~MidCommit(t)
  BY <1>1, MidCommitEffect
<1>9. CASE Commit(t) \/ CommitLost(t)
  BY <1>9, CommitOwes
<1>10. CASE Close(t) \/ CloseCancelled(t)
  BY <1>10, CloseOwes
<1>11. ASSUME NEW k \in Rows, Invalidate(t, k) \/ InvalidateFails(t, k) PROVE Owed'
  BY <1>11, InvalidateOwes
<1> QED
  BY <1>3, <1>4, <1>5, <1>6, <1>7, <1>8, <1>9, <1>10, <1>11 DEF Step

-----------------------------------------------------------------------------
(* The invariant, and what it is for. *)

(* Nothing changes for the other tasks. *)
LEMMA OthersQueue ==
  ASSUME NEW t, Given(t), NEW u \in Tasks \ {t}, Queues(u)
  PROVE  Queues(u)'
<1>1. /\ frames'[u] = frames[u] /\ sessions'[u] = sessions[u] /\ unwinding'[u] = unwinding[u]
      /\ queued'[u] = queued[u] /\ (u \in leaked' <=> u \in leaked)
  BY DEF Given, Sole
<1>2. Working(u)' <=> Working(u)
  BY <1>1 DEF Working
<1>3. Current(u)' = Current(u) /\ \A i : F(u, i)' = F(u, i)
  BY <1>1 DEF Current, F
<1>4. \A i, k : Awaits(u, i, k)' <=> Awaits(u, i, k)
  BY <1>1, <1>3 DEF Awaits
<1> QED
  BY <1>1, <1>2, <1>3, <1>4 DEF Queues

(* A step of a task keeps the whole invariant. *)
LEMMA StepKeeps ==
  ASSUME IInv, NEW t \in Tasks, Step(t)
  PROVE  IInv'
<1>1. /\ TypeOK' /\ Sole(t) /\ leaked \subseteq leaked' /\ leaked' \subseteq leaked \union {t}
      /\ taken \subseteq taken'
  BY StepShaped DEF IInv
<1>2. SInv'
  BY ShapeStep DEF IInv, Next
<1>3. Provenance(t)
  BY <1>1, StepProvenance DEF IInv
<1>4. Numbered'
  BY <1>1, <1>3, NumberedStep DEF IInv
<1>5. Given(t)
  BY <1>1, <1>2, <1>3, <1>4 DEF Given
<1>6. Own(t)
  BY <1>5, StepOwn
<1>7. NInv'
  <2> SUFFICES ASSUME Sober' PROVE (\A k \in Rows : db'[k] \notin undone') /\ \A u \in Tasks : Separate(u)'
    BY DEF NInv, Sober
  <2>1. \A k \in Rows : db'[k] \notin undone'
    BY <1>1, <1>3, DbStaysClean DEF IInv
  <2>2. \A u \in Tasks \ {t} : Separate(u)'
    BY <1>1, <1>3, OthersSeparate DEF IInv
  <2>3. Separate(t)'
    BY <1>6 DEF Own
  <2> QED
    BY <2>1, <2>2, <2>3
<1>8. QInv'
  <2> SUFFICES ASSUME taken' = {} PROVE Owed' /\ \A u \in Tasks : Queues(u)'
    BY DEF QInv, Owed
  <2>1. taken = {}
    BY <1>1
  <2>2. \A u \in Tasks \ {t} : Queues(u)'
    BY <1>5, <2>1, OthersQueue DEF IInv, QInv
  <2>3. Queues(t)'
    BY <1>6 DEF Own
  <2>4. Owed'
    BY <1>5, StepOwes
  <2> QED
    BY <2>2, <2>3, <2>4
<1> QED
  BY <1>2, <1>4, <1>7, <1>8 DEF IInv

(* Nothing happens: the invariant stays. *)
LEMMA StutterKeeps ==
  ASSUME IInv, UNCHANGED vars
  PROVE  IInv'
<1>1. /\ UNCHANGED <<db, clock, frames, sessions, ambient, region, queued, draining, unwinding>>
      /\ UNCHANGED <<stale, interrupted, leaked, undone, taken>>
  BY DEF vars, contextVars, historyVars
<1>2. SInv'
  BY ShapeStep DEF IInv
<1>3. \A t, i : F(t, i)' = F(t, i)
  BY <1>1 DEF F
<1>4. \A t : Current(t)' = Current(t) /\ (Working(t)' <=> Working(t)) /\ Top(t)' = Top(t)
  BY <1>1 DEF Current, Working, Top
<1>5. Numbered'
  BY <1>1, <1>3 DEF IInv, Numbered
<1>6. \A t \in Tasks : Separate(t) => Separate(t)'
  <2> SUFFICES ASSUME NEW t \in Tasks PROVE Separate(t) => Separate(t)'
    OBVIOUS
  <2>1. SeparateScopes(t)' <=> SeparateScopes(t)
    BY <1>1, <1>3 DEF SeparateScopes, MayRaise
  <2>2. SeparateSaved(t)' <=> SeparateSaved(t)
    BY <1>1, <1>3 DEF SeparateSaved
  <2>3. SeparateWrites(t)' <=> SeparateWrites(t)
    BY <1>1, <1>3, <1>4 DEF SeparateWrites
  <2> QED
    BY <1>4, <2>1, <2>2, <2>3 DEF Separate
<1>7. NInv'
  BY <1>1, <1>6 DEF IInv, NInv
<1>8. \A t, i, k : Awaits(t, i, k)' <=> Awaits(t, i, k)
  BY <1>1, <1>3 DEF Awaits
<1>9. \A t \in Tasks : Queues(t) => Queues(t)'
  BY <1>1, <1>3, <1>4, <1>8 DEF Queues
<1>10. \A t, k : Owes(t, k)' <=> Owes(t, k)
  BY <1>1, <1>4 DEF Owes
<1>11. QInv'
  BY <1>1, <1>9, <1>10 DEF IInv, QInv
<1> QED
  BY <1>2, <1>5, <1>7, <1>11 DEF IInv

(* At first no task works, and nothing was written. *)
LEMMA Initially ==
  ASSUME Init
  PROVE  IInv
<1>1. SInv /\ Numbered
  BY ShapeInit, NumberedInit
<1>2. \A t \in Tasks : frames[t] = <<>> /\ sessions[t] = <<>> /\ ~Working(t)
  BY DEF Init, Working
<1>3. \A t \in Tasks : Separate(t) /\ Queues(t)
  BY <1>2 DEF Separate, SeparateScopes, Queues
<1>4. undone = {} /\ stale = {}
  BY DEF Init
<1> QED
  BY <1>1, <1>3, <1>4 DEF IInv, NInv, QInv

(* Every reachable state satisfies the invariant. *)
LEMMA Invariance == Spec => []IInv
<1>1. Init => IInv
  BY Initially
<1>2. IInv /\ [Next]_vars => IInv'
  BY StepKeeps, StutterKeeps DEF Next
<1> QED
  BY <1>1, <1>2, PTL DEF Spec

(* A committed row has its invalidation queued or running for as long as the  *)
(* cache was not invalidated, unless a fault took it: for any number of tasks *)
(* and rows, any nesting, any exceptions.                                     *)
THEOREM CommitsAreInvalidated == Spec => []InvalidationFollowsCommit
<1>1. IInv => InvalidationFollowsCommit
  BY DEF IInv, QInv, Owes, InvalidationFollowsCommit
<1> QED
  BY <1>1, Invariance, PTL

(* No write made in a scope that an exception left is in the database, and    *)
(* none gets there later with a commit of the scopes around it.               *)
THEOREM FailedScopesStayOut == Spec => []FailedScopesLeaveNothing
<1>1. IInv => FailedScopesLeaveNothing
  BY DEF IInv, NInv, FailedScopesLeaveNothing, RollbackIsComplete
<1> QED
  BY <1>1, Invariance, PTL
=============================================================================
