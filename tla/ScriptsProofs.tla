--------------------------- MODULE ScriptsProofs ---------------------------
(***************************************************************************)
(* Theorems about Scripts, for any sessions, databases, codes and bounds,  *)
(* and for scripts and EXECs within each other to any depth.               *)
(***************************************************************************)
EXTENDS Scripts, SequenceTheorems, WellFoundedInduction, TLAPS

(***************************************************************************)
(* The invariant of what EXEC owes.  Queues are the commands that wait for *)
(* an EXEC, fs the frames with those that wait within one, l the log.      *)
(***************************************************************************)
Queues == [s \in Sessions |-> IF InTransaction(s) THEN commands[s] ELSE <<>>]

HasRun(i, l) == \E k \in 1..Len(l.ran) : l.ran[k] = i

(* A command that waits has been made and has not run.                     *)
Waiting(c, l) == c.id <= l.made /\ ~HasRun(c.id, l)

QueuesWait(Q, l) ==
  /\ \A s \in Sessions : \A n \in 1..Len(Q[s]) : Waiting(Q[s][n], l)
  /\ \A s, t \in Sessions : \A m \in 1..Len(Q[s]), n \in 1..Len(Q[t]) :
       Q[s][m].id = Q[t][n].id => s = t /\ m = n

FramesWait(fs, l) ==
  /\ \A p \in 1..Len(fs) : \A n \in 1..Len(fs[p].todo) : Waiting(fs[p].todo[n], l)
  /\ \A p, q \in 1..Len(fs) : \A m \in 1..Len(fs[p].todo), n \in 1..Len(fs[q].todo) :
       fs[p].todo[m].id = fs[q].todo[n].id => p = q /\ m = n

(* No command waits in a queue and in an EXEC.                             *)
Apart(Q, fs) ==
  \A s \in Sessions, p \in 1..Len(fs) :
    \A m \in 1..Len(Q[s]), n \in 1..Len(fs[p].todo) : Q[s][m].id # fs[p].todo[n].id

RunOnce(l) ==
  /\ \A k \in 1..Len(l.ran) : l.ran[k] <= l.made
  /\ \A j, k \in 1..Len(l.ran) : l.ran[j] = l.ran[k] => j = k

(* What was promised has run or is still to do.                            *)
Kept(fs, l) ==
  \A i \in l.promised :
    HasRun(i, l) \/ \E p \in 1..Len(fs) : \E n \in 1..Len(fs[p].todo) : fs[p].todo[n].id = i

Owes(Q, fs, l) ==
  QueuesWait(Q, l) /\ FramesWait(fs, l) /\ Apart(Q, fs) /\ RunOnce(l) /\ Kept(fs, l)

(***************************************************************************)
(* The invariant of what scripts read.                                     *)
(***************************************************************************)

Writers == {"write", "push", "exec", "eval", "evalsha"}

(* The i-th call has written to a database where nobody waited for that,   *)
(* and nothing among the calls before the j-th may have written since.     *)
Written(seen, i, j) ==
  /\ i < j /\ seen[i].op \in {"write", "push"} /\ seen[i].value # Queued
  /\ seen[i].db \notin seen[i].called
  /\ \A n \in (i + 1)..(j - 1) : seen[n].op \notin Writers

(* What the innermost script wrote last to a database is still there.      *)
Fresh(fs, st) ==
  IsScript(fs) =>
    LET seen == fs[Len(fs)].seen IN
    \A i \in 1..Len(seen) :
      Written(seen, i, Len(seen) + 1) => seen[i].db \in Dbs /\ st[seen[i].db] = Bulk(seen[i].text)

ReadsWell(seen) ==
  \A i, j \in 1..Len(seen) :
    /\ Written(seen, i, j)
    /\ seen[j].op = "read" /\ seen[j].value # Queued /\ seen[j].db = seen[i].db
    => seen[j].value = ToLua(Bulk(seen[i].text))

AllReadWell(fs) == \A p \in 1..Len(fs) : fs[p].kind = "script" => ReadsWell(fs[p].seen)

ReadInv == AllReadWell(frames) /\ Fresh(frames, store)

Inv == TypeOK /\ Owes(Queues, frames, log) /\ ReadInv

(***************************************************************************)
(* Sequences of anything.                                                  *)
(***************************************************************************)
IsSeq(q) == q \in Seq(Range(q))

LEMMA SeqIsSeq ==
  ASSUME NEW S, NEW q \in Seq(S)
  PROVE  IsSeq(q) /\ Len(q) \in Nat /\ DOMAIN q = 1..Len(q)
BY DEF IsSeq, Range

LEMMA EmptyIsSeq == IsSeq(<<>>)
<1>1. <<>> \in Seq({})
  OBVIOUS
<1>. QED  BY <1>1, SeqIsSeq

LEMMA AppendIsSeq ==
  ASSUME NEW q, IsSeq(q), NEW e
  PROVE  /\ IsSeq(Append(q, e))
         /\ Len(Append(q, e)) = Len(q) + 1
         /\ Append(q, e)[Len(q) + 1] = e
         /\ \A i \in 1..Len(q) : Append(q, e)[i] = q[i]
<1>1. q \in Seq(Range(q) \cup {e})
  BY DEF IsSeq
<1>2. Append(q, e) \in Seq(Range(q) \cup {e})
  BY <1>1
<1>3. IsSeq(Append(q, e))
  BY <1>2, SeqIsSeq
<1>. QED  BY <1>1, <1>3

LEMMA ExceptIsSeq ==
  ASSUME NEW q, IsSeq(q), NEW n \in 1..Len(q), NEW e
  PROVE  /\ IsSeq([q EXCEPT ![n] = e])
         /\ Len([q EXCEPT ![n] = e]) = Len(q)
         /\ [q EXCEPT ![n] = e][n] = e
         /\ \A i \in 1..Len(q) : i # n => [q EXCEPT ![n] = e][i] = q[i]
<1>1. q \in Seq(Range(q) \cup {e})
  BY DEF IsSeq
<1>2. [q EXCEPT ![n] = e] \in Seq(Range(q) \cup {e})
  BY <1>1
<1>3. IsSeq([q EXCEPT ![n] = e])
  BY <1>2, SeqIsSeq
<1>. QED  BY <1>1, <1>2, <1>3

LEMMA SubSeqIsSeq ==
  ASSUME NEW q, IsSeq(q), NEW n \in 0..Len(q)
  PROVE  /\ IsSeq(SubSeq(q, 1, n))
         /\ Len(SubSeq(q, 1, n)) = n
         /\ \A i \in 1..n : SubSeq(q, 1, n)[i] = q[i]
<1>1. \A i \in 1..n : q[i] \in Range(q)
  BY DEF IsSeq, Range
<1>2. /\ SubSeq(q, 1, n) \in Seq(Range(q))
      /\ Len(SubSeq(q, 1, n)) = IF 1 <= n THEN n - 1 + 1 ELSE 0
      /\ \A i \in 1..n - 1 + 1 : SubSeq(q, 1, n)[i] = q[1 + i - 1]
  BY ONLY <1>1, SubSeqProperties, n \in 0..Len(q), IsSeq(q) DEF IsSeq
<1>3. n \in Nat
  BY DEF IsSeq
<1>4. Len(SubSeq(q, 1, n)) = n
  BY <1>2, <1>3
<1>5. ASSUME NEW i \in 1..n
      PROVE  SubSeq(q, 1, n)[i] = q[i]
  <2>1. i \in 1..n - 1 + 1 /\ 1 + i - 1 = i
    BY <1>3
  <2>. QED  BY <1>2, <2>1
<1>. QED  BY <1>2, <1>4, <1>5, SeqIsSeq

LEMMA TailIsSeq ==
  ASSUME NEW S, NEW q \in Seq(S), q # <<>>
  PROVE  /\ Tail(q) \in Seq(S)
         /\ Head(q) \in S /\ Head(q) = q[1]
         /\ Len(q) \in Nat /\ Len(q) >= 1
         /\ Len(Tail(q)) = Len(q) - 1
         /\ \A i \in 1..Len(Tail(q)) : Tail(q)[i] = q[i + 1]
BY HeadTailProperties

(* A finite set of numbers has a largest element.                          *)
LEMMA LargestBelow ==
  ASSUME NEW n \in Nat, NEW T \in SUBSET (1..n)
  PROVE  \E m \in {0} \cup T : \A i \in T : i <= m
<1>. DEFINE U == {u \in 0..n : \A i \in T : i <= u}
<1>1. U \subseteq Nat /\ n \in U
  OBVIOUS
<1>2. PICK R : R = {ss \in Nat \X Nat : ss[1] < ss[2]}
  OBVIOUS
<1>3. IsWellFoundedOn(R, Nat)
  BY <1>2, NatLessThanWellFounded, Zenon DEF OpToRel
<1>4. \E u \in U : \A y \in U : ~(<<y, u>> \in R)
  <2>1. U # {}
    BY <1>1
  <2>. HIDE DEF U
  <2>. QED  BY <1>1, <1>3, <2>1, WFMin, Zenon
<1>5. PICK u \in U : \A y \in U : ~(y < u)
  BY <1>1, <1>2, <1>4
<1>6. CASE u = 0
  BY <1>6
<1>7. CASE u # 0
  <2>1. u - 1 \in 0..n /\ u - 1 < u
    BY <1>7
  <2>2. u - 1 \notin U
    BY <1>5, <2>1
  <2>3. PICK i \in T : ~(i <= u - 1)
    BY <2>1, <2>2
  <2>4. i = u
    BY <2>3
  <2>. QED  BY <2>3, <2>4
<1>. QED  BY <1>6, <1>7

(***************************************************************************)
(* Stacks of frames.                                                       *)
(***************************************************************************)

(* The EXECs of gs have what those of fs still have to do.                 *)
TodoKept(fs, gs) ==
  /\ \A p \in 1..Len(gs) : \A n \in 1..Len(gs[p].todo) :
       p \in 1..Len(fs) /\ gs[p].todo = fs[p].todo
  /\ \A p \in 1..Len(fs) : \A n \in 1..Len(fs[p].todo) :
       p \in 1..Len(gs) /\ gs[p].todo = fs[p].todo

LEMMA StackIsSeq ==
  ASSUME NEW fs, IsStack(fs)
  PROVE  /\ IsSeq(fs) /\ Len(fs) \in Nat /\ DOMAIN fs = 1..Len(fs)
         /\ \A p \in 1..Len(fs) : IsFrame(fs[p])
         /\ fs = <<>> <=> Len(fs) = 0
<1>1. fs \in Seq(Range(fs)) /\ \A p \in DOMAIN fs : IsFrame(fs[p])
  BY DEF IsStack
<1>2. IsSeq(fs) /\ Len(fs) \in Nat /\ DOMAIN fs = 1..Len(fs)
  BY <1>1, SeqIsSeq
<1>3. fs = <<>> <=> Len(fs) = 0
  BY <1>1
<1>. QED  BY <1>1, <1>2, <1>3

LEMMA StackFromSeq ==
  ASSUME NEW fs, IsSeq(fs), \A p \in 1..Len(fs) : IsFrame(fs[p])
  PROVE  IsStack(fs)
<1>1. DOMAIN fs = 1..Len(fs)
  BY SeqIsSeq DEF IsSeq
<1>. QED  BY <1>1 DEF IsStack, IsSeq

LEMMA EmptyStack == IsStack(<<>>)
<1>1. IsSeq(<<>>) /\ Len(<<>>) = 0
  BY EmptyIsSeq
<1>. QED  BY <1>1, StackFromSeq

LEMMA ScriptsHaveNothingToDo ==
  ASSUME NEW f, IsFrame(f), f.kind = "script"
  PROVE  f.todo = <<>> /\ Len(f.todo) = 0
BY DEF IsFrame

LEMMA ScriptFrame == IsFrame(Frame("script", 0, <<>>))
<1>1. <<>> \in Seq(Commands) /\ 0 \in Dbs
  BY DbsAssumption
<1>2. <<>> \in Seq(Range(<<>>))
  BY EmptyIsSeq DEF IsSeq
<1>. QED  BY <1>1, <1>2 DEF IsFrame, Frame

LEMMA ExecFrame ==
  ASSUME NEW d \in Dbs, NEW q \in Seq(Commands)
  PROVE  IsFrame(Frame("exec", d, q))
<1>1. <<>> \in Seq(Range(<<>>))
  BY EmptyIsSeq DEF IsSeq
<1>. QED  BY <1>1 DEF IsFrame, Frame

(* A script that has seen the result of a call.                            *)
LEMMA SeenStack ==
  ASSUME NEW fs, IsStack(fs), IsScript(fs), NEW c, NEW d, NEW v, NEW called
  PROVE  LET gs == Seen(fs, c, d, v, called) IN
         /\ IsStack(gs) /\ TodoKept(fs, gs) /\ Len(gs) = Len(fs)
         /\ \A p \in 1..Len(fs) : p # Len(fs) => gs[p] = fs[p]
         /\ gs[Len(fs)].kind = "script"
         /\ gs[Len(fs)].seen =
              Append(fs[Len(fs)].seen,
                     [op |-> c.op, text |-> c.text, db |-> d, value |-> v, called |-> called])
<1>. DEFINE m == Len(fs)
            call == [op |-> c.op, text |-> c.text, db |-> d, value |-> v, called |-> called]
            top == [fs[m] EXCEPT !.seen = Append(@, call)]
            gs == [fs EXCEPT ![m] = top]
<1>1. gs = Seen(fs, c, d, v, called)
  BY DEF Seen
<1>2. m \in 1..Len(fs) /\ fs[m].kind = "script" /\ IsFrame(fs[m])
  BY StackIsSeq DEF IsScript, Last
<1>3. /\ top = [kind |-> "script", db |-> fs[m].db, todo |-> fs[m].todo,
                seen |-> Append(fs[m].seen, call)]
      /\ fs[m].db \in Dbs /\ fs[m].todo = <<>> /\ fs[m].todo \in Seq(Commands)
      /\ IsSeq(fs[m].seen)
  <2>. HIDE DEF call
  <2>1. PICK f : f = fs[m]
    OBVIOUS
  <2>2. /\ f = [kind |-> f.kind, db |-> f.db, todo |-> f.todo, seen |-> f.seen]
        /\ f.kind = "script" /\ f.db \in Dbs /\ f.todo \in Seq(Commands) /\ IsSeq(f.seen)
    BY <1>2, <2>1 DEF IsFrame, IsSeq
  <2>3. f.todo = <<>>
    BY <1>2, <2>1, ScriptsHaveNothingToDo
  <2>4. [f EXCEPT !.seen = Append(@, call)] =
          [kind |-> "script", db |-> f.db, todo |-> f.todo, seen |-> Append(f.seen, call)]
    <3>1. PICK b, t, s : f = [kind |-> "script", db |-> b, todo |-> t, seen |-> s]
      BY <2>2
    <3>2. f.kind = "script" /\ f.db = b /\ f.todo = t /\ f.seen = s
      BY ONLY <3>1
    <3>3. [f EXCEPT !.seen = Append(@, call)] =
            [kind |-> "script", db |-> b, todo |-> t, seen |-> Append(s, call)]
      BY ONLY <3>1, <3>2
    <3>. QED  BY ONLY <3>2, <3>3
  <2>. QED  BY <2>1, <2>2, <2>3, <2>4
<1>4. IsSeq(Append(fs[m].seen, call))
  BY <1>3, AppendIsSeq
<1>. HIDE DEF call
<1>5. IsFrame(top) /\ top.kind = "script" /\ top.seen = Append(fs[m].seen, call)
      /\ top.todo = fs[m].todo
  BY <1>3, <1>4 DEF IsFrame, IsSeq
<1>. HIDE DEF top
<1>6. /\ IsSeq(gs) /\ Len(gs) = Len(fs) /\ gs[m] = top
      /\ \A p \in 1..Len(fs) : p # m => gs[p] = fs[p]
  BY <1>2, StackIsSeq, ExceptIsSeq
<1>. HIDE DEF gs, m
<1>7. IsStack(gs)
  BY <1>5, <1>6, StackIsSeq, StackFromSeq
<1>8. TodoKept(fs, gs)
  BY <1>5, <1>6 DEF TodoKept
<1>. QED  BY <1>1, <1>2, <1>5, <1>6, <1>7, <1>8 DEF m, call

(* A script or an EXEC that begins.                                        *)
LEMMA PushStack ==
  ASSUME NEW fs, IsStack(fs), NEW f, IsFrame(f)
  PROVE  /\ IsStack(Append(fs, f)) /\ Len(Append(fs, f)) = Len(fs) + 1
         /\ Append(fs, f)[Len(fs) + 1] = f
         /\ \A p \in 1..Len(fs) : Append(fs, f)[p] = fs[p]
         /\ f.todo = <<>> => TodoKept(fs, Append(fs, f))
<1>. DEFINE gs == Append(fs, f)
<1>1. /\ IsSeq(gs) /\ Len(gs) = Len(fs) + 1 /\ gs[Len(fs) + 1] = f
      /\ \A p \in 1..Len(fs) : gs[p] = fs[p]
  BY StackIsSeq, AppendIsSeq
<1>2. Len(fs) \in Nat /\ \A p \in 1..Len(fs) : IsFrame(fs[p])
  BY StackIsSeq
<1>. HIDE DEF gs
<1>3. \A p \in 1..Len(gs) : p \in 1..Len(fs) \/ p = Len(fs) + 1
  BY <1>1, <1>2
<1>4. IsStack(gs)
  BY <1>1, <1>2, <1>3, StackFromSeq
<1>5. f.todo = <<>> => TodoKept(fs, gs)
  BY <1>1, <1>2, <1>3 DEF TodoKept
<1>. QED  BY <1>1, <1>4, <1>5 DEF gs

(* Frames that end: what is left of the stack, when the EXECs among those  *)
(* that end have nothing to do.                                            *)
LEMMA CutStack ==
  ASSUME NEW fs, IsStack(fs), NEW n \in 0..Len(fs)
  PROVE  /\ IsStack(SubSeq(fs, 1, n)) /\ Len(SubSeq(fs, 1, n)) = n
         /\ \A p \in 1..n : SubSeq(fs, 1, n)[p] = fs[p]
         /\ (\A p \in 1..Len(fs) : p > n => fs[p].todo = <<>>) => TodoKept(fs, SubSeq(fs, 1, n))
<1>. DEFINE gs == SubSeq(fs, 1, n)
<1>1. IsSeq(gs) /\ Len(gs) = n /\ \A p \in 1..n : gs[p] = fs[p]
  BY StackIsSeq, SubSeqIsSeq
<1>2. Len(fs) \in Nat /\ \A p \in 1..Len(fs) : IsFrame(fs[p])
  BY StackIsSeq
<1>. HIDE DEF gs
<1>3. IsStack(gs)
  BY <1>1, <1>2, StackFromSeq
<1>4. (\A p \in 1..Len(fs) : p > n => fs[p].todo = <<>>) => TodoKept(fs, gs)
  BY <1>1, <1>2 DEF TodoKept
<1>. QED  BY <1>1, <1>3, <1>4 DEF gs

(* An exception leaves no script on top of the stack.                      *)
LEMMA AbortStack ==
  ASSUME NEW fs, IsStack(fs), NEW gs, 
         gs = LET execs == {i \in DOMAIN fs : fs[i].kind = "exec"} IN
              SubSeq(fs, 1, CHOOSE n \in {0} \cup execs : \A i \in execs : i <= n)
  PROVE  /\ IsStack(gs) /\ TodoKept(fs, gs) /\ ~IsScript(gs)
         /\ Len(gs) <= Len(fs) /\ \A p \in 1..Len(gs) : gs[p] = fs[p]
<1>. DEFINE execs == {i \in DOMAIN fs : fs[i].kind = "exec"}
            n == CHOOSE n \in {0} \cup execs : \A i \in execs : i <= n
<1>1. Len(fs) \in Nat /\ DOMAIN fs = 1..Len(fs) /\ \A p \in 1..Len(fs) : IsFrame(fs[p])
  BY StackIsSeq
<1>2. n \in {0} \cup execs /\ \A i \in execs : i <= n
  <2>1. \E m \in {0} \cup execs : \A i \in execs : i <= m
    BY <1>1, LargestBelow
  <2>. HIDE DEF execs
  <2>. QED  BY <2>1
<1>3. gs = SubSeq(fs, 1, n)
  OBVIOUS
<1>. HIDE DEF n
<1>4. n \in 0..Len(fs) /\ (n = 0 \/ fs[n].kind = "exec")
  BY <1>1, <1>2
<1>5. \A p \in 1..Len(fs) : p > n => fs[p].kind # "exec"
  BY <1>1, <1>2, <1>4
<1>6. \A p \in 1..Len(fs) : p > n => fs[p].todo = <<>>
  <2>. TAKE p \in 1..Len(fs)
  <2>. HAVE p > n
  <2>1. IsFrame(fs[p]) /\ fs[p].kind # "exec"
    BY <1>1, <1>5
  <2>. QED  BY <2>1 DEF IsFrame
<1>7. /\ IsStack(gs) /\ TodoKept(fs, gs) /\ Len(gs) = n
      /\ \A p \in 1..n : gs[p] = fs[p]
  BY <1>3, <1>4, <1>6, CutStack
<1>8. ~IsScript(gs)
  <2>1. CASE n = 0
    BY <1>7, <2>1, StackIsSeq DEF IsScript
  <2>2. CASE n # 0
    <3>1. n \in 1..n /\ gs[n] = fs[n]
      BY ONLY <1>1, <1>4, <1>7, <2>2
    <3>. QED  BY ONLY <1>4, <1>7, <2>2, <3>1 DEF IsScript, Last
  <2>. QED  BY <2>1, <2>2
<1>. QED  BY ONLY <1>1, <1>4, <1>7, <1>8

(***************************************************************************)
(* What scripts have read.                                                 *)
(***************************************************************************)
LEMMA WrittenBefore ==
  ASSUME NEW seen, IsSeq(seen), NEW call, NEW i \in 1..Len(seen)
  PROVE  /\ \A j \in 1..Len(seen) + 1 :
              Written(Append(seen, call), i, j) <=> Written(seen, i, j)
         /\ Written(Append(seen, call), i, Len(seen) + 2) =>
              Written(seen, i, Len(seen) + 1) /\ call.op \notin Writers
<1>. DEFINE more == Append(seen, call)
            m == Len(seen)
<1>1. /\ m \in Nat /\ more[m + 1] = call
      /\ \A n \in 1..m : more[n] = seen[n]
  BY AppendIsSeq, SeqIsSeq DEF IsSeq
<1>. HIDE DEF more, m
<1>2. i \in 1..m
  BY DEF m
<1>3. \A j \in 1..m + 1 : Written(more, i, j) <=> Written(seen, i, j)
  <2>. TAKE j \in 1..m + 1
  <2>1. \A n \in (i + 1)..(j - 1) : more[n] = seen[n]
    BY <1>1, <1>2
  <2>2. more[i] = seen[i]
    BY <1>1, <1>2
  <2>. QED  BY <2>1, <2>2 DEF Written
<1>4. ASSUME Written(more, i, m + 2)
      PROVE  Written(seen, i, m + 1) /\ call.op \notin Writers
  <2>1. \A n \in (i + 1)..((m + 2) - 1) : more[n].op \notin Writers
    BY <1>4 DEF Written
  <2>2. m + 1 \in (i + 1)..((m + 2) - 1)
    BY <1>1, <1>2
  <2>3. \A n \in (i + 1)..((m + 1) - 1) : n \in (i + 1)..((m + 2) - 1) /\ more[n] = seen[n]
    BY <1>1, <1>2
  <2>4. more[i] = seen[i] /\ i < m + 1
    BY <1>1, <1>2
  <2>5. /\ seen[i].op \in {"write", "push"} /\ seen[i].value # Queued
        /\ seen[i].db \notin seen[i].called
    BY <1>4, <2>4 DEF Written
  <2>6. \A n \in (i + 1)..((m + 1) - 1) : seen[n].op \notin Writers
    BY <2>1, <2>3
  <2>7. call.op \notin Writers
    BY <1>1, <2>1, <2>2
  <2>. QED  BY <2>4, <2>5, <2>6, <2>7 DEF Written
<1>. QED  BY <1>3, <1>4 DEF more, m

Silent(op) == op \notin {"write", "push", "read"}

(* What a call that answers v does to the databases st: those who wait for *)
(* a push may take from the databases called.                              *)
Harmless(c, v, called, d, st, st2) ==
  \/ v = Queued /\ st2 = st
  \/ Silent(c.op) /\ st2 = st
  \/ c.op = "read" /\ st2 = st /\ v = ToLua(st[d])
  \/ c.op \in {"write", "push"} /\ d \in Dbs /\ (d \notin called => st2[d] = Bulk(c.text))

LEMMA SeenReadsWell ==
  ASSUME NEW fs, IsStack(fs), IsScript(fs), AllReadWell(fs),
         NEW c, NEW d, NEW v, NEW called, NEW S, NEW st \in [Dbs -> S], NEW st2,
         Harmless(c, v, called, d, st, st2), Fresh(fs, st) \/ c.op \in Writers
  PROVE  AllReadWell(Seen(fs, c, d, v, called)) /\ Fresh(Seen(fs, c, d, v, called), st2)
<1>. DEFINE m == Len(fs)
            call == [op |-> c.op, text |-> c.text, db |-> d, value |-> v, called |-> called]
<1>1. PICK gs : gs = Seen(fs, c, d, v, called)
  OBVIOUS
<1>2. PICK seen : seen = fs[m].seen
  OBVIOUS
<1>3. PICK more : more = Append(seen, call)
  OBVIOUS
<1>4. /\ Len(gs) = m /\ gs[m].kind = "script" /\ gs[m].seen = more
      /\ \A p \in 1..m : p # m => gs[p] = fs[p]
  BY <1>1, <1>2, <1>3, SeenStack
<1>5. m \in 1..m /\ m \in Nat /\ IsFrame(fs[m]) /\ fs[m].kind = "script"
  BY StackIsSeq DEF IsScript, Last
<1>6. IsSeq(seen)
  BY <1>2, <1>5 DEF IsFrame, IsSeq
<1>7. PICK n : n = Len(seen)
  OBVIOUS
<1>8. /\ n \in Nat /\ Len(more) = n + 1 /\ more[n + 1] = call
      /\ \A i \in 1..n : more[i] = seen[i]
  BY <1>3, <1>6, <1>7, AppendIsSeq, SeqIsSeq DEF IsSeq
<1>9. \A i \in 1..n : /\ \A j \in 1..n + 1 : Written(more, i, j) <=> Written(seen, i, j)
                      /\ Written(more, i, n + 2) => Written(seen, i, n + 1) /\ call.op \notin Writers
  BY <1>3, <1>6, <1>7, WrittenBefore
<1>10. /\ call.op = c.op /\ call.text = c.text /\ call.db = d /\ call.value = v
       /\ call.called = called
  OBVIOUS
<1>11. ReadsWell(seen)
  BY <1>2, <1>5 DEF AllReadWell
<1>12. ASSUME NEW i \in 1..n, Written(seen, i, n + 1), c.op \notin Writers
       PROVE  seen[i].db \in Dbs /\ st[seen[i].db] = Bulk(seen[i].text)
  <2>1. Fresh(fs, st)
    BY <1>12
  <2>. QED  BY <1>2, <1>7, <1>12, <2>1 DEF Fresh
<1>. HIDE DEF call, m
<1>13. ReadsWell(more)
  <2>1. SUFFICES ASSUME NEW i \in 1..Len(more), NEW j \in 1..Len(more), Written(more, i, j),
                        more[j].op = "read", more[j].value # Queued, more[j].db = more[i].db
                 PROVE  more[j].value = ToLua(Bulk(more[i].text))
    BY DEF ReadsWell
  <2>2. i < j /\ i \in 1..n /\ j \in 1..n + 1 /\ more[i] = seen[i]
    BY <1>8, <2>1 DEF Written
  <2>3. Written(seen, i, j)
    BY <1>9, <2>1, <2>2
  <2>4. CASE j \in 1..n
    <3>1. more[j] = seen[j]
      BY <1>8, <2>4
    <3>. QED  BY <1>7, <1>11, <2>1, <2>2, <2>3, <2>4, <3>1 DEF ReadsWell
  <2>5. CASE j = n + 1
    <3>1. c.op = "read" /\ v # Queued /\ seen[i].db = d
      BY <1>8, <1>10, <2>1, <2>2, <2>5
    <3>2. v = ToLua(st[d])
      BY <3>1 DEF Harmless, Silent
    <3>3. st[d] = Bulk(seen[i].text)
      BY <1>12, <2>2, <2>3, <2>5, <3>1 DEF Writers
    <3>. QED  BY <1>8, <1>10, <2>2, <2>5, <3>2, <3>3
  <2>. QED  BY <1>8, <2>2, <2>4, <2>5
<1>14. AllReadWell(gs)
  BY <1>4, <1>5, <1>13 DEF AllReadWell, m
<1>15. ASSUME NEW i \in 1..Len(more), Written(more, i, Len(more) + 1)
       PROVE  more[i].db \in Dbs /\ st2[more[i].db] = Bulk(more[i].text)
  <2>1. Written(more, i, n + 2)
    BY <1>8, <1>15
  <2>2. CASE i \in 1..n
    <3>1. Written(seen, i, n + 1) /\ c.op \notin Writers /\ more[i] = seen[i]
      BY <1>8, <1>9, <1>10, <2>1, <2>2
    <3>2. st2 = st
      BY <3>1 DEF Harmless, Silent, Writers
    <3>. QED  BY <1>12, <2>2, <3>1, <3>2
  <2>3. CASE i = n + 1
    <3>1. c.op \in {"write", "push"} /\ v # Queued /\ d \notin called
      BY <1>8, <1>10, <2>1, <2>3 DEF Written
    <3>2. d \in Dbs /\ st2[d] = Bulk(c.text)
      BY <3>1 DEF Harmless, Silent
    <3>. QED  BY <1>8, <1>10, <2>3, <3>2
  <2>. QED  BY <1>8, <2>2, <2>3
<1>16. Fresh(gs, st2)
  BY <1>4, <1>15 DEF Fresh
<1>. QED  BY <1>1, <1>14, <1>16

(***************************************************************************)
(* What the handlers do to the stack.                                      *)
(***************************************************************************)
Outcome(fs) ==
  /\ IsStack(frames') /\ TodoKept(fs, frames')
  /\ AllReadWell(frames') /\ Fresh(frames', store')

LEMMA NothingIsKept ==
  ASSUME NEW fs
  PROVE  TodoKept(fs, fs)
BY DEF TodoKept

LEMMA DeliverOutcome ==
  ASSUME NEW fs, IsStack(fs), AllReadWell(fs), NEW c, NEW v, Deliver(fs, c, v),
         NEW S, store \in [Dbs -> S],
         IsScript(fs) =>
           /\ Harmless(c, ToLua(v), Called(c), currentDb[caller'], store, store')
           /\ Fresh(fs, store) \/ c.op \in Writers
  PROVE  Outcome(fs)
<1>1. PICK st, st2, d, w, gs, called :
        /\ st = store /\ st2 = store' /\ d = currentDb[caller'] /\ w = ToLua(v) /\ gs = frames'
        /\ called = Called(c)
  OBVIOUS
<1>2. CASE IsScript(fs)
  <2>1. gs = Seen(fs, c, d, w, called)
    BY <1>1, <1>2 DEF Deliver
  <2>2. IsStack(gs) /\ TodoKept(fs, gs)
    BY <1>2, <2>1, SeenStack
  <2>3. st \in [Dbs -> S] /\ Harmless(c, w, called, d, st, st2) /\ (Fresh(fs, st) \/ c.op \in Writers)
    BY <1>1, <1>2
  <2>4. AllReadWell(gs) /\ Fresh(gs, st2)
    BY <1>2, <2>1, <2>3, SeenReadsWell
  <2>. QED  BY <1>1, <2>2, <2>4 DEF Outcome
<1>3. CASE ~IsScript(fs)
  <2>1. gs = fs
    BY <1>1, <1>3 DEF Deliver
  <2>2. Fresh(gs, st2)
    BY <1>3, <2>1 DEF Fresh
  <2>. QED  BY <1>1, <2>1, <2>2, NothingIsKept DEF Outcome
<1>. QED  BY <1>2, <1>3

LEMMA AbortOutcome ==
  ASSUME NEW fs, IsStack(fs), AllReadWell(fs), Abort(fs)
  PROVE  Outcome(fs)
<1>1. PICK st2, gs : st2 = store' /\ gs = frames'
  OBVIOUS
<1>2. /\ IsStack(gs) /\ TodoKept(fs, gs) /\ ~IsScript(gs)
      /\ Len(gs) <= Len(fs) /\ \A p \in 1..Len(gs) : gs[p] = fs[p]
  BY <1>1, AbortStack DEF Abort
<1>3. Len(gs) \in Nat /\ Len(fs) \in Nat
  BY <1>2, StackIsSeq
<1>4. AllReadWell(gs) /\ Fresh(gs, st2)
  BY <1>2, <1>3 DEF AllReadWell, Fresh
<1>. QED  BY <1>1, <1>2, <1>4 DEF Outcome

(* A frame that begins has read nothing.                                   *)
LEMMA BeginReadsWell ==
  ASSUME NEW fs, IsStack(fs), AllReadWell(fs), NEW f, IsFrame(f), f.seen = <<>>, NEW st
  PROVE  AllReadWell(Append(fs, f)) /\ Fresh(Append(fs, f), st)
<1>1. PICK gs : gs = Append(fs, f)
  OBVIOUS
<1>2. /\ Len(gs) = Len(fs) + 1 /\ gs[Len(fs) + 1] = f
      /\ \A p \in 1..Len(fs) : gs[p] = fs[p]
      /\ Len(fs) \in Nat
  BY <1>1, PushStack, StackIsSeq
<1>3. ReadsWell(f.seen)
  BY DEF ReadsWell
<1>4. AllReadWell(gs)
  BY <1>2, <1>3 DEF AllReadWell
<1>5. Fresh(gs, st)
  BY <1>2 DEF Fresh
<1>. QED  BY <1>1, <1>4, <1>5

LEMMA BeginOutcome ==
  ASSUME NEW fs, IsStack(fs), AllReadWell(fs), frames' = Append(fs, Frame("script", 0, <<>>))
  PROVE  Outcome(fs)
<1>1. PICK st2, gs, f : st2 = store' /\ gs = frames' /\ f = Frame("script", 0, <<>>)
  OBVIOUS
<1>2. IsFrame(f) /\ f.seen = <<>> /\ f.todo = <<>>
  BY <1>1, ScriptFrame DEF Frame
<1>3. IsStack(gs) /\ TodoKept(fs, gs)
  BY <1>1, <1>2, PushStack
<1>4. AllReadWell(gs) /\ Fresh(gs, st2)
  BY <1>1, <1>2, BeginReadsWell
<1>. QED  BY <1>1, <1>3, <1>4 DEF Outcome

Strings == {Nil} \cup {Bulk(t) : t \in Texts \cup {"", "word"}}

DataOK == /\ store \in [Dbs -> Strings]
          /\ scripts \subseteq Codes \ {Unparsable}
          /\ currentDb \in [Sessions -> Dbs]
          /\ waiters \subseteq [on : Dbs, db : Dbs]

LEMMA BareOutcome ==
  ASSUME DataOK, NEW fs, IsStack(fs), AllReadWell(fs), Fresh(fs, store),
         NEW s \in Sessions, NEW c \in Commands, NEW d \in Dbs,
         caller' \in Sessions, IsScript(fs) => d = currentDb[caller'],
         Bare(s, c, d, fs)
  PROVE  /\ Outcome(fs) /\ DataOK' /\ UNCHANGED <<commands, errored>>
         /\ log' = [log EXCEPT !.made = IF c.id > @ THEN c.id ELSE @, !.ran = Append(@, c.id)]
<1>0. log' = [log EXCEPT !.made = IF c.id > @ THEN c.id ELSE @, !.ran = Append(@, c.id)]
  BY DEF Bare, Ran
<1>1. store \in [Dbs -> Strings]
  BY DEF DataOK
<1>2. c.op \in AllOps /\ c.text \in Texts \cup {""} /\ c.db \in Dbs /\ c.code \in Codes
  BY DEF Commands
<1>3. ASSUME NEW v, Deliver(fs, c, v), Harmless(c, ToLua(v), Called(c), currentDb[caller'], store, store')
      PROVE  Outcome(fs)
  BY <1>1, <1>3, DeliverOutcome
<1>4. CASE DataCommand(c, d, fs)
  <2>1. UNCHANGED <<scripts, currentDb, commands, errored>>
    BY <1>4 DEF DataCommand, session
  <2>2. CASE /\ c.op = "write" /\ store' = [store EXCEPT ![d] = Bulk(c.text)]
             /\ Deliver(fs, c, Ok) /\ UNCHANGED waiters
    <3>1. store' \in [Dbs -> Strings]
      BY <1>1, <1>2, <2>2 DEF Strings
    <3>2. IsScript(fs) => Harmless(c, ToLua(Ok), Called(c), currentDb[caller'], store, store')
      BY <1>1, <2>2 DEF Harmless
    <3>3. Outcome(fs)
      BY <1>1, <2>2, <3>2, DeliverOutcome
    <3>. QED  BY <1>0, <2>1, <2>2, <3>1, <3>3 DEF DataOK
  <2>3. CASE c.op = "read" /\ UNCHANGED <<store, waiters>> /\ Deliver(fs, c, store[d])
    <3>1. PICK v : v = store[d]
      OBVIOUS
    <3>2. IsScript(fs) => Harmless(c, ToLua(v), Called(c), currentDb[caller'], store, store')
      BY <2>3, <3>1 DEF Harmless
    <3>3. Deliver(fs, c, v)
      BY <2>3, <3>1
    <3>4. Outcome(fs)
      BY <1>1, <3>2, <3>3, DeliverOutcome
    <3>. QED  BY <1>0, <2>1, <2>3, <3>4 DEF DataOK
  <2>4. CASE c.op = "throw" /\ UNCHANGED <<store, waiters>> /\ Abort(fs)
    BY <1>0, <2>1, <2>4, AbortOutcome DEF DataOK
  <2>5. CASE Push(c, d, fs)
    <3>1. PICK taken \in SUBSET Called(c) :
            store' = [e \in Dbs |-> IF e \in taken THEN Nil
                                   ELSE IF e = d THEN Bulk(c.text) ELSE store[e]]
      BY <2>5 DEF Push
    <3>2. store' \in [Dbs -> Strings]
      BY <1>1, <1>2, <3>1 DEF Strings
    <3>3. c.op = "push" /\ UNCHANGED waiters /\ (Deliver(fs, c, Ok) \/ Abort(fs))
      BY <2>5 DEF Push
    <3>4. IsScript(fs) => Harmless(c, ToLua(Ok), Called(c), currentDb[caller'], store, store')
      BY <3>1, <3>3 DEF Harmless
    <3>5. Outcome(fs)
      BY <1>1, <3>3, <3>4, DeliverOutcome, AbortOutcome
    <3>. QED  BY <1>0, <2>1, <3>2, <3>3, <3>5 DEF DataOK
  <2>6. CASE Wait(c, d, fs)
    <3>1. \/ store' = [store EXCEPT ![d] = Nil] /\ UNCHANGED waiters
          \/ /\ waiters' = waiters \cup {[on |-> currentDb[caller'], db |-> d]}
             /\ UNCHANGED store
      BY <2>6 DEF Wait
    <3>2. store' \in [Dbs -> Strings]
      BY <1>1, <3>1 DEF Strings
    <3>5. waiters' \subseteq [on : Dbs, db : Dbs]
      <4>1. PICK e : e = currentDb[caller'] /\ e \in Dbs
        BY DEF DataOK
      <4>2. [on |-> e, db |-> d] \in [on : Dbs, db : Dbs]
        BY <4>1
      <4>. QED  BY <3>1, <4>1, <4>2 DEF DataOK
    <3>3. CASE IsScript(fs)
      <4>1. Outcome(fs)
        BY <2>6, <3>3, AbortOutcome DEF Wait
      <4>. QED  BY <1>0, <2>1, <3>2, <3>5, <4>1 DEF DataOK
    <3>4. CASE ~IsScript(fs)
      <4>1. PICK st2 : st2 = store'
        OBVIOUS
      <4>2. Fresh(fs, st2) /\ frames' = fs
        BY <2>6, <3>4 DEF Fresh, Wait
      <4>3. Outcome(fs)
        BY <4>1, <4>2, NothingIsKept DEF Outcome
      <4>. QED  BY <1>0, <2>1, <3>2, <3>5, <4>3 DEF DataOK
    <3>. QED  BY <3>3, <3>4
  <2>. QED  BY <1>4, <2>2, <2>3, <2>4, <2>5, <2>6 DEF DataCommand
<1>5. ASSUME UNCHANGED store, Silent(c.op)
      PROVE  \A v : Deliver(fs, c, v) => Outcome(fs)
  <2>. TAKE v
  <2>1. Harmless(c, ToLua(v), Called(c), currentDb[caller'], store, store')
    BY <1>5 DEF Harmless
  <2>. QED  BY <1>3, <2>1
<1>6. CASE SelectCommand(s, c, fs)
  <2>1. /\ UNCHANGED <<store, scripts, waiters, commands, errored>>
        /\ Silent(c.op) /\ Deliver(fs, c, Ok)
    BY <1>6 DEF SelectCommand, Silent
  <2>2. currentDb' \in [Sessions -> Dbs]
    BY <1>2, <1>6 DEF SelectCommand, DataOK
  <2>3. Outcome(fs)
    BY <1>5, <2>1
  <2>. QED  BY <1>0, <2>1, <2>2, <2>3 DEF DataOK
<1>7. CASE ScriptStep(c, fs)
  <2>1. UNCHANGED <<store, waiters, currentDb, commands, errored>>
    BY <1>7 DEF ScriptStep, session
  <2>2. scripts' \subseteq Codes \ {Unparsable}
    BY <1>2, <1>7 DEF ScriptStep, DataOK
  <2>3. Outcome(fs)
    <3>1. Silent(c.op)
      BY <1>7 DEF ScriptStep, Silent
    <3>2. \/ \E v : Deliver(fs, c, v)
          \/ frames' = Append(fs, Frame("script", 0, <<>>))
      BY <1>7 DEF ScriptStep
    <3>. QED  BY <1>5, <2>1, <3>1, <3>2, BeginOutcome
  <2>. QED  BY <1>0, <2>1, <2>2, <2>3 DEF DataOK
<1>. QED  BY <1>4, <1>6, <1>7 DEF Bare

(***************************************************************************)
(* What steps do to what is owed.                                          *)
(***************************************************************************)

(* Frames that begin or end owe nothing, and a queue may be thrown away.   *)
LEMMA OwesWithLess ==
  ASSUME NEW Q, NEW fs, NEW l, Owes(Q, fs, l), NEW gs, TodoKept(fs, gs),
         NEW Q2, \A s \in Sessions : Q2[s] \in {Q[s], <<>>}
  PROVE  Owes(Q2, gs, l)
<1>1. \A s \in Sessions : \A n \in 1..Len(Q2[s]) : Q2[s] = Q[s]
  <2>1. \A n \in 1..Len(<<>>) : FALSE
    OBVIOUS
  <2>. QED  BY <2>1
<1>2. QueuesWait(Q2, l)
  <2>1. QueuesWait(Q, l)
    BY DEF Owes
  <2>2. \A s \in Sessions : \A n \in 1..Len(Q2[s]) : Waiting(Q2[s][n], l)
    BY ONLY <1>1, <2>1 DEF QueuesWait
  <2>3. ASSUME NEW s \in Sessions, NEW t \in Sessions,
               NEW m \in 1..Len(Q2[s]), NEW n \in 1..Len(Q2[t]), Q2[s][m].id = Q2[t][n].id
        PROVE  s = t /\ m = n
    <3>1. Q2[s] = Q[s] /\ Q2[t] = Q[t]
      BY ONLY <1>1, s \in Sessions, t \in Sessions, m \in 1..Len(Q2[s]), n \in 1..Len(Q2[t])
    <3>2. m \in 1..Len(Q[s]) /\ n \in 1..Len(Q[t]) /\ Q[s][m].id = Q[t][n].id
      BY ONLY <2>3, <3>1, m \in 1..Len(Q2[s]), n \in 1..Len(Q2[t])
    <3>. QED  BY ONLY <2>1, <3>2, s \in Sessions, t \in Sessions DEF QueuesWait
  <2>. QED  BY ONLY <2>2, <2>3 DEF QueuesWait
<1>3. FramesWait(gs, l)
  <2>1. FramesWait(fs, l)
    BY DEF Owes
  <2>2. \A p \in 1..Len(gs) : \A n \in 1..Len(gs[p].todo) :
          p \in 1..Len(fs) /\ gs[p].todo = fs[p].todo
    BY DEF TodoKept
  <2>3. \A p \in 1..Len(gs) : \A n \in 1..Len(gs[p].todo) : Waiting(gs[p].todo[n], l)
    BY <2>1, <2>2 DEF FramesWait
  <2>4. ASSUME NEW p \in 1..Len(gs), NEW q \in 1..Len(gs),
               NEW m \in 1..Len(gs[p].todo), NEW n \in 1..Len(gs[q].todo),
               gs[p].todo[m].id = gs[q].todo[n].id
        PROVE  p = q /\ m = n
    <3>1. /\ p \in 1..Len(fs) /\ gs[p].todo = fs[p].todo
          /\ q \in 1..Len(fs) /\ gs[q].todo = fs[q].todo
      BY <2>2, <2>4
    <3>. QED  BY <2>1, <2>4, <3>1 DEF FramesWait
  <2>. QED  BY <2>3, <2>4 DEF FramesWait
<1>4. Apart(Q2, gs)
  <2>1. Apart(Q, fs)
    BY DEF Owes
  <2>2. ASSUME NEW s \in Sessions, NEW p \in 1..Len(gs),
               NEW m \in 1..Len(Q2[s]), NEW n \in 1..Len(gs[p].todo)
        PROVE  Q2[s][m].id # gs[p].todo[n].id
    <3>1. Q2[s] = Q[s]
      BY ONLY <1>1, s \in Sessions, m \in 1..Len(Q2[s])
    <3>2. p \in 1..Len(fs) /\ gs[p].todo = fs[p].todo
      BY DEF TodoKept
    <3>3. m \in 1..Len(Q[s]) /\ n \in 1..Len(fs[p].todo)
      BY ONLY <3>1, <3>2, m \in 1..Len(Q2[s]), n \in 1..Len(gs[p].todo)
    <3>. QED  BY ONLY <2>1, <3>1, <3>2, <3>3, s \in Sessions DEF Apart
  <2>. QED  BY ONLY <2>2 DEF Apart
<1>5. Kept(gs, l)
  <2>1. ASSUME NEW i \in l.promised, ~HasRun(i, l)
        PROVE  \E p \in 1..Len(gs) : \E n \in 1..Len(gs[p].todo) : gs[p].todo[n].id = i
    <3>1. PICK p \in 1..Len(fs) : \E n \in 1..Len(fs[p].todo) : fs[p].todo[n].id = i
      BY <2>1 DEF Owes, Kept
    <3>2. p \in 1..Len(gs) /\ gs[p].todo = fs[p].todo
      BY <3>1 DEF TodoKept
    <3>. QED  BY <3>1, <3>2
  <2>. QED  BY <2>1 DEF Kept
<1>. QED  BY <1>2, <1>3, <1>4, <1>5 DEF Owes

LEMMA LogFields ==
  ASSUME NEW l \in Log
  PROVE  /\ l.made \in Nat /\ l.ran \in Seq(Steps) /\ l.promised \subseteq Steps
         /\ Len(l.ran) \in Nat /\ \A k \in 1..Len(l.ran) : l.ran[k] \in Steps
         /\ Steps \subseteq Nat
<1>1. /\ l.made \in 0..MaxSteps /\ l.ran \in Seq(Steps) /\ l.promised \subseteq Steps
      /\ Steps \subseteq Nat
  BY BoundsAssumption DEF Log, Steps
<1>. QED  BY <1>1, BoundsAssumption

(* A command is made and neither runs nor waits.                           *)
LEMMA OwesAfterMade ==
  ASSUME NEW Q, NEW fs, NEW l \in Log, Owes(Q, fs, l),
         Q \in [Sessions -> Seq(Commands)], IsStack(fs),
         NEW l2, l2.ran = l.ran, l2.promised = l.promised, l2.made = l.made + 1
  PROVE  Owes(Q, fs, l2)
<1>1. l.made \in Nat /\ \A k \in 1..Len(l.ran) : l.ran[k] \in Nat
  BY LogFields
<1>2. \A i : HasRun(i, l2) <=> HasRun(i, l)
  BY DEF HasRun
<1>3. \A c \in Commands : Waiting(c, l) => Waiting(c, l2)
  <2>. TAKE c \in Commands
  <2>1. c.id \in Nat
    BY LogFields DEF Commands
  <2>. QED  BY <1>1, <1>2, <2>1 DEF Waiting
<1>4. \A s \in Sessions : \A n \in 1..Len(Q[s]) : Q[s][n] \in Commands
  OBVIOUS
<1>5. \A p \in 1..Len(fs) : \A n \in 1..Len(fs[p].todo) : fs[p].todo[n] \in Commands
  <2>. TAKE p \in 1..Len(fs)
  <2>1. fs[p].todo \in Seq(Commands)
    BY StackIsSeq DEF IsFrame
  <2>. QED  BY <2>1
<1>6. QueuesWait(Q, l2)
  BY <1>3, <1>4 DEF Owes, QueuesWait
<1>7. FramesWait(fs, l2)
  BY <1>3, <1>5 DEF Owes, FramesWait
<1>8. RunOnce(l2)
  BY <1>1 DEF Owes, RunOnce
<1>9. Kept(fs, l2)
  BY <1>2 DEF Owes, Kept
<1>. QED  BY <1>6, <1>7, <1>8, <1>9 DEF Owes

(* A command that waits nowhere runs.                                      *)
LEMMA OwesAfterRun ==
  ASSUME NEW Q, NEW fs, NEW l \in Log, NEW i \in Steps, ~HasRun(i, l), i <= l.made,
         QueuesWait(Q, l), FramesWait(fs, l), Apart(Q, fs), RunOnce(l),
         \A s \in Sessions : \A n \in 1..Len(Q[s]) : Q[s][n].id # i,
         \A p \in 1..Len(fs) : \A n \in 1..Len(fs[p].todo) : fs[p].todo[n].id # i,
         \A j \in l.promised :
           \/ HasRun(j, l) \/ j = i
           \/ \E p \in 1..Len(fs) : \E n \in 1..Len(fs[p].todo) : fs[p].todo[n].id = j,
         NEW l2, l2.ran = Append(l.ran, i), l2.promised = l.promised, l2.made = l.made
  PROVE  Owes(Q, fs, l2)
<1>1. l.ran \in Seq(Steps) /\ Len(l.ran) \in Nat /\ l.made \in Nat
  BY LogFields
<1>2. /\ Len(l2.ran) = Len(l.ran) + 1 /\ l2.ran[Len(l.ran) + 1] = i
      /\ \A k \in 1..Len(l.ran) : l2.ran[k] = l.ran[k]
  BY <1>1
<1>3. \A j : HasRun(j, l2) <=> HasRun(j, l) \/ j = i
  BY <1>1, <1>2 DEF HasRun
<1>4. QueuesWait(Q, l2)
  BY <1>3 DEF QueuesWait, Waiting
<1>5. FramesWait(fs, l2)
  BY <1>3 DEF FramesWait, Waiting
<1>6. RunOnce(l2)
  <2>1. \A k \in 1..Len(l2.ran) : k \in 1..Len(l.ran) \/ k = Len(l.ran) + 1
    BY <1>1, <1>2
  <2>2. \A k \in 1..Len(l.ran) : l.ran[k] # i
    BY DEF HasRun
  <2>. QED  BY <1>2, <2>1, <2>2 DEF RunOnce
<1>7. Kept(fs, l2)
  BY <1>3 DEF Kept
<1>. QED  BY <1>4, <1>5, <1>6, <1>7 DEF Owes

(* A new command is queued.                                                *)
LEMMA OwesAfterDefer ==
  ASSUME NEW Q, NEW fs, NEW l \in Log, Owes(Q, fs, l),
         Q \in [Sessions -> Seq(Commands)], IsStack(fs),
         NEW s \in Sessions, NEW c \in Commands, c.id = l.made + 1,
         NEW Q2, Q2 = [Q EXCEPT ![s] = Append(@, c)],
         NEW l2, l2.ran = l.ran, l2.promised = l.promised, l2.made = l.made + 1
  PROVE  Owes(Q2, fs, l2)
<1>1. Owes(Q, fs, l2)
  BY OwesAfterMade
<1>2. /\ l.made \in Nat /\ \A k \in 1..Len(l.ran) : l.ran[k] <= l.made /\ l.ran[k] \in Nat
  BY LogFields DEF Owes, RunOnce
<1>3. Waiting(c, l2)
  BY <1>2 DEF Waiting, HasRun
<1>4. \A x : Waiting(x, l) => x.id # c.id
  <2>. TAKE x
  <2>. HAVE Waiting(x, l)
  <2>1. x.id <= l.made
    BY DEF Waiting
  <2>2. ~(l.made + 1 <= l.made)
    BY <1>2
  <2>. QED  BY <2>1, <2>2
<1>5. \A t \in Sessions : \A n \in 1..Len(Q[t]) : Q[t][n].id # c.id
  BY <1>4 DEF Owes, QueuesWait
<1>6. \A p \in 1..Len(fs) : \A n \in 1..Len(fs[p].todo) : fs[p].todo[n].id # c.id
  BY <1>4 DEF Owes, FramesWait
<1>7. PICK q, m : q = Append(Q[s], c) /\ m = Len(Q[s])
  OBVIOUS
<1>8. /\ m \in Nat /\ Len(q) = m + 1 /\ q[m + 1] = c /\ \A n \in 1..m : q[n] = Q[s][n]
      /\ \A n \in 1..Len(q) : n \in 1..m \/ n = m + 1
  <2>1. Q[s] \in Seq(Commands)
    OBVIOUS
  <2>. QED  BY <1>7, <2>1
<1>9. Q2[s] = q /\ \A t \in Sessions : t # s => Q2[t] = Q[t]
  BY <1>7
<1>10. \A t \in Sessions : \A n \in 1..Len(Q2[t]) :
         \/ n \in 1..Len(Q[t]) /\ Q2[t][n] = Q[t][n]
         \/ t = s /\ n = m + 1 /\ Q2[t][n] = c
  BY <1>7, <1>8, <1>9
<1>11. QueuesWait(Q2, l2)
  <2>1. QueuesWait(Q, l2)
    BY <1>1 DEF Owes
  <2>2. \A t \in Sessions : \A n \in 1..Len(Q2[t]) : Waiting(Q2[t][n], l2)
    BY <1>3, <1>10, <2>1 DEF QueuesWait
  <2>3. ASSUME NEW t \in Sessions, NEW u \in Sessions,
               NEW j \in 1..Len(Q2[t]), NEW n \in 1..Len(Q2[u]), Q2[t][j].id = Q2[u][n].id
        PROVE  t = u /\ j = n
    <3>1. CASE j \in 1..Len(Q[t]) /\ Q2[t][j] = Q[t][j] /\ n \in 1..Len(Q[u]) /\ Q2[u][n] = Q[u][n]
      BY <2>1, <2>3, <3>1 DEF QueuesWait
    <3>2. CASE j \in 1..Len(Q[t]) /\ Q2[t][j] = Q[t][j] /\ Q2[u][n] = c
      BY <1>5, <2>3, <3>2
    <3>3. CASE n \in 1..Len(Q[u]) /\ Q2[u][n] = Q[u][n] /\ Q2[t][j] = c
      BY <1>5, <2>3, <3>3
    <3>4. CASE t = s /\ j = m + 1 /\ u = s /\ n = m + 1
      BY <3>4
    <3>. QED  BY <1>10, <3>1, <3>2, <3>3, <3>4
  <2>. QED  BY <2>2, <2>3 DEF QueuesWait
<1>12. Apart(Q2, fs)
  <2>1. ASSUME NEW t \in Sessions, NEW p \in 1..Len(fs),
               NEW j \in 1..Len(Q2[t]), NEW n \in 1..Len(fs[p].todo)
        PROVE  Q2[t][j].id # fs[p].todo[n].id
    <3>1. CASE j \in 1..Len(Q[t]) /\ Q2[t][j] = Q[t][j]
      BY <3>1 DEF Owes, Apart
    <3>2. CASE Q2[t][j] = c
      BY <1>6, <3>2
    <3>. QED  BY <1>10, <3>1, <3>2
  <2>. QED  BY <2>1 DEF Apart
<1>. QED  BY <1>1, <1>11, <1>12 DEF Owes

(* A queue becomes what an EXEC has to do.                                 *)
PromisesQueue(l, l2, q) ==
  \A i \in l2.promised : i \in l.promised \/ \E n \in 1..Len(q) : q[n].id = i

LEMMA OwesAfterExec ==
  ASSUME NEW Q, NEW fs, NEW l \in Log, Owes(Q, fs, l),
         Q \in [Sessions -> Seq(Commands)], IsStack(fs),
         NEW s \in Sessions, NEW f, IsFrame(f), f.todo = Q[s],
         NEW Q2, Q2 = [Q EXCEPT ![s] = <<>>], NEW gs, gs = Append(fs, f),
         NEW l2, l2.ran = l.ran, l2.made = l.made,
         PromisesQueue(l, l2, Q[s])
  PROVE  Owes(Q2, gs, l2)
<1>1. /\ Len(gs) = Len(fs) + 1 /\ gs[Len(fs) + 1] = f /\ Len(fs) \in Nat
      /\ \A p \in 1..Len(fs) : gs[p] = fs[p]
  BY PushStack, StackIsSeq
<1>2. PICK m : m = Len(fs) + 1
  OBVIOUS
<1>3. m \in 1..Len(gs) /\ gs[m].todo = Q[s] /\ \A p \in 1..Len(gs) : p \in 1..Len(fs) \/ p = m
  BY <1>1, <1>2
<1>4. \A i : HasRun(i, l2) <=> HasRun(i, l)
  BY DEF HasRun
<1>5. \A c : Waiting(c, l) => Waiting(c, l2)
  BY <1>4 DEF Waiting
<1>6. \A t \in Sessions : \A n \in 1..Len(Q2[t]) : t # s /\ Q2[t] = Q[t]
  OBVIOUS
<1>7. QueuesWait(Q2, l2)
  BY <1>5, <1>6 DEF Owes, QueuesWait
<1>8. FramesWait(gs, l2)
  <2>1. \A p \in 1..Len(gs) : \A n \in 1..Len(gs[p].todo) : Waiting(gs[p].todo[n], l2)
    <3>. TAKE p \in 1..Len(gs)
    <3>. TAKE n \in 1..Len(gs[p].todo)
    <3>1. CASE p \in 1..Len(fs)
      BY <1>1, <1>5, <3>1 DEF Owes, FramesWait
    <3>2. CASE p = m
      BY <1>3, <1>5, <3>2 DEF Owes, QueuesWait
    <3>. QED  BY <1>3, <3>1, <3>2
  <2>2. ASSUME NEW p \in 1..Len(gs), NEW q \in 1..Len(gs),
               NEW j \in 1..Len(gs[p].todo), NEW n \in 1..Len(gs[q].todo),
               gs[p].todo[j].id = gs[q].todo[n].id
        PROVE  p = q /\ j = n
    <3>1. CASE p \in 1..Len(fs) /\ q \in 1..Len(fs)
      BY <1>1, <2>2, <3>1 DEF Owes, FramesWait
    <3>2. CASE p = m /\ q = m
      BY <1>3, <2>2, <3>2 DEF Owes, QueuesWait
    <3>3. CASE p \in 1..Len(fs) /\ q = m
      <4>1. j \in 1..Len(fs[p].todo) /\ n \in 1..Len(Q[s]) /\ fs[p].todo[j].id = Q[s][n].id
        BY <1>1, <1>3, <2>2, <3>3
      <4>. QED  BY <3>3, <4>1 DEF Owes, Apart
    <3>4. CASE p = m /\ q \in 1..Len(fs)
      <4>1. n \in 1..Len(fs[q].todo) /\ j \in 1..Len(Q[s]) /\ fs[q].todo[n].id = Q[s][j].id
        BY <1>1, <1>3, <2>2, <3>4
      <4>. QED  BY <3>4, <4>1 DEF Owes, Apart
    <3>. QED  BY <1>3, <3>1, <3>2, <3>3, <3>4
  <2>. QED  BY <2>1, <2>2 DEF FramesWait
<1>9. Apart(Q2, gs)
  <2>1. ASSUME NEW t \in Sessions, NEW p \in 1..Len(gs),
               NEW j \in 1..Len(Q2[t]), NEW n \in 1..Len(gs[p].todo)
        PROVE  Q2[t][j].id # gs[p].todo[n].id
    <3>1. CASE p \in 1..Len(fs)
      BY <1>1, <1>6, <2>1, <3>1 DEF Owes, Apart
    <3>2. CASE p = m
      BY <1>3, <1>6, <2>1, <3>2 DEF Owes, QueuesWait
    <3>. QED  BY <1>3, <3>1, <3>2
  <2>. QED  BY <2>1 DEF Apart
<1>10. RunOnce(l2)
  BY DEF Owes, RunOnce
<1>11. Kept(gs, l2)
  <2>1. ASSUME NEW i \in l2.promised, ~HasRun(i, l2)
        PROVE  \E p \in 1..Len(gs) : \E n \in 1..Len(gs[p].todo) : gs[p].todo[n].id = i
    <3>1. CASE i \in l.promised
      <4>1. PICK p \in 1..Len(fs) : \E n \in 1..Len(fs[p].todo) : fs[p].todo[n].id = i
        BY <1>4, <2>1, <3>1 DEF Owes, Kept
      <4>2. p \in 1..Len(gs) /\ gs[p] = fs[p]
        BY <1>1
      <4>. QED  BY <4>1, <4>2
    <3>2. CASE \E n \in 1..Len(Q[s]) : Q[s][n].id = i
      BY <1>3, <3>2
    <3>. QED  BY <2>1, <3>1, <3>2 DEF PromisesQueue
  <2>. QED  BY <2>1 DEF Kept
<1>. QED  BY <1>7, <1>8, <1>9, <1>10, <1>11 DEF Owes

(* An EXEC takes the next command off what it has to do.                   *)
LEMMA NextStack ==
  ASSUME NEW fs, IsStack(fs), fs # <<>>, fs[Len(fs)].kind = "exec", fs[Len(fs)].todo # <<>>
  PROVE  LET m == Len(fs)
             gs == [fs EXCEPT ![m].todo = Tail(@)]
         IN /\ IsStack(gs) /\ Len(gs) = m /\ m \in 1..m
            /\ gs[m].kind = "exec" /\ gs[m].todo = Tail(fs[m].todo)
            /\ \A p \in 1..m : p # m => gs[p] = fs[p]
            /\ fs[m].db \in Dbs /\ fs[m].todo \in Seq(Commands)
<1>0. PICK m, gs : m = Len(fs) /\ gs = [fs EXCEPT ![m].todo = Tail(@)]
  OBVIOUS
<1>1. m \in 1..m /\ IsFrame(fs[m]) /\ DOMAIN fs = 1..m
  BY <1>0, StackIsSeq
<1>2. PICK b, t, s : fs[m] = [kind |-> "exec", db |-> b, todo |-> t, seen |-> s]
  BY <1>0, <1>1 DEF IsFrame
<1>3. b \in Dbs /\ t \in Seq(Commands) /\ s = <<>> /\ t # <<>>
  BY <1>0, <1>1, <1>2 DEF IsFrame
<1>4. Tail(t) \in Seq(Commands)
  BY <1>3, TailIsSeq
<1>5. PICK top : top = [kind |-> "exec", db |-> b, todo |-> Tail(t), seen |-> s]
  OBVIOUS
<1>6. IsFrame(top)
  <2>1. s \in Seq(Range(s))
    BY <1>3, EmptyIsSeq DEF IsSeq
  <2>. QED  BY <1>3, <1>4, <1>5, <2>1 DEF IsFrame
<1>7. [fs[m] EXCEPT !.todo = Tail(@)] = top
  <2>1. PICK f : f = fs[m]
    OBVIOUS
  <2>2. f.kind = "exec" /\ f.db = b /\ f.todo = t /\ f.seen = s
    BY ONLY <1>2, <2>1
  <2>3. f = [kind |-> "exec", db |-> b, todo |-> t, seen |-> s]
    BY ONLY <1>2, <2>1
  <2>4. [f EXCEPT !.todo = Tail(@)] = [kind |-> "exec", db |-> b, todo |-> Tail(t), seen |-> s]
    <3>1. PICK r : r = Tail(t)
      OBVIOUS
    <3>2. [f EXCEPT !.todo = r] = [kind |-> "exec", db |-> b, todo |-> r, seen |-> s]
      BY ONLY <2>3
    <3>3. [f EXCEPT !.todo = Tail(@)] = [f EXCEPT !.todo = Tail(f.todo)]
      OBVIOUS
    <3>. QED  BY ONLY <2>2, <3>1, <3>2, <3>3
  <2>. QED  BY ONLY <1>5, <2>1, <2>4
<1>8. gs = [fs EXCEPT ![m] = top]
  BY <1>0, <1>7
<1>9. IsSeq(fs) /\ \A p \in 1..m : IsFrame(fs[p])
  BY <1>0, StackIsSeq
<1>10. /\ IsSeq(gs) /\ Len(gs) = m /\ gs[m] = top
       /\ \A p \in 1..m : p # m => gs[p] = fs[p]
  <2>1. m \in 1..Len(fs) /\ Len(fs) = m
    BY ONLY <1>0, <1>1
  <2>2. /\ IsSeq([fs EXCEPT ![m] = top])
        /\ Len([fs EXCEPT ![m] = top]) = Len(fs)
        /\ [fs EXCEPT ![m] = top][m] = top
        /\ \A p \in 1..Len(fs) : p # m => [fs EXCEPT ![m] = top][p] = fs[p]
    <3>1. IsSeq(fs) /\ m \in 1..Len(fs)
      BY ONLY <1>9, <2>1
    <3>. QED  BY ONLY <3>1, ExceptIsSeq
  <2>. QED  BY ONLY <1>8, <2>1, <2>2
<1>11. IsStack(gs)
  BY ONLY <1>6, <1>9, <1>10, StackFromSeq
<1>12. fs[m].db = b /\ fs[m].todo = t /\ top.kind = "exec" /\ top.todo = Tail(t)
  BY ONLY <1>2, <1>5
<1>. QED  BY ONLY <1>0, <1>1, <1>3, <1>10, <1>11, <1>12

LEMMA OwesAfterNext ==
  ASSUME NEW Q, NEW fs, NEW l \in Log, Owes(Q, fs, l),
         Q \in [Sessions -> Seq(Commands)], IsStack(fs), fs # <<>>,
         NEW m, m = Len(fs), fs[m].kind = "exec", fs[m].todo # <<>>,
         NEW gs, gs = [fs EXCEPT ![m].todo = Tail(@)],
         NEW i, i = Head(fs[m].todo).id,
         NEW l2, l2.ran = Append(l.ran, i), l2.promised = l.promised, l2.made = l.made
  PROVE  Owes(Q, gs, l2)
<1>1. PICK t : t = fs[m].todo
  OBVIOUS
<1>2. /\ IsStack(gs) /\ Len(gs) = m /\ m \in 1..m
      /\ gs[m].todo = Tail(t) /\ \A p \in 1..m : p # m => gs[p] = fs[p]
      /\ t \in Seq(Commands) /\ t # <<>>
  BY ONLY <1>1, NextStack, IsStack(fs), fs # <<>>, m = Len(fs), fs[m].kind = "exec",
          fs[m].todo # <<>>, gs = [fs EXCEPT ![m].todo = Tail(@)]
<1>3. /\ Len(t) \in Nat /\ Len(t) >= 1 /\ Len(Tail(t)) = Len(t) - 1
      /\ \A n \in 1..Len(Tail(t)) : Tail(t)[n] = t[n + 1] /\ n + 1 \in 1..Len(t) /\ n + 1 # 1
      /\ Head(t) = t[1] /\ 1 \in 1..Len(t) /\ t[1] \in Commands
  BY <1>2, TailIsSeq
<1>4. i = t[1].id /\ i \in Steps
  BY <1>1, <1>3 DEF Commands
<1>5. \A p \in 1..Len(gs) : \A n \in 1..Len(gs[p].todo) :
        \/ p # m /\ gs[p] = fs[p] /\ n \in 1..Len(fs[p].todo)
        \/ p = m /\ n + 1 \in 1..Len(t) /\ n + 1 # 1 /\ gs[p].todo[n] = t[n + 1]
  BY <1>2, <1>3
<1>6. FramesWait(fs, l) /\ QueuesWait(Q, l) /\ Apart(Q, fs) /\ RunOnce(l) /\ Kept(fs, l)
  BY DEF Owes
<1>7. ~HasRun(i, l) /\ i <= l.made
  BY <1>1, <1>2, <1>3, <1>4, <1>6 DEF FramesWait, Waiting
<1>8. \A s \in Sessions : \A n \in 1..Len(Q[s]) : Q[s][n].id # i
  <2>. TAKE s \in Sessions
  <2>. TAKE n \in 1..Len(Q[s])
  <2>1. m \in 1..Len(fs) /\ 1 \in 1..Len(fs[m].todo) /\ fs[m].todo[1].id = i
    BY ONLY <1>1, <1>2, <1>3, <1>4, m = Len(fs)
  <2>. QED  BY ONLY <1>6, <2>1, s \in Sessions, n \in 1..Len(Q[s]) DEF Apart
<1>9. \A p \in 1..Len(gs) : \A n \in 1..Len(gs[p].todo) : gs[p].todo[n].id # i
  <2>. TAKE p \in 1..Len(gs)
  <2>. TAKE n \in 1..Len(gs[p].todo)
  <2>0. p \in 1..Len(fs) /\ m \in 1..Len(fs) /\ 1 \in 1..Len(fs[m].todo) /\ fs[m].todo[1].id = i
    BY <1>1, <1>2, <1>3, <1>4
  <2>1. CASE p # m /\ gs[p] = fs[p] /\ n \in 1..Len(fs[p].todo)
    BY ONLY <1>6, <2>0, <2>1 DEF FramesWait
  <2>2. CASE p = m /\ n + 1 \in 1..Len(t) /\ n + 1 # 1 /\ gs[p].todo[n] = t[n + 1]
    BY ONLY <1>1, <1>6, <2>0, <2>2 DEF FramesWait
  <2>. QED  BY <1>5, <2>1, <2>2
<1>10. FramesWait(gs, l)
  <2>1. \A p \in 1..Len(gs) : \A n \in 1..Len(gs[p].todo) : Waiting(gs[p].todo[n], l)
    BY <1>1, <1>2, <1>5, <1>6 DEF FramesWait
  <2>2. ASSUME NEW p \in 1..Len(gs), NEW q \in 1..Len(gs),
               NEW j \in 1..Len(gs[p].todo), NEW n \in 1..Len(gs[q].todo),
               gs[p].todo[j].id = gs[q].todo[n].id
        PROVE  p = q /\ j = n
    <3>0. p \in 1..Len(fs) /\ q \in 1..Len(fs)
      BY <1>2
    <3>. DEFINE Same(x, y) == fs[p].todo[x].id = fs[q].todo[y].id => p = q /\ x = y
    <3>5. \A x \in 1..Len(fs[p].todo), y \in 1..Len(fs[q].todo) : Same(x, y)
      BY ONLY <1>6, <3>0 DEF FramesWait
    <3>1. CASE p # m /\ q # m
      <4>1. /\ gs[p] = fs[p] /\ j \in 1..Len(fs[p].todo)
            /\ gs[q] = fs[q] /\ n \in 1..Len(fs[q].todo)
        BY <1>5, <3>1
      <4>. QED  BY ONLY <2>2, <3>5, <4>1
    <3>2. CASE p # m /\ q = m
      <4>1. /\ gs[p] = fs[p] /\ j \in 1..Len(fs[p].todo)
            /\ n + 1 \in 1..Len(fs[q].todo) /\ fs[q].todo[n + 1] = gs[q].todo[n]
        BY <1>1, <1>5, <3>2
      <4>. QED  BY ONLY <2>2, <3>2, <3>5, <4>1
    <3>3. CASE p = m /\ q # m
      <4>1. /\ gs[q] = fs[q] /\ n \in 1..Len(fs[q].todo)
            /\ j + 1 \in 1..Len(fs[p].todo) /\ fs[p].todo[j + 1] = gs[p].todo[j]
        BY <1>1, <1>5, <3>3
      <4>. QED  BY ONLY <2>2, <3>3, <3>5, <4>1
    <3>4. CASE p = m /\ q = m
      <4>1. /\ gs[p].todo[j] = t[j + 1] /\ j + 1 \in 1..Len(t)
            /\ gs[q].todo[n] = t[n + 1] /\ n + 1 \in 1..Len(t)
        BY <1>5, <3>4
      <4>2. j + 1 = n + 1
        <5>1. t = fs[p].todo /\ t = fs[q].todo
          BY <1>1, <3>4
        <5>. QED  BY ONLY <2>2, <3>5, <4>1, <5>1
      <4>3. j \in Int /\ n \in Int
        OBVIOUS
      <4>. QED  BY <3>4, <4>2, <4>3
    <3>. QED  BY <3>1, <3>2, <3>3, <3>4
  <2>. QED  BY <2>1, <2>2 DEF FramesWait
<1>11. Apart(Q, gs)
  <2>1. ASSUME NEW s \in Sessions, NEW p \in 1..Len(gs),
               NEW j \in 1..Len(Q[s]), NEW n \in 1..Len(gs[p].todo)
        PROVE  Q[s][j].id # gs[p].todo[n].id
    <3>0. p \in 1..Len(fs)
      BY <1>2
    <3>3. \A y \in 1..Len(fs[p].todo) : Q[s][j].id # fs[p].todo[y].id
      BY ONLY <1>6, <3>0, s \in Sessions, j \in 1..Len(Q[s]) DEF Apart
    <3>1. CASE p # m /\ gs[p] = fs[p] /\ n \in 1..Len(fs[p].todo)
      BY ONLY <3>1, <3>3
    <3>2. CASE p = m /\ n + 1 \in 1..Len(t) /\ gs[p].todo[n] = t[n + 1]
      BY ONLY <1>1, <3>2, <3>3
    <3>. QED  BY <1>5, <3>1, <3>2
  <2>. QED  BY <2>1 DEF Apart
<1>12. ASSUME NEW j \in l.promised, ~HasRun(j, l), j # i
       PROVE  \E p \in 1..Len(gs) : \E n \in 1..Len(gs[p].todo) : gs[p].todo[n].id = j
  <2>1. PICK p \in 1..Len(fs) : \E n \in 1..Len(fs[p].todo) : fs[p].todo[n].id = j
    BY <1>6, <1>12 DEF Kept
  <2>2. PICK n \in 1..Len(fs[p].todo) : fs[p].todo[n].id = j
    BY <2>1
  <2>3. CASE p # m
    BY <1>2, <2>2, <2>3
  <2>4. CASE p = m
    <3>1. n # 1 /\ n \in 1..Len(t) /\ t[n].id = j
      BY <1>1, <1>4, <1>12, <2>2, <2>4
    <3>2. n - 1 \in 1..Len(Tail(t)) /\ (n - 1) + 1 = n
      BY <1>3, <3>1
    <3>3. Tail(t)[n - 1] = t[n]
      BY <1>3, <3>2
    <3>. QED  BY <1>2, <3>1, <3>2, <3>3
  <2>. QED  BY <2>3, <2>4
<1>13. \A j \in l.promised :
         \/ HasRun(j, l) \/ j = i
         \/ \E p \in 1..Len(gs) : \E n \in 1..Len(gs[p].todo) : gs[p].todo[n].id = j
  BY <1>12
<1>. QED  BY ONLY <1>4, <1>6, <1>7, <1>8, <1>9, <1>10, <1>11, <1>13, OwesAfterRun,
                  l \in Log, l2.ran = Append(l.ran, i), l2.promised = l.promised, l2.made = l.made

(* A new command runs at once.                                             *)
LEMMA OwesAfterNew ==
  ASSUME NEW Q, NEW fs, NEW l \in Log, Owes(Q, fs, l),
         Q \in [Sessions -> Seq(Commands)], IsStack(fs),
         NEW i \in Steps, i = l.made + 1,
         NEW l2, l2.ran = Append(l.ran, i), l2.promised = l.promised, l2.made = i
  PROVE  Owes(Q, fs, l2)
<1>1. PICK l1 : l1 = [made |-> i, ran |-> l.ran, promised |-> l.promised]
  OBVIOUS
<1>2. l1.ran = l.ran /\ l1.promised = l.promised /\ l1.made = i
  BY <1>1
<1>3. l1 \in Log
  <2>1. i \in 0..MaxSteps
    BY BoundsAssumption DEF Steps
  <2>. QED  BY <1>1, <2>1, LogFields DEF Log
<1>4. Owes(Q, fs, l1)
  BY <1>2, OwesAfterMade
<1>5. /\ QueuesWait(Q, l) /\ FramesWait(fs, l) /\ RunOnce(l)
      /\ QueuesWait(Q, l1) /\ FramesWait(fs, l1) /\ Apart(Q, fs) /\ RunOnce(l1) /\ Kept(fs, l1)
  BY <1>4 DEF Owes
<1>6. l.made \in Nat /\ l.made < i
  BY LogFields
<1>7. \A x : Waiting(x, l) => x.id # i
  <2>. TAKE x
  <2>. HAVE Waiting(x, l)
  <2>1. x.id <= l.made /\ ~(i <= l.made)
    BY <1>6 DEF Waiting
  <2>. QED  BY <2>1
<1>8. ~HasRun(i, l1) /\ i <= l1.made
  <2>1. \A k \in 1..Len(l.ran) : l.ran[k] <= l.made /\ ~(i <= l.made)
    BY <1>5, <1>6 DEF RunOnce
  <2>. QED  BY <1>2, <2>1 DEF HasRun
<1>9. \A s \in Sessions : \A n \in 1..Len(Q[s]) : Q[s][n].id # i
  BY <1>5, <1>7 DEF QueuesWait
<1>10. \A p \in 1..Len(fs) : \A n \in 1..Len(fs[p].todo) : fs[p].todo[n].id # i
  BY <1>5, <1>7 DEF FramesWait
<1>11. \A j \in l1.promised :
         \/ HasRun(j, l1) \/ j = i
         \/ \E p \in 1..Len(fs) : \E n \in 1..Len(fs[p].todo) : fs[p].todo[n].id = j
  BY <1>5 DEF Kept
<1>12. l2.ran = Append(l1.ran, i) /\ l2.promised = l1.promised /\ l2.made = l1.made
  BY <1>2
<1>. QED  BY ONLY <1>3, <1>5, <1>8, <1>9, <1>10, <1>11, <1>12, i \in Steps, OwesAfterRun

(***************************************************************************)
(* The invariant.                                                          *)
(***************************************************************************)
LEMMA QueuesTyped ==
  ASSUME commands \in [Sessions -> Seq(Commands) \cup {NoQueue}]
  PROVE  /\ Queues \in [Sessions -> Seq(Commands)]
         /\ \A s \in Sessions : InTransaction(s) => Queues[s] = commands[s]
<1>1. <<>> \in Seq(Commands)
  OBVIOUS
<1>. QED  BY <1>1 DEF Queues, InTransaction

LEMMA ScriptsInit == Init => Inv
<1>. SUFFICES ASSUME Init
              PROVE  Inv
  OBVIOUS
<1>. USE DEF Init
<1>1. IsStack(frames)
  BY EmptyStack
<1>2. log \in Log
  <2>1. <<>> \in Seq(Steps)
    OBVIOUS
  <2>. QED  BY <2>1, BoundsAssumption DEF Log
<1>3. TypeOK
  <2>1. store \in [Dbs -> {Nil} \cup {Bulk(t) : t \in Texts \cup {"", "word"}}]
    OBVIOUS
  <2>2. currentDb \in [Sessions -> Dbs] /\ errored \in [Sessions -> BOOLEAN]
    BY DbsAssumption
  <2>3. commands \in [Sessions -> Seq(Commands) \cup {NoQueue}]
    OBVIOUS
  <2>. QED  BY <1>1, <1>2, <2>1, <2>2, <2>3 DEF TypeOK
<1>4. \A s \in Sessions : Queues[s] = <<>>
  BY DEF Queues, InTransaction
<1>5. Owes(Queues, frames, log)
  <2>1. /\ QueuesWait(Queues, log) /\ Apart(Queues, frames)
    BY <1>4 DEF QueuesWait, Apart
  <2>2. FramesWait(frames, log) /\ RunOnce(log) /\ Kept(frames, log)
    BY DEF FramesWait, RunOnce, Kept
  <2>. QED  BY <2>1, <2>2 DEF Owes
<1>6. ReadInv
  BY DEF ReadInv, AllReadWell, Fresh, IsScript
<1>. QED  BY <1>3, <1>5, <1>6 DEF Inv

LEMMA MadeIsLog ==
  ASSUME NEW l \in Log, NEW i \in Steps
  PROVE  /\ [l EXCEPT !.made = i] \in Log
         /\ [l EXCEPT !.made = i].made = i
         /\ [l EXCEPT !.made = i].ran = l.ran
         /\ [l EXCEPT !.made = i].promised = l.promised
<1>1. i \in 0..MaxSteps
  BY BoundsAssumption DEF Steps
<1>. QED  BY <1>1 DEF Log

LEMMA RanIsLog ==
  ASSUME NEW l \in Log, NEW i \in Steps, NEW n \in 0..MaxSteps
  PROVE  /\ [l EXCEPT !.made = n, !.ran = Append(@, i)] \in Log
         /\ [l EXCEPT !.made = n, !.ran = Append(@, i)].made = n
         /\ [l EXCEPT !.made = n, !.ran = Append(@, i)].ran = Append(l.ran, i)
         /\ [l EXCEPT !.made = n, !.ran = Append(@, i)].promised = l.promised
<1>1. l.ran \in Seq(Steps)
  BY LogFields
<1>2. Append(l.ran, i) \in Seq(Steps)
  BY <1>1
<1>. QED  BY <1>2 DEF Log

(* What a step has to establish.                                           *)
Typed ==
  /\ DataOK /\ commands \in [Sessions -> Seq(Commands) \cup {NoQueue}]
  /\ errored \in [Sessions -> BOOLEAN] /\ caller \in Sessions /\ log \in Log

LEMMA InvFromParts ==
  ASSUME Typed', NEW fs, Outcome(fs), Owes(Queues, frames, log)'
  PROVE  Inv'
<1>1. TypeOK'
  BY DEF Typed, DataOK, Strings, TypeOK, Outcome
<1>2. ReadInv'
  BY DEF Outcome, ReadInv
<1>. QED  BY <1>1, <1>2 DEF Inv

LEMMA PartsFromInv ==
  ASSUME Inv
  PROVE  /\ Typed /\ DataOK /\ IsStack(frames) /\ Owes(Queues, frames, log)
         /\ AllReadWell(frames) /\ Fresh(frames, store)
         /\ Queues \in [Sessions -> Seq(Commands)]
BY QueuesTyped DEF Inv, TypeOK, Typed, DataOK, Strings, ReadInv

(* A command that is neither queued nor refused runs.                      *)
LEMMA BareStep ==
  ASSUME Inv, NEW fs, fs = frames, NEW s \in Sessions, caller' = s,
         NEW c \in Commands, c.id = log.made + 1, Bare(s, c, currentDb[s], fs)
  PROVE  Inv'
<1>1. /\ Typed /\ DataOK /\ IsStack(fs) /\ Owes(Queues, fs, log)
      /\ AllReadWell(fs) /\ Fresh(fs, store)
      /\ Queues \in [Sessions -> Seq(Commands)]
  BY PartsFromInv
<1>2. PICK d : d = currentDb[s] /\ d \in Dbs
  BY <1>1 DEF DataOK
<1>3. /\ Outcome(fs) /\ DataOK' /\ UNCHANGED <<commands, errored>>
      /\ log' = [log EXCEPT !.made = IF c.id > @ THEN c.id ELSE @, !.ran = Append(@, c.id)]
  BY <1>1, <1>2, BareOutcome
<1>4. PICK Q, l, l2, i, gs : Q = Queues /\ l = log /\ l2 = log' /\ i = c.id /\ gs = frames'
  OBVIOUS
<1>5. l \in Log /\ i \in Steps /\ i = l.made + 1 /\ l.made \in Nat
  BY <1>1, <1>4, LogFields DEF Typed, Commands
<1>6. i \in 0..MaxSteps
  BY <1>5, BoundsAssumption DEF Steps
<1>7. PICK n : n = (IF i > l.made THEN i ELSE l.made) /\ n = i
  BY <1>5
<1>8. l2 \in Log /\ l2.made = i /\ l2.ran = Append(l.ran, i) /\ l2.promised = l.promised
  <2>1. l2 = [l EXCEPT !.made = IF i > @ THEN i ELSE @, !.ran = Append(@, i)]
    BY <1>3, <1>4
  <2>2. [l EXCEPT !.made = IF i > @ THEN i ELSE @, !.ran = Append(@, i)] =
          [l EXCEPT !.made = IF i > l.made THEN i ELSE l.made, !.ran = Append(l.ran, i)]
    OBVIOUS
  <2>3. l2 = [l EXCEPT !.made = n, !.ran = Append(l.ran, i)]
    BY ONLY <1>7, <2>1, <2>2
  <2>4. l2 = [l EXCEPT !.made = n, !.ran = Append(@, i)]
    BY ONLY <2>3
  <2>5. l \in Log /\ i \in Steps /\ n \in 0..MaxSteps
    BY ONLY <1>5, <1>6, <1>7
  <2>6. l2 \in Log /\ l2.made = n /\ l2.ran = Append(l.ran, i) /\ l2.promised = l.promised
    BY ONLY <2>4, <2>5, RanIsLog
  <2>. QED  BY ONLY <1>7, <2>6
<1>9. Typed'
  BY <1>1, <1>3, <1>4, <1>8 DEF Typed
<1>10. Owes(Q, fs, l) /\ Q \in [Sessions -> Seq(Commands)] /\ IsStack(fs)
  BY <1>1, <1>4
<1>11. Owes(Q, fs, l2)
  BY ONLY <1>5, <1>8, <1>10, OwesAfterNew
<1>12. TodoKept(fs, gs)
  BY <1>3, <1>4 DEF Outcome
<1>13. Owes(Q, gs, l2)
  BY <1>11, <1>12, OwesWithLess
<1>14. Queues' = Q
  BY <1>3, <1>4 DEF Queues, InTransaction
<1>15. Owes(Queues, frames, log)'
  BY <1>4, <1>13, <1>14
<1>. QED  BY <1>3, <1>9, <1>15, InvFromParts

(* A command is answered and at most drops a queue.                        *)
LEMMA AnswerStep ==
  ASSUME Inv, NEW fs, fs = frames, caller' \in Sessions,
         NEW c \in Commands, c.id = log.made + 1, Silent(c.op),
         NEW v, Deliver(fs, c, v), Made(c), UNCHANGED <<store, scripts, waiters, currentDb>>,
         commands' \in [Sessions -> Seq(Commands) \cup {NoQueue}],
         \A t \in Sessions : commands'[t] \in {commands[t], <<>>, NoQueue},
         errored' \in [Sessions -> BOOLEAN]
  PROVE  Inv'
<1>1. /\ Typed /\ DataOK /\ IsStack(fs) /\ Owes(Queues, fs, log)
      /\ AllReadWell(fs) /\ Fresh(fs, store)
      /\ Queues \in [Sessions -> Seq(Commands)]
  BY PartsFromInv
<1>2. Outcome(fs)
  <2>1. Harmless(c, ToLua(v), Called(c), currentDb[caller'], store, store')
    BY DEF Harmless
  <2>2. store \in [Dbs -> Strings]
    BY <1>1 DEF DataOK
  <2>. QED  BY <1>1, <2>1, <2>2, DeliverOutcome
<1>3. PICK Q, Q2, l, l2, i, gs :
        Q = Queues /\ Q2 = Queues' /\ l = log /\ l2 = log' /\ i = c.id /\ gs = frames'
  OBVIOUS
<1>4. l \in Log /\ i \in Steps /\ i = l.made + 1
  BY <1>1, <1>3 DEF Typed, Commands
<1>5. l2 = [l EXCEPT !.made = i]
  BY <1>3 DEF Made
<1>6. l2 \in Log /\ l2.made = l.made + 1 /\ l2.ran = l.ran /\ l2.promised = l.promised
  <2>1. l2 \in Log /\ l2.made = i /\ l2.ran = l.ran /\ l2.promised = l.promised
    BY ONLY <1>4, <1>5, MadeIsLog
  <2>. QED  BY <1>4, <2>1
<1>7. Typed'
  BY <1>1, <1>3, <1>6 DEF Typed, DataOK
<1>8. Owes(Q, fs, l) /\ Q \in [Sessions -> Seq(Commands)] /\ IsStack(fs)
  BY <1>1, <1>3
<1>9. Owes(Q, fs, l2)
  BY ONLY <1>4, <1>6, <1>8, OwesAfterMade
<1>10. TodoKept(fs, gs)
  BY <1>2, <1>3 DEF Outcome
<1>11. \A t \in Sessions : Q2[t] \in {Q[t], <<>>}
  BY <1>3 DEF Queues, InTransaction
<1>12. Owes(Q2, gs, l2)
  BY <1>9, <1>10, <1>11, OwesWithLess
<1>13. Owes(Queues, frames, log)'
  BY <1>3, <1>12
<1>. QED  BY <1>2, <1>7, <1>13, InvFromParts

LEMMA QueuedIsQueued == ToLua(Queued) = Queued
<1>1. Len(Queued) = 2 /\ Queued[1] = "string" /\ Queued[2] = "QUEUED"
  BY DEF Queued
<1>2. Len(Error) = 1 /\ Len(Nil) = 1 /\ Bulk("")[2] = ""
  BY DEF Error, Nil, Bulk
<1>3. Queued \notin {Error, Nil, Bulk("")}
  BY <1>1, <1>2
<1>4. DOMAIN Numbers = {"1.5", "07"}
  BY DEF Numbers
<1>5. IntegerText("QUEUED") = "QUEUED"
  BY <1>4 DEF IntegerText
<1>. QED  BY <1>1, <1>3, <1>5 DEF ToLua, Bulk, Queued

LEMMA DeferStep ==
  ASSUME Inv, NEW fs, fs = frames, NEW s \in Sessions, caller' = s,
         NEW c \in Commands, c.id = log.made + 1, Defer(s, c, fs)
  PROVE  Inv'
<1>1. /\ Typed /\ DataOK /\ IsStack(fs) /\ Owes(Queues, fs, log)
      /\ AllReadWell(fs) /\ Fresh(fs, store)
      /\ Queues \in [Sessions -> Seq(Commands)]
  BY PartsFromInv
<1>2. /\ InTransaction(s) /\ commands' = [commands EXCEPT ![s] = Append(@, c)]
      /\ Deliver(fs, c, Queued) /\ log' = [log EXCEPT !.made = c.id]
      /\ UNCHANGED <<store, scripts, waiters, currentDb, errored>>
  BY DEF Defer, Made
<1>3. Outcome(fs)
  <2>1. Harmless(c, ToLua(Queued), Called(c), currentDb[caller'], store, store')
    BY <1>2, QueuedIsQueued DEF Harmless
  <2>2. store \in [Dbs -> Strings]
    BY <1>1 DEF DataOK
  <2>. QED  BY <1>1, <1>2, <2>1, <2>2, DeliverOutcome
<1>4. commands \in [Sessions -> Seq(Commands) \cup {NoQueue}]
  BY <1>1 DEF Typed
<1>5. PICK q : q = Append(commands[s], c)
  OBVIOUS
<1>6. q \in Seq(Commands) /\ q # NoQueue
  <2>1. commands[s] \in Seq(Commands)
    BY <1>2, <1>4 DEF InTransaction
  <2>2. q \in Seq(Commands)
    BY <1>5, <2>1
  <2>. QED  BY <2>2, NoQueueAssumption
<1>7. commands' = [commands EXCEPT ![s] = q]
  BY <1>2, <1>5
<1>8. commands' \in [Sessions -> Seq(Commands) \cup {NoQueue}]
  BY <1>4, <1>6, <1>7
<1>9. PICK Q, Q2, l, l2, i, gs :
        Q = Queues /\ Q2 = Queues' /\ l = log /\ l2 = log' /\ i = c.id /\ gs = frames'
  OBVIOUS
<1>10. Q[s] = commands[s]
  BY <1>2, <1>9 DEF Queues
<1>11. Q2 = [Q EXCEPT ![s] = Append(@, c)]
  <2>1. Q2 = [Q EXCEPT ![s] = q]
    BY <1>4, <1>6, <1>7, <1>9 DEF Queues, InTransaction
  <2>. QED  BY <1>5, <1>10, <2>1
<1>12. l \in Log /\ i \in Steps /\ i = l.made + 1 /\ l2 = [l EXCEPT !.made = i]
  BY <1>1, <1>2, <1>9 DEF Typed, Commands
<1>13. l2 \in Log /\ l2.made = l.made + 1 /\ l2.ran = l.ran /\ l2.promised = l.promised
  <2>1. l2 \in Log /\ l2.made = i /\ l2.ran = l.ran /\ l2.promised = l.promised
    BY ONLY <1>12, MadeIsLog
  <2>. QED  BY <1>12, <2>1
<1>14. Typed'
  BY <1>1, <1>2, <1>8, <1>9, <1>13 DEF Typed, DataOK
<1>15. Owes(Q, fs, l) /\ Q \in [Sessions -> Seq(Commands)] /\ IsStack(fs)
       /\ s \in Sessions /\ c \in Commands /\ c.id = l.made + 1
  BY <1>1, <1>9
<1>16. Owes(Q2, fs, l2)
  BY ONLY <1>11, <1>12, <1>13, <1>15, OwesAfterDefer
<1>17. TodoKept(fs, gs)
  BY <1>3, <1>9 DEF Outcome
<1>18. Owes(Q2, gs, l2)
  BY <1>16, <1>17, OwesWithLess
<1>19. Owes(Queues, frames, log)'
  BY <1>9, <1>18
<1>. QED  BY <1>3, <1>14, <1>19, InvFromParts

(* EXEC takes the queue.                                                   *)
LEMMA ExecBegins ==
  ASSUME Inv, NEW fs, fs = frames, NEW s \in Sessions, caller' = s,
         NEW c \in Commands, c.id = log.made + 1, Exec(s, c, fs),
         InTransaction(s), ~errored[s]
  PROVE  Inv'
<1>1. /\ Typed /\ DataOK /\ IsStack(fs) /\ Owes(Queues, fs, log)
      /\ AllReadWell(fs) /\ Fresh(fs, store)
      /\ Queues \in [Sessions -> Seq(Commands)]
  BY PartsFromInv
<1>2. /\ frames' = Append(fs, Frame("exec", currentDb[s], commands[s]))
      /\ log' = [log EXCEPT !.made = c.id, !.promised = @ \cup {q.id : q \in Range(commands[s])}]
      /\ UNCHANGED <<errored, store, scripts, waiters, currentDb>>
      /\ commands' = [commands EXCEPT ![s] = NoQueue]
  BY DEF Exec
<1>3. /\ commands \in [Sessions -> Seq(Commands) \cup {NoQueue}]
      /\ commands[s] \in Seq(Commands) /\ currentDb[s] \in Dbs
  BY <1>1 DEF Typed, DataOK, InTransaction
<1>4. PICK q, f : q = commands[s] /\ f = Frame("exec", currentDb[s], q)
  OBVIOUS
<1>5. PICK Q, Q2, l, l2, i, gs, st2 :
        /\ Q = Queues /\ Q2 = Queues' /\ l = log /\ l2 = log' /\ i = c.id /\ gs = frames'
        /\ st2 = store'
  OBVIOUS
<1>6. IsFrame(f) /\ f.todo = q /\ f.seen = <<>>
  BY <1>3, <1>4, ExecFrame DEF Frame
<1>7. gs = Append(fs, f)
  BY <1>2, <1>4, <1>5
<1>8. IsStack(gs) /\ AllReadWell(gs) /\ Fresh(gs, st2)
  BY <1>1, <1>6, <1>7, PushStack, BeginReadsWell
<1>9. Q[s] = q
  BY <1>4, <1>5 DEF Queues
<1>10. Q2 = [Q EXCEPT ![s] = <<>>]
  BY <1>2, <1>3, <1>5 DEF Queues, InTransaction
<1>11. l \in Log /\ i \in Steps /\ i = l.made + 1
  BY <1>1, <1>5 DEF Typed, Commands
<1>12. {x.id : x \in Range(q)} = {q[n].id : n \in 1..Len(q)}
  BY <1>3, <1>4 DEF Range
<1>13. PICK ids : ids = {q[n].id : n \in 1..Len(q)}
  OBVIOUS
<1>14. ids \subseteq Steps
  <2>1. \A n \in 1..Len(q) : q[n] \in Commands
    BY <1>3, <1>4
  <2>. QED  BY <1>13, <2>1 DEF Commands
<1>15. l2 = [l EXCEPT !.made = i, !.promised = @ \cup ids]
  BY <1>2, <1>4, <1>5, <1>12, <1>13
<1>16. PICK l1 : l1 = [l EXCEPT !.made = i]
  OBVIOUS
<1>17. l1 \in Log /\ l1.made = i /\ l1.ran = l.ran /\ l1.promised = l.promised
  BY ONLY <1>11, <1>16, MadeIsLog
<1>18. /\ l2 \in Log /\ l2.ran = l1.ran /\ l2.made = l1.made
       /\ l2.promised = l1.promised \cup ids
  <2>1. i \in 0..MaxSteps
    BY <1>11, BoundsAssumption DEF Steps
  <2>2. l2.ran = l.ran /\ l2.made = i /\ l2.promised = l.promised \cup ids
    BY ONLY <1>11, <1>15 DEF Log
  <2>3. l2 \in Log
    BY ONLY <1>11, <1>14, <1>15, <2>1 DEF Log
  <2>. QED  BY <1>17, <2>2, <2>3
<1>19. Typed'
  <2>1. commands' \in [Sessions -> Seq(Commands) \cup {NoQueue}]
    BY <1>2, <1>3
  <2>. QED  BY <1>1, <1>2, <1>5, <1>18, <2>1 DEF Typed, DataOK
<1>20. Owes(Q, fs, l) /\ Q \in [Sessions -> Seq(Commands)] /\ IsStack(fs)
  BY <1>1, <1>5
<1>21. Owes(Q, fs, l1)
  BY <1>11, <1>17, <1>20, OwesAfterMade
<1>22. PromisesQueue(l1, l2, Q[s])
  BY <1>9, <1>13, <1>18 DEF PromisesQueue
<1>23. f.todo = Q[s] /\ s \in Sessions
  BY <1>6, <1>9
<1>24. Owes(Q2, gs, l2)
  <2>1. /\ l1 \in Log /\ Owes(Q, fs, l1)
        /\ Q \in [Sessions -> Seq(Commands)] /\ IsStack(fs)
        /\ s \in Sessions /\ IsFrame(f) /\ f.todo = Q[s]
        /\ l2.ran = l1.ran /\ l2.made = l1.made
    BY <1>6, <1>17, <1>18, <1>20, <1>21, <1>23
  <2>. QED  BY ONLY <1>7, <1>10, <1>22, <2>1, OwesAfterExec
<1>25. Owes(Queues, frames, log)'
  BY <1>5, <1>24
<1>26. TypeOK'
  BY <1>5, <1>8, <1>19 DEF Typed, DataOK, Strings, TypeOK
<1>. QED  BY <1>5, <1>8, <1>25, <1>26 DEF Inv, ReadInv

(* The last frame ends and answers the one below.                          *)
LEMMA ReturnStep ==
  ASSUME Inv, NEW fs, fs = frames, fs # <<>>, fs[Len(fs)].todo = <<>>, caller' = caller,
         NEW c, c.op \in {"exec", "eval"}, NEW v, Deliver(Front(fs), c, v),
         UNCHANGED <<store, scripts, waiters, session, log>>
  PROVE  Inv'
<1>1. /\ Typed /\ DataOK /\ IsStack(fs) /\ Owes(Queues, fs, log)
      /\ AllReadWell(fs) /\ Fresh(fs, store)
      /\ Queues \in [Sessions -> Seq(Commands)]
  BY PartsFromInv
<1>2. PICK hs, n : hs = Front(fs) /\ n = Len(fs) - 1
  OBVIOUS
<1>3. Len(fs) \in Nat /\ n \in 0..Len(fs) /\ n + 1 = Len(fs)
  BY <1>1, <1>2, StackIsSeq
<1>4. hs = SubSeq(fs, 1, n)
  BY <1>2 DEF Front
<1>5. \A p \in 1..Len(fs) : p > n => fs[p].todo = <<>>
  <2>1. \A p \in 1..Len(fs) : p > n => p = Len(fs)
    BY <1>3
  <2>. QED  BY <2>1
<1>6. IsStack(hs) /\ TodoKept(fs, hs) /\ Len(hs) = n /\ \A p \in 1..n : hs[p] = fs[p]
  BY <1>1, <1>3, <1>4, <1>5, CutStack
<1>7. AllReadWell(hs)
  BY <1>1, <1>3, <1>6 DEF AllReadWell
<1>8. Outcome(hs)
  <2>1. Harmless(c, ToLua(v), Called(c), currentDb[caller'], store, store') /\ c.op \in Writers
    BY DEF Harmless, Silent, Writers
  <2>2. store \in [Dbs -> Strings]
    BY <1>1 DEF DataOK
  <2>3. Deliver(hs, c, v)
    BY <1>2
  <2>. QED  BY <1>6, <1>7, <2>1, <2>2, <2>3, DeliverOutcome
<1>9. PICK Q, l, gs : Q = Queues /\ l = log /\ gs = frames'
  OBVIOUS
<1>10. Owes(Q, hs, l)
  <2>1. Owes(Q, fs, l) /\ \A s \in Sessions : Q[s] \in {Q[s], <<>>}
    BY <1>1, <1>9
  <2>. QED  BY <1>6, <2>1, OwesWithLess
<1>11. Owes(Q, gs, l)
  <2>1. TodoKept(hs, gs) /\ \A s \in Sessions : Q[s] \in {Q[s], <<>>}
    BY <1>8, <1>9 DEF Outcome
  <2>. QED  BY <1>10, <2>1, OwesWithLess
<1>12. Queues' = Q /\ log' = l
  BY <1>9 DEF Queues, InTransaction, session
<1>13. Owes(Queues, frames, log)'
  BY <1>9, <1>11, <1>12
<1>14. Typed'
  BY <1>1 DEF Typed, DataOK, session
<1>. QED  BY <1>8, <1>13, <1>14, InvFromParts

(* EXEC runs the next command.                                             *)
LEMMA NextStep ==
  ASSUME Inv, ExecStep
  PROVE  Inv'
<1>1. PICK fs, m : fs = frames /\ m = Len(fs)
  OBVIOUS
<1>2. /\ Typed /\ DataOK /\ IsStack(fs) /\ Owes(Queues, fs, log)
      /\ AllReadWell(fs) /\ Fresh(fs, store)
      /\ Queues \in [Sessions -> Seq(Commands)]
  BY <1>1, PartsFromInv
<1>3. PICK hs, t, d, c :
        /\ hs = [fs EXCEPT ![m].todo = Tail(@)] /\ t = fs[m].todo /\ d = fs[m].db /\ c = Head(t)
  OBVIOUS
<1>4. /\ fs # <<>> /\ fs[m].kind = "exec" /\ t # <<>> /\ caller' = caller
      /\ Bare(caller, c, d, hs)
  BY <1>1, <1>3 DEF ExecStep, Last
<1>5. /\ IsStack(hs) /\ Len(hs) = m /\ m \in 1..m /\ hs[m].kind = "exec" /\ hs[m].todo = Tail(t)
      /\ \A p \in 1..m : p # m => hs[p] = fs[p]
      /\ d \in Dbs /\ t \in Seq(Commands)
  <2>1. IsStack(fs) /\ fs # <<>> /\ fs[Len(fs)].kind = "exec" /\ fs[Len(fs)].todo # <<>>
    BY <1>1, <1>2, <1>3, <1>4
  <2>2. m = Len(fs)
    BY <1>1
  <2>. QED  BY ONLY <1>3, <2>1, <2>2, NextStack
<1>6. c \in Commands
  BY <1>3, <1>4, <1>5
<1>7. AllReadWell(hs) /\ ~IsScript(hs)
  <2>1. \A p \in 1..Len(hs) : hs[p].kind = "script" => hs[p] = fs[p]
    BY <1>5
  <2>2. AllReadWell(hs)
    BY <1>1, <1>2, <1>5, <2>1 DEF AllReadWell
  <2>. QED  BY <1>5, <2>2 DEF IsScript, Last
<1>8. Fresh(hs, store)
  BY <1>7 DEF Fresh
<1>9. caller \in Sessions
  BY <1>2 DEF Typed
<1>10. /\ Outcome(hs) /\ DataOK' /\ UNCHANGED <<commands, errored>>
       /\ log' = [log EXCEPT !.made = IF c.id > @ THEN c.id ELSE @, !.ran = Append(@, c.id)]
  BY <1>2, <1>4, <1>5, <1>6, <1>7, <1>8, <1>9, BareOutcome
<1>11. PICK Q, l, l2, i, gs : Q = Queues /\ l = log /\ l2 = log' /\ i = c.id /\ gs = frames'
  OBVIOUS
<1>12. Owes(Q, fs, l) /\ Q \in [Sessions -> Seq(Commands)] /\ l \in Log /\ i \in Steps
  BY <1>2, <1>6, <1>11 DEF Typed, Commands
<1>13. i <= l.made
  <2>1. 1 \in 1..Len(t) /\ c = t[1]
    BY <1>3, <1>4, <1>5, TailIsSeq
  <2>. QED  BY <1>1, <1>3, <1>5, <1>11, <1>12, <2>1 DEF Owes, FramesWait, Waiting
<1>14. l.made \in Nat /\ i \in Nat /\ l.made \in 0..MaxSteps
  BY <1>12, LogFields DEF Log
<1>15. PICK n : n = (IF i > l.made THEN i ELSE l.made) /\ n = l.made
  BY <1>13, <1>14
<1>16. l2 \in Log /\ l2.made = l.made /\ l2.ran = Append(l.ran, i) /\ l2.promised = l.promised
  <2>1. l2 = [l EXCEPT !.made = IF i > @ THEN i ELSE @, !.ran = Append(@, i)]
    BY <1>10, <1>11
  <2>2. [l EXCEPT !.made = IF i > @ THEN i ELSE @, !.ran = Append(@, i)] =
          [l EXCEPT !.made = IF i > l.made THEN i ELSE l.made, !.ran = Append(l.ran, i)]
    OBVIOUS
  <2>3. l2 = [l EXCEPT !.made = n, !.ran = Append(l.ran, i)]
    BY ONLY <1>15, <2>1, <2>2
  <2>4. l2 = [l EXCEPT !.made = n, !.ran = Append(@, i)]
    BY ONLY <2>3
  <2>5. l \in Log /\ i \in Steps /\ n \in 0..MaxSteps
    BY ONLY <1>12, <1>14, <1>15
  <2>6. l2 \in Log /\ l2.made = n /\ l2.ran = Append(l.ran, i) /\ l2.promised = l.promised
    BY ONLY <2>4, <2>5, RanIsLog
  <2>. QED  BY ONLY <1>15, <2>6
<1>17. Owes(Q, hs, l2)
  <2>1. fs[m].todo # <<>> /\ i = Head(fs[m].todo).id
    BY <1>3, <1>4, <1>11
  <2>. QED  BY ONLY <1>1, <1>2, <1>3, <1>4, <1>12, <1>16, <2>1, OwesAfterNext
<1>18. Owes(Q, gs, l2)
  <2>1. TodoKept(hs, gs) /\ \A s \in Sessions : Q[s] \in {Q[s], <<>>}
    BY <1>10, <1>11 DEF Outcome
  <2>. QED  BY <1>17, <2>1, OwesWithLess
<1>19. Queues' = Q
  BY <1>10, <1>11 DEF Queues, InTransaction
<1>20. Owes(Queues, frames, log)'
  BY <1>11, <1>18, <1>19
<1>21. Typed'
  BY <1>2, <1>4, <1>10, <1>11, <1>16 DEF Typed
<1>. QED  BY <1>10, <1>20, <1>21, InvFromParts

(* A command goes through its wrapper, for a client or for a script.       *)
LEMMA WrapperStep ==
  ASSUME Inv, NEW fs, fs = frames, NEW s \in Sessions, caller' = s,
         NEW c \in Commands, c.id = log.made + 1, Wrapper(s, c, fs)
  PROVE  Inv'
<1>1. /\ commands \in [Sessions -> Seq(Commands) \cup {NoQueue}]
      /\ errored \in [Sessions -> BOOLEAN]
  BY PartsFromInv DEF Typed
<1>2. <<>> \in Seq(Commands)
  OBVIOUS
<1>3. CASE Refuse(s, c, fs)
  <2>1. /\ Silent(c.op) /\ Deliver(fs, c, Error) /\ Made(c)
        /\ UNCHANGED <<store, scripts, waiters, currentDb>> /\ commands' = commands
    BY <1>3 DEF Refuse, Silent
  <2>2. errored' \in [Sessions -> BOOLEAN]
    BY <1>1, <1>3 DEF Refuse
  <2>. QED  BY <1>1, <2>1, <2>2, AnswerStep
<1>4. CASE Defer(s, c, fs)
  BY <1>4, DeferStep
<1>5. CASE ~InTransaction(s) /\ Bare(s, c, currentDb[s], fs)
  BY <1>5, BareStep
<1>6. CASE Multi(s, c, fs)
  <2>1. PICK v : v = IF InTransaction(s) THEN Error ELSE Ok
    OBVIOUS
  <2>2. /\ Silent(c.op) /\ Deliver(fs, c, v) /\ Made(c)
        /\ UNCHANGED <<store, scripts, waiters, currentDb>>
    BY <1>6, <2>1 DEF Multi, Silent
  <2>3. commands' = commands \/ commands' = [commands EXCEPT ![s] = <<>>]
    BY <1>6 DEF Multi
  <2>4. commands' \in [Sessions -> Seq(Commands) \cup {NoQueue}]
    BY <1>1, <1>2, <2>3
  <2>5. \A t \in Sessions : commands'[t] \in {commands[t], <<>>, NoQueue}
    BY <1>1, <2>3
  <2>6. errored' \in [Sessions -> BOOLEAN]
    BY <1>1, <1>6 DEF Multi
  <2>. QED  BY <2>2, <2>4, <2>5, <2>6, AnswerStep
<1>7. CASE Discard(s, c, fs)
  <2>1. PICK v : v = IF InTransaction(s) THEN Ok ELSE Error
    OBVIOUS
  <2>2. /\ Silent(c.op) /\ Deliver(fs, c, v) /\ Made(c)
        /\ UNCHANGED <<store, scripts, waiters, currentDb>>
        /\ commands' = [commands EXCEPT ![s] = NoQueue]
    BY <1>7, <2>1 DEF Discard, Silent
  <2>3. commands' \in [Sessions -> Seq(Commands) \cup {NoQueue}]
    BY <1>1, <2>2
  <2>4. \A t \in Sessions : commands'[t] \in {commands[t], <<>>, NoQueue}
    BY <1>1, <2>2
  <2>5. errored' \in [Sessions -> BOOLEAN]
    BY <1>1, <1>7 DEF Discard
  <2>. QED  BY <2>2, <2>3, <2>4, <2>5, AnswerStep
<1>8. CASE Exec(s, c, fs)
  <2>1. CASE InTransaction(s) /\ ~errored[s]
    BY <1>8, <2>1, ExecBegins
  <2>2. CASE ~InTransaction(s) \/ errored[s]
    <3>1. /\ Silent(c.op) /\ Deliver(fs, c, Error) /\ Made(c)
          /\ UNCHANGED <<store, scripts, waiters, currentDb>>
          /\ commands' = [commands EXCEPT ![s] = NoQueue]
      BY <1>8, <2>2 DEF Exec, Silent
    <3>2. commands' \in [Sessions -> Seq(Commands) \cup {NoQueue}]
      BY <1>1, <3>1
    <3>3. \A t \in Sessions : commands'[t] \in {commands[t], <<>>, NoQueue}
      BY <1>1, <3>1
    <3>4. errored' \in [Sessions -> BOOLEAN]
      BY <1>1, <1>8, <2>2 DEF Exec
    <3>. QED  BY <3>1, <3>2, <3>3, <3>4, AnswerStep
  <2>. QED  BY <2>1, <2>2
<1>. QED  BY <1>3, <1>4, <1>5, <1>6, <1>7, <1>8 DEF Wrapper

LEMMA NewCommandsAreCommands ==
  ASSUME log \in Log, log.made < MaxSteps, NEW c \in NewCommands
  PROVE  c \in Commands /\ c.id = log.made + 1
<1>1. log.made + 1 \in Steps
  BY BoundsAssumption DEF Log, Steps
<1>2. Ops \subseteq AllOps
  BY OpsAssumption
<1>. QED  BY <1>1, <1>2 DEF NewCommands, Commands

LEMMA ScriptsNext == Inv /\ [Next]_vars => Inv'
<1>. SUFFICES ASSUME Inv, [Next]_vars
              PROVE  Inv'
  OBVIOUS
<1>1. PICK fs : fs = frames
  OBVIOUS
<1>2. /\ IsStack(fs) /\ caller \in Sessions /\ log \in Log
  BY <1>1, PartsFromInv DEF Typed
<1>3. ASSUME NEW s \in Sessions, Handle(s)
      PROVE  Inv'
  <2>1. PICK c \in NewCommands : Wrapper(s, c, <<>>)
    BY <1>3 DEF Handle
  <2>2. log.made < MaxSteps /\ fs = <<>> /\ caller' = s
    BY <1>1, <1>3 DEF Handle
  <2>3. c \in Commands /\ c.id = log.made + 1
    BY <1>2, <2>2, NewCommandsAreCommands
  <2>. QED  BY <1>1, <2>1, <2>2, <2>3, WrapperStep
<1>4. CASE Call
  <2>1. PICK c \in NewCommands : Wrapper(caller, c, frames)
    BY <1>4 DEF Call
  <2>2. log.made < MaxSteps /\ caller' = caller
    BY <1>4 DEF Call
  <2>3. c \in Commands /\ c.id = log.made + 1
    BY <1>2, <2>2, NewCommandsAreCommands
  <2>4. PICK s \in Sessions : s = caller
    BY <1>2
  <2>. QED  BY <1>1, <2>1, <2>2, <2>3, <2>4, WrapperStep
<1>5. CASE ScriptReturn
  <2>1. PICK c : c = [op |-> "eval", text |-> ""]
    OBVIOUS
  <2>2. \E v : Deliver(Front(frames), c, v)
    BY <1>5, <2>1 DEF ScriptReturn
  <2>3. fs # <<>> /\ fs[Len(fs)].kind = "script" /\ caller' = caller
        /\ UNCHANGED <<store, scripts, waiters, session, log>>
    BY <1>1, <1>5 DEF ScriptReturn, IsScript, Last
  <2>4. fs[Len(fs)].todo = <<>>
    <3>1. IsFrame(fs[Len(fs)])
      BY <1>2, <2>3, StackIsSeq
    <3>. QED  BY <2>3, <3>1, ScriptsHaveNothingToDo
  <2>5. c.op = "eval"
    BY <2>1
  <2>. QED  BY <1>1, <2>2, <2>3, <2>4, <2>5, ReturnStep
<1>6. CASE ExecStep
  BY <1>6, NextStep
<1>7. CASE ExecReturn
  <2>1. PICK c, v : c = [op |-> "exec", text |-> ""] /\ v = Array(<<>>)
    OBVIOUS
  <2>2. /\ Deliver(Front(frames), c, v) /\ fs # <<>> /\ fs[Len(fs)].todo = <<>>
        /\ caller' = caller /\ UNCHANGED <<store, scripts, waiters, session, log>>
    BY <1>1, <1>7, <2>1 DEF ExecReturn, Last
  <2>3. c.op = "exec"
    BY <2>1
  <2>. QED  BY <1>1, <2>2, <2>3, ReturnStep
<1>8. CASE UNCHANGED vars
  <2>1. UNCHANGED <<store, scripts, waiters, currentDb, commands, errored, caller, frames, log>>
    BY <1>8 DEF vars, session
  <2>2. TypeOK' /\ ReadInv'
    BY <2>1 DEF Inv, TypeOK, ReadInv
  <2>3. Queues' = Queues
    BY <2>1 DEF Queues, InTransaction
  <2>4. Owes(Queues, frames, log)'
    BY <2>1, <2>3 DEF Inv
  <2>. QED  BY <2>2, <2>4 DEF Inv
<1>9. CASE Timeout
  <2>1. /\ UNCHANGED <<store, scripts, currentDb, commands, errored, caller, frames, log>>
        /\ waiters' \subseteq waiters
    BY <1>9 DEF Timeout, session
  <2>2. TypeOK' /\ ReadInv'
    BY <2>1 DEF Inv, TypeOK, ReadInv
  <2>3. Queues' = Queues
    BY <2>1 DEF Queues, InTransaction
  <2>4. Owes(Queues, frames, log)'
    BY <2>1, <2>3 DEF Inv
  <2>. QED  BY <2>2, <2>4 DEF Inv
<1>. QED  BY <1>3, <1>4, <1>5, <1>6, <1>7, <1>8, <1>9 DEF Next

(* The inductive invariant: frames and queues hold commands that have been *)
(* made and have not run, no two of them the same one; what an EXEC took   *)
(* has run or is in its frame; and what the innermost script has written   *)
(* last is still in the database.                                          *)
THEOREM ScriptInvariance == Spec => []Inv
<1>1. Init => Inv
  BY ScriptsInit
<1>2. Inv /\ [Next]_vars => Inv'
  BY ScriptsNext
<1>. QED  BY <1>1, <1>2, PTL DEF Spec

(* Whatever an EXEC takes from a queue runs exactly once, behind exceptions*)
(* and for a script that called EXEC as well (ExecCommand, LuaRedisLib).   *)
THEOREM ExecsRunWhatTheyTake == Spec => []ExecRunsItsQueue
<1>1. Inv => ExecRunsItsQueue
  <2>. SUFFICES ASSUME Inv
                PROVE  ExecRunsItsQueue
    OBVIOUS
  <2>1. log \in Log /\ RunOnce(log) /\ Kept(frames, log)
    BY DEF Inv, TypeOK, Owes
  <2>2. log.ran \in Seq(Steps) /\ DOMAIN log.ran = 1..Len(log.ran)
    BY <2>1, LogFields
  <2>3. IsInjective(log.ran)
    BY <2>1, <2>2 DEF IsInjective, RunOnce
  <2>4. ASSUME frames = <<>>, NEW i \in log.promised
        PROVE  i \in Range(log.ran)
    <3>1. HasRun(i, log)
      BY <2>1, <2>4 DEF Kept
    <3>. QED  BY <2>2, <3>1 DEF HasRun, Range
  <2>. QED  BY <2>3, <2>4 DEF ExecRunsItsQueue, Inv
<1>. QED  BY <1>1, ScriptInvariance, PTL

(* A script reads what it has written or pushed, unless something it       *)
(* called itself may have written since or somebody waited for that push:  *)
(* no request of another client comes between its calls                    *)
(* (ScriptCommand.executeLua, LuaRedisLib).                                *)
THEOREM ScriptsReadBackWrites == Spec => []ScriptsReadTheirWrites
<1>1. Inv => ScriptsReadTheirWrites
  <2>. SUFFICES ASSUME Inv,
                       NEW f \in Frames, NEW i \in DOMAIN f.seen, NEW j \in DOMAIN f.seen,
                       i < j, f.seen[i].op \in {"write", "push"}, f.seen[j].op = "read",
                       f.seen[i].db = f.seen[j].db, f.seen[i].db \notin f.seen[i].called,
                       Queued \notin {f.seen[i].value, f.seen[j].value},
                       {f.seen[n].op : n \in (i + 1)..(j - 1)}
                         \cap {"write", "push", "exec", "eval", "evalsha"} = {}
                PROVE  f.seen[j].value = ToLua(Bulk(f.seen[i].text))
    BY DEF ScriptsReadTheirWrites
  <2>1. IsStack(frames) /\ AllReadWell(frames)
    BY DEF Inv, TypeOK, ReadInv
  <2>2. PICK p \in 1..Len(frames) : f = frames[p] /\ f.kind = "script"
    <3>1. PICK fs : fs = frames
      OBVIOUS
    <3>2. DOMAIN fs = 1..Len(fs)
      BY <2>1, <3>1, StackIsSeq
    <3>. QED  BY <3>1, <3>2 DEF Frames, Range
  <2>3. ReadsWell(f.seen)
    BY <2>1, <2>2 DEF AllReadWell
  <2>4. DOMAIN f.seen = 1..Len(f.seen)
    <3>1. PICK fs : fs = frames
      OBVIOUS
    <3>2. IsFrame(f)
      BY <2>1, <2>2, <3>1, StackIsSeq
    <3>3. IsSeq(f.seen)
      BY <3>2 DEF IsFrame, IsSeq
    <3>. QED  BY <3>3, SeqIsSeq DEF IsSeq
  <2>5. \A n \in (i + 1)..(j - 1) : f.seen[n].op \notin Writers
    BY DEF Writers
  <2>6. Written(f.seen, i, j)
    BY <2>5 DEF Written
  <2>. QED  BY <2>3, <2>4, <2>6 DEF ReadsWell
<1>. QED  BY <1>1, ScriptInvariance, PTL

(* While the session of a request is in a transaction, no call of a script *)
(* of that request changes the data but those that run inside an EXEC      *)
(* (CommandWrapper.execSync, LuaRedisLib).                                 *)
THEOREM ScriptsKeepTransactions == Spec => ScriptsRespectTransactions
<1>. DEFINE A == store' # store =>
                   \/ ~InTransaction(caller')
                   \/ \E i \in DOMAIN frames : frames[i].kind = "exec"
<1>1. Inv /\ [Next]_vars => [A]_vars
  <2>. SUFFICES ASSUME Inv, Next, store' # store, InTransaction(caller')
                PROVE  \E i \in DOMAIN frames : frames[i].kind = "exec"
    OBVIOUS
  <2>1. ASSUME NEW s \in Sessions, caller' = s, NEW c, NEW fs, Wrapper(s, c, fs)
        PROVE  FALSE
    <3>1. ~(~InTransaction(s) /\ Bare(s, c, currentDb[s], fs))
      BY <2>1
    <3>2. UNCHANGED store
      BY <2>1, <3>1 DEF Wrapper, Refuse, Defer, Multi, Discard, Exec
    <3>. QED  BY <3>2
  <2>2. ASSUME NEW s \in Sessions, Handle(s)
        PROVE  FALSE
    <3>1. caller' = s /\ \E c \in NewCommands : Wrapper(s, c, <<>>)
      BY <2>2 DEF Handle
    <3>. QED  BY <2>1, <3>1
  <2>3. ASSUME Call
        PROVE  FALSE
    <3>1. PICK c : Wrapper(caller, c, frames)
      BY <2>3 DEF Call
    <3>2. PICK s, fs : s \in Sessions /\ s = caller /\ fs = frames
      BY DEF Inv, TypeOK
    <3>3. caller' = s /\ Wrapper(s, c, fs)
      BY <2>3, <3>1, <3>2 DEF Call
    <3>. QED  BY <2>1, <3>2, <3>3
  <2>4. ~ScriptReturn /\ ~ExecReturn /\ ~Timeout
    BY DEF ScriptReturn, ExecReturn, Timeout
  <2>5. ExecStep
    BY <2>2, <2>3, <2>4 DEF Next
  <2>6. PICK fs : fs = frames
    OBVIOUS
  <2>7. fs # <<>> /\ fs[Len(fs)].kind = "exec" /\ IsStack(fs)
    BY <2>5, <2>6 DEF ExecStep, Last, Inv, TypeOK
  <2>8. Len(fs) \in DOMAIN fs
    BY <2>7, StackIsSeq
  <2>. QED  BY <2>6, <2>7, <2>8
<1>. QED  BY <1>1, ScriptInvariance, PTL DEF Spec, ScriptsRespectTransactions
=============================================================================
