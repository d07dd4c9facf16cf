----------------------------- MODULE HistoryProofs -----------------------------
(***************************************************************************)
(* Theorems of the history of a project and of its bitmap, for any epochs, *)
(* snapshots, lists, callers and bounds.                                   *)
(***************************************************************************)
EXTENDS History, BitmapProofs

-----------------------------------------------------------------------------
(* Facts about the operators.                                              *)

LEMMA ListsTyped ==
  ASSUME NEW e \in Epochs, NEW s \in ListsOf[e]
  PROVE  s \in Seq(Epochs) /\ Entries(s) \subseteq Epochs /\ (s # <<>> => s[1] \in Epochs)
<1>1. s \in Seq(Epochs)
  BY HistoryAssumption DEF HistoryAssumption
<1>2. \A i \in DOMAIN s : s[i] \in Epochs
  BY <1>1
<1>3. s # <<>> => s[1] \in Epochs
  BY <1>1
<1>4. Entries(s) \subseteq Epochs
  BY <1>2 DEF Entries
<1>5. QED
  BY <1>1, <1>3, <1>4

LEMMA FetchedTyped ==
  ASSUME NEW e \in Epochs, NEW s \in Fetched(e)
  PROVE  s \in Seq(Epochs) /\ (s # <<>> => s \in ListsOf[e])
<1>1. s = <<>> \/ s \in ListsOf[e]
  BY DEF Fetched
<1>2. CASE s = <<>>
  BY <1>2
<1>3. CASE s # <<>>
  BY <1>1, <1>3, ListsTyped
<1>4. QED
  BY <1>2, <1>3

-----------------------------------------------------------------------------
(* What a call has in hand, by its place.                                  *)

TaskType ==
    [at : Steps, epoch : Epochs \cup {None}, list : Seq(Epochs),
     path : Seq(Frames), root : BOOLEAN, missing : SUBSET Epochs,
     known : SUBSET Epochs, found : SUBSET Epochs]

Calling == {"flag", "set", "mark", "back", "next", "unwind", "clear", "last"}

\* An epoch whose CID is being fetched has one; a root call is either of the
\* cacher, without an epoch, or of an epoch that has a CID.
Placed(t) ==
    /\ t.at \in {"own", "ownBack", "store"} => t.epoch \in WithData
    /\ t.at = "ask" => t.epoch \in Epochs
    /\ t.at = "walk" => t.missing # {}
    /\ t.root => /\ t.at \in Calling \cup {"ownBack"}
                 /\ t.epoch # None => t.epoch \in WithData
    /\ t.at = "ownBack" => t.root
    /\ t.at \in Calling /\ ~t.root => t.epoch \in Epochs
    /\ t.found \subseteq Epochs

\* The list in hand is that of a snapshot of the epoch in hand.
Listed(t) ==
    t.list # <<>> => /\ t.epoch \in WithData
                     /\ t.list \in ListsOf[t.epoch]
                     /\ t.root \/ t.at = "store"

FrameOK(f) == f.epoch \in Epochs /\ (f.list # <<>> => f.list \in ListsOf[f.epoch])

Framed(t) ==
    /\ t.at \in Calling \cup {"ownBack"} => t.path # <<>>
    /\ t.at = "unwind" => Len(t.path) > 1
    /\ \A i \in DOMAIN t.path : FrameOK(t.path[i])

Shallow(s) == Len(s) <= MaxDepth + 1

Proper(t) ==
    t \in TaskType /\ Placed(t) /\ Listed(t) /\ Framed(t) /\ Shallow(t.path)

Base == TypeOK /\ \A c \in Callers : Proper(task[c])

LEMMA IdleProper == Proper(Idle)
  BY HistoryAssumption
  DEF HistoryAssumption, Proper, Idle, TaskType, Steps, Placed, Listed, Framed, Shallow, Calling

LEMMA AnsweredProper ==
  ASSUME NEW t \in TaskType, t.found \subseteq Epochs
  PROVE  Proper(Answered(t))
<1>1. CASE t.missing \ {t.epoch} = {}
  BY <1>1, IdleProper DEF Answered
<1>2. CASE t.missing \ {t.epoch} # {}
  <2>1. Answered(t) = [t EXCEPT !.at = "refresh", !.epoch = None, !.list = <<>>,
                                !.path = <<>>, !.root = FALSE,
                                !.missing = t.missing \ {t.epoch}]
    BY <1>2 DEF Answered
  <2> DEFINE rest == t.missing \ {t.epoch}
  <2>typed. "refresh" \in Steps /\ <<>> \in Seq(Epochs) /\ <<>> \in Seq(Frames) /\ rest \in SUBSET Epochs
    BY DEF Steps, TaskType
  <2> HIDE DEF rest
  <2>2. Answered(t) \in TaskType
    BY <2>1, <2>typed DEF TaskType, rest
  <2>3. /\ Answered(t).at = "refresh" /\ Answered(t).list = <<>> /\ Answered(t).path = <<>>
        /\ Answered(t).root = FALSE /\ Answered(t).found = t.found
    BY <2>1 DEF TaskType
  <2>4. Placed(Answered(t)) /\ Listed(Answered(t))
    BY <2>3 DEF Placed, Listed, Calling
  <2>5. Framed(Answered(t)) /\ Shallow(Answered(t).path)
    BY <2>3, HistoryAssumption DEF HistoryAssumption, Framed, Shallow, Calling
  <2>6. QED
    BY <2>2, <2>4, <2>5 DEF Proper
<1>3. QED
  BY <1>1, <1>2

LEMMA ProcessedProper ==
  ASSUME NEW t, Proper(t), t.at \in Calling
  PROVE  Proper(Processed(t))
<1>typed. /\ t \in TaskType /\ Placed(t) /\ Listed(t)
          /\ "store" \in Steps /\ "ask" \in Steps /\ <<>> \in Seq(Frames)
          /\ MaxDepth \in Nat
  BY HistoryAssumption DEF HistoryAssumption, Proper, Steps
<1>1. CASE t.root /\ t.epoch = None
  BY <1>1, IdleProper DEF Processed
<1>2. CASE t.root /\ t.epoch # None
  <2> DEFINE u == [t EXCEPT !.at = "store", !.path = <<>>, !.root = FALSE]
  <2>1. Processed(t) = u
    BY <1>2 DEF Processed
  <2>2. u \in TaskType
    BY <1>typed DEF TaskType
  <2>3. /\ u.at = "store" /\ u.path = <<>> /\ u.root = FALSE /\ u.epoch = t.epoch
        /\ u.list = t.list /\ u.found = t.found
    BY <1>typed DEF TaskType
  <2> HIDE DEF u
  <2>4. Placed(u) /\ Listed(u)
    BY <1>2, <1>typed, <2>3 DEF Placed, Listed, Calling
  <2>5. Framed(u) /\ Shallow(u.path)
    BY <1>typed, <2>3 DEF Framed, Shallow, Calling
  <2>6. QED
    BY <2>1, <2>2, <2>4, <2>5 DEF Proper
<1>3. CASE ~t.root
  <2> DEFINE u == [t EXCEPT !.at = "ask", !.path = <<>>]
  <2>1. Processed(t) = u
    BY <1>3 DEF Processed
  <2>2. u \in TaskType
    BY <1>typed DEF TaskType
  <2>3. /\ u.at = "ask" /\ u.path = <<>> /\ u.root = FALSE /\ u.epoch = t.epoch
        /\ u.list = t.list /\ u.found = t.found
    BY <1>3, <1>typed DEF TaskType
  <2> HIDE DEF u
  <2>4. t.list = <<>> /\ t.epoch \in Epochs
    BY <1>3, <1>typed DEF Placed, Listed, Calling
  <2>5. Placed(u) /\ Listed(u)
    BY <1>3, <1>typed, <2>3, <2>4 DEF Placed, Listed, Calling
  <2>6. Framed(u) /\ Shallow(u.path)
    BY <1>typed, <2>3 DEF Framed, Shallow, Calling
  <2>7. QED
    BY <2>1, <2>2, <2>5, <2>6 DEF Proper
<1>4. QED
  BY <1>1, <1>2, <1>3

\* Out of one frame: only the place changes.
LEMMA OutProper ==
  ASSUME NEW t, Proper(t), t.at \in Calling, t.path # <<>>
  PROVE  Proper(Out(t)) /\ Out(t).list = t.list /\ Out(t).epoch = t.epoch
<1> DEFINE a == IF Len(t.path) > 1 THEN "unwind" ELSE IF t.root THEN "clear" ELSE "last"
<1>1. a \in Calling /\ a \in Steps /\ (a = "unwind" => Len(t.path) > 1)
  BY DEF Calling, Steps
<1>2. Out(t) = [t EXCEPT !.at = a]
  BY DEF Out
<1>3. a \notin {"own", "ownBack", "store", "ask", "walk"}
  OBVIOUS
<1> HIDE DEF a
<1>4. QED
  BY <1>1, <1>2, <1>3 DEF Proper, TaskType, Placed, Listed, Framed, Calling

LEMMA BeforeLast ==
  ASSUME NEW S, NEW s \in Seq(S), Len(s) > 1
  PROVE  LET p == SubSeq(s, 1, Len(s) - 1)
         IN  /\ p \in Seq(S) /\ Len(p) = Len(s) - 1 /\ p # <<>>
             /\ \A i \in 1..Len(p) : p[i] = s[i]
<1> DEFINE p == SubSeq(s, 1, Len(s) - 1)
<1>1. p = [i \in 1..(Len(s) - 1) |-> s[i]]
  OBVIOUS
<1>2. Len(s) - 1 \in Nat /\ Len(s) - 1 > 0 /\ \A i \in 1..(Len(s) - 1) : s[i] \in S
  OBVIOUS
<1>3. p \in Seq(S)
  OBVIOUS
<1>4. Len(p) = Len(s) - 1
  OBVIOUS
<1>5. \A i \in 1..(Len(s) - 1) : p[i] = s[i]
  BY <1>1
<1> HIDE DEF p
<1>6. p # <<>>
  BY <1>2, <1>4
<1>7. QED
  BY <1>3, <1>4, <1>5, <1>6 DEF p

\* One frame less: the call it was for has returned.
LEMMA ReturnProper ==
  ASSUME NEW t, Proper(t), Len(t.path) > 1, t.at \in Calling
  PROVE  LET u == Out([t EXCEPT !.path = SubSeq(@, 1, Len(@) - 1)])
         IN  Proper(u) /\ u.list = t.list /\ u.epoch = t.epoch
<1> DEFINE p == SubSeq(t.path, 1, Len(t.path) - 1)
           a == IF Len(p) > 1 THEN "unwind" ELSE IF t.root THEN "clear" ELSE "last"
           u == [t EXCEPT !.at = a, !.path = p]
<1>1. t \in TaskType /\ t.path \in Seq(Frames) /\ MaxDepth \in Nat
  BY HistoryAssumption DEF HistoryAssumption, Proper, TaskType
<1>2. /\ p \in Seq(Frames) /\ Len(p) = Len(t.path) - 1 /\ p # <<>>
      /\ \A i \in 1..Len(p) : p[i] = t.path[i]
  BY <1>1, BeforeLast
<1>3. Len(t.path) \in Nat /\ DOMAIN t.path = 1..Len(t.path) /\ DOMAIN p = 1..Len(p)
  BY <1>1, <1>2
<1>4. /\ a \in Calling /\ a \in Steps /\ (a = "unwind" => Len(p) > 1)
      /\ a \notin {"own", "ownBack", "store", "ask", "walk"}
  BY DEF Calling, Steps
<1> HIDE DEF p
<1>5. Out([t EXCEPT !.path = p]) = u
  BY <1>1 DEF Out, TaskType
<1> HIDE DEF a
<1>6. /\ u \in TaskType /\ u.at = a /\ u.path = p /\ u.root = t.root
      /\ u.epoch = t.epoch /\ u.list = t.list /\ u.found = t.found
  BY <1>1, <1>2, <1>4 DEF TaskType
<1> HIDE DEF u
<1>7. Placed(u) /\ Listed(u)
  BY <1>4, <1>6 DEF Proper, Placed, Listed, Calling
<1>8. Framed(u)
  BY <1>2, <1>3, <1>4, <1>6 DEF Proper, Framed
<1>9. Shallow(u.path)
  BY <1>1, <1>2, <1>3, <1>6 DEF Proper, Shallow
<1>10. Proper(u)
  BY <1>6, <1>7, <1>8, <1>9 DEF Proper
<1>11. Out([t EXCEPT !.path = SubSeq(@, 1, Len(@) - 1)]) = u
  BY <1>5 DEF p
<1>12. QED
  BY <1>6, <1>10, <1>11

\* From one place of a call to another.
LEMMA MovedProper ==
  ASSUME NEW t, Proper(t), t.at \in Calling \cup {"ownBack"},
         NEW a \in Calling \ {"unwind"}
  PROVE  /\ Proper([t EXCEPT !.at = a])
         /\ [t EXCEPT !.at = a].list = t.list /\ [t EXCEPT !.at = a].epoch = t.epoch
<1> DEFINE u == [t EXCEPT !.at = a]
<1>1. t \in TaskType /\ a \in Steps /\ a \notin {"own", "ownBack", "store", "ask", "walk"}
  BY DEF Proper, Calling, Steps
<1>2. /\ u \in TaskType /\ u.at = a /\ u.path = t.path /\ u.root = t.root
      /\ u.epoch = t.epoch /\ u.list = t.list /\ u.found = t.found
  BY <1>1 DEF TaskType
<1> HIDE DEF u
<1>3. Placed(u) /\ Listed(u)
  BY <1>1, <1>2 DEF Proper, Placed, Listed, Calling
<1>4. Framed(u) /\ Shallow(u.path)
  BY <1>1, <1>2 DEF Proper, Framed
<1>5. QED
  BY <1>2, <1>3, <1>4 DEF Proper, u

\* A snapshot's list is noted in its frame.
LEMMA NotedProper ==
  ASSUME NEW t, Proper(t), t.at = "mark", NEW s \in Fetched(Top(t).epoch),
         NEW a \in {"next", "back"}
  PROVE  LET u == [t EXCEPT !.at = a, !.path[Len(t.path)].list = s]
         IN  Proper(u) /\ u.list = t.list /\ u.epoch = t.epoch
<1> DEFINE n == Len(t.path)
           f == [t.path[n] EXCEPT !.list = s]
           p == [t.path EXCEPT ![n] = f]
           u == [t EXCEPT !.at = a, !.path = p]
<1>1. /\ t \in TaskType /\ t.path \in Seq(Frames) /\ MaxDepth \in Nat
      /\ t.path # <<>> /\ \A i \in DOMAIN t.path : FrameOK(t.path[i])
  BY HistoryAssumption DEF HistoryAssumption, Proper, TaskType, Framed, Calling
<1>2. n \in 1..n /\ n \in Nat /\ DOMAIN t.path = 1..n /\ t.path[n] \in Frames
  BY <1>1
<1>3. t.path[n].epoch \in Epochs
  BY <1>1, <1>2 DEF FrameOK
<1>4. s \in Fetched(t.path[n].epoch)
  BY DEF Top
<1>5. s \in Seq(Epochs) /\ (s # <<>> => s \in ListsOf[t.path[n].epoch])
  BY <1>3, <1>4, FetchedTyped
<1>6. f \in Frames /\ f.epoch = t.path[n].epoch /\ f.list = s
  BY <1>2, <1>5 DEF Frames
<1>7. FrameOK(f)
  BY <1>3, <1>5, <1>6 DEF FrameOK
<1> HIDE DEF f
<1>8. /\ p \in Seq(Frames) /\ Len(p) = n /\ p # <<>> /\ DOMAIN p = 1..n
      /\ p[n] = f /\ \A i \in 1..(n - 1) : p[i] = t.path[i]
  BY <1>1, <1>2, <1>6
<1> HIDE DEF p
<1>9. [t EXCEPT !.at = a, !.path[Len(t.path)].list = s] = u
  BY <1>1 DEF TaskType, p, f
<1> HIDE DEF n
<1>10. /\ u \in TaskType /\ u.at = a /\ u.path = p /\ u.root = t.root
       /\ u.epoch = t.epoch /\ u.list = t.list /\ u.found = t.found
  BY <1>1, <1>8 DEF TaskType, Steps
<1> HIDE DEF u
<1>11. Placed(u) /\ Listed(u)
  BY <1>10 DEF Proper, Placed, Listed, Calling
<1>12. Framed(u)
  <2>1. \A i \in 1..n : FrameOK(p[i])
    <3>1. \A i \in 1..(n - 1) : i \in DOMAIN t.path /\ FrameOK(p[i])
      BY <1>1, <1>2, <1>8
    <3>2. \A i \in 1..n : i = n \/ i \in 1..(n - 1)
      BY <1>2
    <3>3. QED
      BY <1>7, <1>8, <3>1, <3>2
  <2>2. QED
    BY <1>8, <1>10, <2>1 DEF Framed
<1>13. Shallow(u.path)
  <2>1. n <= MaxDepth + 1
    BY DEF Proper, Shallow, n
  <2>2. QED
    BY <1>8, <1>10, <2>1 DEF Shallow
<1>14. Proper(u) /\ u.list = t.list /\ u.epoch = t.epoch
  BY <1>10, <1>11, <1>12, <1>13 DEF Proper
<1>15. QED
  BY <1>9, <1>14

\* The recursion goes on with the first of the list.
LEMMA DeeperProper ==
  ASSUME NEW t, Proper(t), t.at = "next", t.root, Top(t).list # <<>>,
         Len(t.path) <= MaxDepth
  PROVE  LET u == [t EXCEPT !.at = "mark",
                            !.path = Append(@, [epoch |-> Top(t).list[1], list |-> <<>>])]
         IN  Proper(u) /\ u.list = t.list /\ u.epoch = t.epoch
<1> DEFINE n == Len(t.path)
           s == Top(t).list
           f == [epoch |-> s[1], list |-> <<>>]
           p == Append(t.path, f)
           u == [t EXCEPT !.at = "mark", !.path = p]
<1>1. /\ t \in TaskType /\ t.path \in Seq(Frames) /\ MaxDepth \in Nat
      /\ t.path # <<>> /\ \A i \in DOMAIN t.path : FrameOK(t.path[i])
  BY HistoryAssumption DEF HistoryAssumption, Proper, TaskType, Framed, Calling
<1>2. n \in 1..n /\ n \in Nat /\ DOMAIN t.path = 1..n
  BY <1>1
<1>3. t.path[n].epoch \in Epochs /\ s \in ListsOf[t.path[n].epoch]
  BY <1>1, <1>2 DEF FrameOK, Top
<1>4. s[1] \in Epochs
  BY <1>3, ListsTyped
<1>5. f \in Frames /\ FrameOK(f) /\ f.epoch = s[1]
  BY <1>4 DEF Frames, FrameOK
<1> HIDE DEF f, s
<1>6. /\ p \in Seq(Frames) /\ Len(p) = n + 1 /\ p # <<>> /\ DOMAIN p = 1..(n + 1)
      /\ p[n + 1] = f /\ \A i \in 1..n : p[i] = t.path[i]
  BY <1>1, <1>2, <1>5
<1> HIDE DEF p
<1>7. /\ u \in TaskType /\ u.at = "mark" /\ u.path = p /\ u.root = t.root
      /\ u.epoch = t.epoch /\ u.list = t.list /\ u.found = t.found
  BY <1>1, <1>6 DEF TaskType, Steps
<1> HIDE DEF u
<1>8. Placed(u) /\ Listed(u)
  BY <1>7 DEF Proper, Placed, Listed, Calling
<1>9. Framed(u)
  BY <1>1, <1>2, <1>5, <1>6, <1>7 DEF Framed
<1>10. Shallow(u.path)
  <2>1. n <= MaxDepth
    OBVIOUS
  <2> HIDE DEF n
  <2>2. QED
    BY <1>1, <1>2, <1>6, <1>7, <2>1 DEF Shallow
<1>11. Proper(u) /\ u.list = t.list /\ u.epoch = t.epoch
  BY <1>7, <1>8, <1>9, <1>10 DEF Proper
<1>12. QED
  BY <1>11 DEF u, p, f, s
-----------------------------------------------------------------------------
(* A step of a call keeps what it has in hand in order, and what it still  *)
(* has to store stays known.                                               *)

StillToStore(c) == Pending(task[c]) \subseteq Pending(task'[c]) \cup entries' \cup forgotten'

Turn(c) == Proper(task'[c]) /\ StillToStore(c)

LEMMA Turned ==
  ASSUME Base, NEW c \in Callers, NEW u, Goto(c, u), Proper(u),
         Pending(task[c]) \subseteq Pending(u)
  PROVE  Turn(c)
<1>1. task'[c] = u
  BY DEF Goto, Base, TypeOK
<1>2. QED
  BY <1>1 DEF Turn, StillToStore

LEMMA NothingPending ==
  ASSUME NEW t, Proper(t), ~t.root, t.at # "store"
  PROVE  Pending(t) = {} /\ t.list = <<>>
  BY DEF Proper, Listed, Pending

LEMMA SamePending ==
  ASSUME NEW t, NEW u, u.list = t.list, u.epoch = t.epoch
  PROVE  Pending(t) \subseteq Pending(u)
  BY DEF Pending

LEMMA RootsCalling ==
  ASSUME NEW t, Proper(t), t.at \notin Calling, t.at # "ownBack"
  PROVE  t.root = FALSE
  BY DEF Proper, Placed, TaskType

LEMMA ProcessedPending ==
  ASSUME NEW t, Proper(t), t.at \in Calling
  PROVE  Pending(t) \subseteq Pending(Processed(t))
<1>0. t \in TaskType
  BY DEF Proper
<1>1. CASE t.root /\ t.epoch = None
  <2>1. t.list = <<>>
    BY <1>1, HistoryAssumption DEF HistoryAssumption, Proper, Listed
  <2>2. QED
    BY <2>1 DEF Pending
<1>2. CASE t.root /\ t.epoch # None
  BY <1>0, <1>2 DEF Processed, Pending, TaskType
<1>3. CASE ~t.root
  BY <1>0, <1>3 DEF Processed, Pending, TaskType
<1>4. QED
  BY <1>1, <1>2, <1>3

LEMMA AskTurns ==
  ASSUME Base, NEW c \in Callers, Ask(c)
  PROVE  Turn(c)
<1> DEFINE t == task[c]
           u == [t EXCEPT !.at = "own"]
<1>1. Proper(t) /\ t.at = "ask" /\ t \in TaskType
  BY DEF Base, Ask, Proper
<1>2. Pending(t) = {} /\ ~t.root /\ t.list = <<>>
  BY <1>1, RootsCalling, NothingPending DEF Calling
<1>3. Goto(c, Answered(t)) \/ (t.epoch \in WithData /\ Goto(c, u))
  BY DEF Ask
<1>4. Proper(Answered(t))
  BY <1>1, AnsweredProper DEF Proper, Placed
<1>5. ASSUME t.epoch \in WithData
      PROVE  Proper(u)
  <2>1. /\ u \in TaskType /\ u.at = "own" /\ u.path = t.path /\ u.root = t.root
        /\ u.epoch = t.epoch /\ u.list = t.list /\ u.found = t.found
    BY <1>1 DEF TaskType, Steps
  <2> HIDE DEF u
  <2>2. QED
    BY <1>1, <1>2, <1>5, <2>1 DEF Proper, Placed, Listed, Framed, Calling
<1> HIDE DEF u, t
<1>6. QED
  BY <1>2, <1>3, <1>4, <1>5, Turned DEF t

LEMMA OwnTurns ==
  ASSUME Base, NEW c \in Callers, NEW s, Own(c, s)
  PROVE  Turn(c)
<1> DEFINE t == task[c]
           f == [epoch |-> t.epoch, list |-> <<>>]
           a == IF opened'[c] = Closed THEN "flag" ELSE "ownBack"
           u == [t EXCEPT !.at = a, !.list = s, !.path = <<f>>, !.root = TRUE]
<1>1. /\ Proper(t) /\ t.at = "own" /\ t \in TaskType /\ t.epoch \in WithData
      /\ s \in Fetched(t.epoch) /\ MaxDepth \in Nat
  BY HistoryAssumption DEF HistoryAssumption, Base, Own, Proper, Placed
<1>2. Pending(t) = {}
  BY <1>1, RootsCalling, NothingPending DEF Calling
<1>3. Goto(c, u)
  BY DEF Own
<1>4. s \in Seq(Epochs) /\ (s # <<>> => s \in ListsOf[t.epoch]) /\ t.epoch \in Epochs
  BY <1>1, FetchedTyped, HistoryAssumption DEF HistoryAssumption
<1>5. f \in Frames /\ FrameOK(f)
  BY <1>1, <1>4 DEF Frames, FrameOK
<1> HIDE DEF f
<1>6. /\ <<f>> \in Seq(Frames) /\ <<f>> # <<>> /\ Len(<<f>>) = 1
      /\ \A i \in DOMAIN <<f>> : FrameOK(<<f>>[i])
  BY <1>5
<1>7. a \in {"flag", "ownBack"} /\ a \in Steps
  BY DEF Steps
<1> HIDE DEF a
<1>8. /\ u \in TaskType /\ u.at = a /\ u.path = <<f>> /\ u.root = TRUE
      /\ u.epoch = t.epoch /\ u.list = s /\ u.found = t.found
  BY <1>1, <1>4, <1>6, <1>7 DEF TaskType
<1> HIDE DEF u
<1>9. Placed(u) /\ Listed(u) /\ Framed(u)
  BY <1>1, <1>4, <1>6, <1>7, <1>8 DEF Proper, Placed, Listed, Framed, Calling
<1>10. Shallow(u.path)
  BY <1>1, <1>6, <1>8 DEF Shallow
<1>11. Proper(u)
  BY <1>8, <1>9, <1>10 DEF Proper
<1>12. QED
  BY <1>2, <1>3, <1>11, Turned

LEMMA OwnFailsTurns ==
  ASSUME Base, NEW c \in Callers, NEW s, OwnFails(c, s)
  PROVE  Turn(c)
<1> DEFINE t == task[c]
           u == [t EXCEPT !.at = "store", !.list = s, !.path = <<>>, !.root = FALSE]
<1>1. Proper(t) /\ t \in TaskType /\ t.at \in {"own", "ownBack"} /\ t.epoch \in WithData
  BY DEF Base, OwnFails, Proper, Placed
<1>2. Goto(c, u) /\ MaxDepth \in Nat
  BY HistoryAssumption DEF HistoryAssumption, OwnFails
<1>3. (s # <<>> => s \in ListsOf[t.epoch]) /\ Pending(t) \subseteq IF s # <<>> THEN {t.epoch} ELSE {}
  <2>1. CASE t.at = "own"
    BY <1>1, <2>1, FetchedTyped, RootsCalling, NothingPending, HistoryAssumption
    DEF HistoryAssumption, OwnFails, Calling
  <2>2. CASE t.at = "ownBack"
    BY <1>1, <2>2 DEF OwnFails, Proper, Listed, Pending
  <2>3. QED
    BY <1>1, <2>1, <2>2
<1>4. s \in Seq(Epochs)
  <2>1. s = <<>> \/ s \in ListsOf[t.epoch]
    BY <1>3
  <2>2. t.epoch \in Epochs
    BY <1>1, HistoryAssumption DEF HistoryAssumption
  <2>3. CASE s = <<>>
    BY <2>3
  <2>4. CASE s # <<>>
    BY <2>1, <2>2, <2>4, ListsTyped
  <2>5. QED
    BY <2>3, <2>4
<1>5. /\ u \in TaskType /\ u.at = "store" /\ u.path = <<>> /\ u.root = FALSE
      /\ u.epoch = t.epoch /\ u.list = s /\ u.found = t.found
  <2>1. <<>> \in Seq(Frames) /\ "store" \in Steps
    BY DEF Steps
  <2>2. QED
    BY <1>1, <1>4, <2>1 DEF TaskType
<1> HIDE DEF u
<1>6. Placed(u) /\ Listed(u) /\ Framed(u)
  BY <1>1, <1>3, <1>5 DEF Proper, Placed, Listed, Framed, Calling
<1>7. Shallow(u.path)
  BY <1>2, <1>5 DEF Shallow
<1>8. Proper(u) /\ Pending(t) \subseteq Pending(u)
  BY <1>3, <1>5, <1>6, <1>7 DEF Proper, Pending
<1>9. QED
  BY <1>2, <1>8, Turned

LEMMA StoreTurns ==
  ASSUME Base, NEW c \in Callers, Store(c)
  PROVE  Turn(c) /\ entries' \subseteq Epochs
<1> DEFINE t == task[c]
<1>1. Proper(t) /\ t.at = "store" /\ t \in TaskType /\ t.epoch \in WithData
  BY DEF Base, Store, Proper, Placed
<1>2. /\ Goto(c, Answered(t))
      /\ entries' = entries \cup {t.epoch} \cup Entries(t.list)
  BY DEF Store
<1>3. Entries(t.list) \subseteq Epochs
  <2>1. CASE t.list = <<>>
    BY <2>1 DEF Entries
  <2>2. CASE t.list # <<>>
    BY <1>1, <2>2, ListsTyped, HistoryAssumption DEF HistoryAssumption, Proper, Listed
  <2>3. QED
    BY <2>1, <2>2
<1>4. Proper(Answered(t))
  BY <1>1, AnsweredProper DEF Proper, Placed
<1>5. task'[c] = Answered(t)
  BY <1>2 DEF Goto, Base, TypeOK
<1>6. Pending(t) \subseteq entries'
  BY <1>2 DEF Pending
<1>7. entries' \subseteq Epochs
  BY <1>1, <1>2, <1>3, HistoryAssumption DEF HistoryAssumption, Base, TypeOK
<1> HIDE DEF t
<1>8. QED
  BY <1>4, <1>5, <1>6, <1>7 DEF Turn, StillToStore, t

\* Steps from one place of a call to the next.
LEMMA PlainTurns ==
  ASSUME Base, NEW c \in Callers,
         OwnBack(c) \/ Exists(c) \/ SetFlag(c) \/ Back(c) \/ ClearFlag(c)
  PROVE  Turn(c)
<1> DEFINE t == task[c]
<1>1. Proper(t) /\ t.at \in Calling \cup {"ownBack"}
  BY DEF Base, OwnBack, Exists, SetFlag, Back, ClearFlag, Calling
<1>2. \/ \E a \in Calling \ {"unwind"} : Goto(c, [t EXCEPT !.at = a])
      \/ t.at \in Calling /\ Goto(c, Processed(t))
  BY DEF OwnBack, Exists, SetFlag, Back, ClearFlag, Calling
<1>3. ASSUME NEW a \in Calling \ {"unwind"}, Goto(c, [t EXCEPT !.at = a])
      PROVE  Turn(c)
  <2> DEFINE u == [t EXCEPT !.at = a]
  <2>1. Proper(u) /\ u.list = t.list /\ u.epoch = t.epoch
    BY <1>1, MovedProper
  <2> HIDE DEF u
  <2>2. Pending(t) \subseteq Pending(u)
    BY <2>1, SamePending
  <2>3. QED
    BY <1>3, <2>1, <2>2, Turned DEF u
<1>4. ASSUME t.at \in Calling, Goto(c, Processed(t))
      PROVE  Turn(c)
  BY <1>1, <1>4, ProcessedProper, ProcessedPending, Turned
<1>5. QED
  BY <1>2, <1>3, <1>4

LEMMA MarkTurns ==
  ASSUME Base, NEW c \in Callers, NEW s, Mark(c, s)
  PROVE  Turn(c)
<1> DEFINE t == task[c]
           a == IF opened'[c] = Closed THEN "next" ELSE "back"
           u == [t EXCEPT !.at = a, !.path[Len(t.path)].list = s]
<1>1. Proper(t) /\ t.at = "mark" /\ s \in Fetched(Top(t).epoch) /\ Goto(c, u)
  BY DEF Base, Mark
<1>2. a \in {"next", "back"}
  OBVIOUS
<1> HIDE DEF a
<1>3. Proper(u) /\ u.list = t.list /\ u.epoch = t.epoch
  BY <1>1, <1>2, NotedProper
<1> HIDE DEF u
<1>4. Pending(t) \subseteq Pending(u)
  BY <1>3, SamePending
<1>5. QED
  BY <1>1, <1>3, <1>4, Turned

LEMMA DescendTurns ==
  ASSUME Base, NEW c \in Callers, Descend(c)
  PROVE  Turn(c)
<1> DEFINE t == task[c]
           u == [t EXCEPT !.at = "mark",
                          !.path = Append(@, [epoch |-> Top(t).list[1], list |-> <<>>])]
<1>1. Proper(t) /\ t.at = "next" /\ t.at \in Calling /\ t.path # <<>>
  BY DEF Base, Descend, Calling, Proper, Framed
<1>2. \/ Goto(c, Out(t))
      \/ Top(t).list # <<>> /\ t.root /\ Len(t.path) <= MaxDepth /\ Goto(c, u)
  BY DEF Descend
<1>3. ASSUME Top(t).list # <<>>, t.root, Len(t.path) <= MaxDepth
      PROVE  Proper(u) /\ u.list = t.list /\ u.epoch = t.epoch
  BY <1>1, <1>3, DeeperProper
<1>4. Proper(Out(t)) /\ Out(t).list = t.list /\ Out(t).epoch = t.epoch
  BY <1>1, OutProper
<1> HIDE DEF u
<1>5. QED
  BY <1>2, <1>3, <1>4, SamePending, Turned

\* The list of a frame names epochs.
LEMMA TopEntries ==
  ASSUME NEW t, Proper(t), t.path # <<>>
  PROVE  Top(t).epoch \in Epochs /\ Entries(Top(t).list) \subseteq Epochs
<1>1. t.path \in Seq(Frames) /\ Len(t.path) \in DOMAIN t.path
  BY DEF Proper, TaskType
<1>2. FrameOK(Top(t))
  BY <1>1 DEF Proper, Framed, Top
<1>3. CASE Top(t).list = <<>>
  BY <1>2, <1>3 DEF Entries, FrameOK
<1>4. CASE Top(t).list # <<>>
  BY <1>2, <1>4, ListsTyped DEF FrameOK
<1>5. QED
  BY <1>3, <1>4

LEMMA WayBackTurns ==
  ASSUME Base, NEW c \in Callers, Unwind(c) \/ Last(c)
  PROVE  Turn(c) /\ entries' \subseteq Epochs
<1> DEFINE t == task[c]
<1>1. /\ Proper(t) /\ t.at \in Calling /\ t.path # <<>>
      /\ entries' = entries \cup Entries(Top(t).list)
  BY DEF Base, Unwind, Last, Calling, Proper, Framed
<1>2. entries' \subseteq Epochs
  BY <1>1, TopEntries DEF Base, TypeOK
<1>3. CASE Unwind(c)
  <2> DEFINE u == Out([t EXCEPT !.path = SubSeq(@, 1, Len(@) - 1)])
  <2>1. Goto(c, u) /\ Len(t.path) > 1
    BY <1>1, <1>3 DEF Unwind, Proper, Framed
  <2>2. Proper(u) /\ u.list = t.list /\ u.epoch = t.epoch
    BY <1>1, <2>1, ReturnProper
  <2> HIDE DEF u
  <2>3. QED
    BY <1>2, <2>1, <2>2, SamePending, Turned
<1>4. CASE Last(c)
  <2>1. Goto(c, Processed(t))
    BY <1>4 DEF Last
  <2>2. QED
    BY <1>1, <1>2, <2>1, ProcessedProper, ProcessedPending, Turned
<1>5. QED
  BY <1>3, <1>4

LEMMA ProcessFailsTurns ==
  ASSUME Base, NEW c \in Callers, ProcessFails(c)
  PROVE  Turn(c)
<1> DEFINE t == task[c]
           u == Out([t EXCEPT !.path = SubSeq(@, 1, Len(@) - 1)])
<1>1. Proper(t) /\ t.at \in Calling
  BY DEF Base, ProcessFails, Calling
<1>2. (Len(t.path) > 1 /\ Goto(c, u)) \/ Goto(c, Processed(t))
  BY DEF ProcessFails
<1>3. ASSUME Len(t.path) > 1
      PROVE  Proper(u) /\ u.list = t.list /\ u.epoch = t.epoch
  BY <1>1, <1>3, ReturnProper
<1> HIDE DEF u
<1>4. QED
  BY <1>1, <1>2, <1>3, ProcessedProper, ProcessedPending, SamePending, Turned

LEMMA NewestOf ==
  ASSUME NEW S \in SUBSET Epochs, S # {}
  PROVE  LastOf(S) \in S
<1>1. S \in SUBSET Nat /\ MaxEpoch \in Nat /\ \A x \in S : x <= MaxEpoch
  BY HistoryAssumption DEF HistoryAssumption, Epochs
<1>2. QED
  BY <1>1, LastOfIn

LEMMA WalkTurns ==
  ASSUME Base, NEW c \in Callers, Walk(c)
  PROVE  Turn(c)
<1> DEFINE t == task[c]
           e == LastOf(t.missing)
           from == Closest(e, t.known) \cap t.found
           f == [epoch |-> LastOf(from), list |-> <<>>]
           rest == t.found \ from
           u == [t EXCEPT !.at = "mark", !.epoch = e, !.found = rest, !.path = <<f>>]
           v == [t EXCEPT !.at = "ask", !.epoch = e]
<1>1. /\ Proper(t) /\ t.at = "walk" /\ t \in TaskType /\ MaxDepth \in Nat
      /\ t.missing # {} /\ t.missing \in SUBSET Epochs
      /\ t.found \in SUBSET Epochs
  BY HistoryAssumption DEF HistoryAssumption, Base, Walk, Proper, Placed, TaskType
<1>2. Pending(t) = {} /\ ~t.root /\ t.root = FALSE /\ t.list = <<>>
  BY <1>1, RootsCalling, NothingPending DEF Calling
<1>3. e \in Epochs
  BY <1>1, NewestOf
<1>4. Goto(c, IF from = {} THEN v ELSE u)
  BY DEF Walk
<1> HIDE DEF e
<1>5. CASE from = {}
  <2>1. /\ v \in TaskType /\ v.at = "ask" /\ v.path = t.path /\ v.root = t.root
        /\ v.epoch = e /\ v.list = t.list /\ v.found = t.found
    BY <1>1, <1>3 DEF TaskType, Steps
  <2>2. Goto(c, v)
    BY <1>4, <1>5
  <2> HIDE DEF v, from, t
  <2>3. Proper(v)
    BY <1>1, <1>2, <1>3, <2>1 DEF Proper, Placed, Listed, Framed, Calling
  <2>4. QED
    BY <1>2, <2>2, <2>3, Turned DEF t
<1>6. CASE from # {}
  <2>1. from \in SUBSET Epochs /\ rest \in SUBSET Epochs
    BY <1>1
  <2>2. LastOf(from) \in from
    BY <1>6, <2>1, NewestOf
  <2>3. f \in Frames /\ FrameOK(f)
    BY <2>1, <2>2 DEF Frames, FrameOK
  <2> HIDE DEF f, rest
  <2>4. /\ <<f>> \in Seq(Frames) /\ <<f>> # <<>> /\ Len(<<f>>) = 1
        /\ \A i \in DOMAIN <<f>> : FrameOK(<<f>>[i])
    BY <2>3
  <2>5. /\ u \in TaskType /\ u.at = "mark" /\ u.path = <<f>> /\ u.root = t.root
        /\ u.epoch = e /\ u.list = t.list /\ u.found = rest
    BY <1>1, <1>3, <2>1, <2>4 DEF TaskType, Steps
  <2>6. Goto(c, u)
    BY <1>4, <1>6
  <2> HIDE DEF u, from, t
  <2>7. Placed(u) /\ Listed(u) /\ Framed(u)
    BY <1>2, <1>3, <2>1, <2>4, <2>5 DEF Placed, Listed, Framed, Calling
  <2>8. Shallow(u.path)
    BY <1>1, <2>4, <2>5 DEF Shallow
  <2>9. Proper(u)
    BY <2>5, <2>7, <2>8 DEF Proper
  <2>10. QED
    BY <1>2, <2>6, <2>9, Turned DEF t
<1>7. QED
  BY <1>5, <1>6

LEMMA RefreshTurns ==
  ASSUME Base, NEW c \in Callers, Refresh(c)
  PROVE  Turn(c)
<1> DEFINE t == task[c]
           rest == t.missing \cap Unknown
           u == [t EXCEPT !.at = "walk", !.missing = rest]
<1>1. Proper(t) /\ t.at = "refresh" /\ t \in TaskType /\ rest \in SUBSET Epochs
  BY DEF Base, Refresh, Proper, TaskType
<1>2. Pending(t) = {} /\ t.root = FALSE /\ t.list = <<>>
  BY <1>1, RootsCalling, NothingPending DEF Calling
<1>3. Goto(c, Idle) \/ (rest # {} /\ Goto(c, u))
  BY DEF Refresh
<1> HIDE DEF rest
<1>4. /\ u \in TaskType /\ u.at = "walk" /\ u.path = t.path /\ u.root = t.root
      /\ u.epoch = t.epoch /\ u.list = t.list /\ u.found = t.found /\ u.missing = rest
  BY <1>1 DEF TaskType, Steps
<1> HIDE DEF u, t
<1>5. ASSUME rest # {}
      PROVE  Proper(u)
  BY <1>1, <1>2, <1>4, <1>5 DEF Proper, Placed, Listed, Framed, Calling
<1>6. QED
  BY <1>2, <1>3, <1>5, IdleProper, Turned DEF t

LEMMA BulkTurns ==
  ASSUME Base, NEW c \in Callers, Bulk(c) \/ BulkBack(c)
  PROVE  Turn(c)
<1> DEFINE t == task[c]
<1>1. Proper(t) /\ t.at \in {"bulk", "bulkBack"} /\ t \in TaskType
  BY DEF Base, Bulk, BulkBack, Proper
<1>2. Pending(t) = {} /\ t.root = FALSE /\ t.list = <<>>
  BY <1>1, RootsCalling, NothingPending DEF Calling
<1>3. \E a \in {"bulkBack", "bulkStore"}, d \in SUBSET Epochs :
          Goto(c, [t EXCEPT !.at = a, !.found = d])
  <2>1. CASE Bulk(c)
    BY <2>1, HistoryAssumption DEF HistoryAssumption, Bulk
  <2>2. CASE BulkBack(c)
    <3>1. t.found \in SUBSET Epochs
      BY <1>1 DEF Proper, Placed
    <3>2. [t EXCEPT !.at = "bulkStore"] = [t EXCEPT !.at = "bulkStore", !.found = t.found]
      BY <1>1 DEF TaskType
    <3>3. QED
      BY <2>2, <3>1, <3>2 DEF BulkBack
  <2>3. QED
    BY <2>1, <2>2
<1>4. ASSUME NEW a \in {"bulkBack", "bulkStore"}, NEW d \in SUBSET Epochs
      PROVE  Proper([t EXCEPT !.at = a, !.found = d])
  <2> DEFINE u == [t EXCEPT !.at = a, !.found = d]
  <2>1. d \in SUBSET Epochs /\ a \in Steps
    BY HistoryAssumption DEF HistoryAssumption, Steps
  <2>2. /\ u \in TaskType /\ u.at = a /\ u.path = t.path /\ u.root = t.root
        /\ u.epoch = t.epoch /\ u.list = t.list /\ u.found = d
    BY <1>1, <2>1 DEF TaskType
  <2> HIDE DEF u
  <2>3. QED
    BY <1>1, <1>2, <2>2 DEF Proper, Placed, Listed, Framed, Calling, u
<1>5. QED
  BY <1>2, <1>3, <1>4, Turned

LEMMA BulkStoreTurns ==
  ASSUME Base, NEW c \in Callers, BulkStore(c)
  PROVE  Turn(c) /\ entries' \subseteq Epochs
<1>1. Proper(task[c]) /\ task[c].at = "bulkStore"
  BY DEF Base, BulkStore
<1>2. Pending(task[c]) = {} /\ task[c].found \subseteq Epochs
  BY <1>1, RootsCalling, NothingPending DEF Calling, Proper, Placed
<1>3. Goto(c, Idle) /\ entries' = entries \cup task[c].found
  BY DEF BulkStore
<1>4. QED
  BY <1>2, <1>3, IdleProper, Turned DEF Base, TypeOK

LEMMA CrashTurns ==
  ASSUME Base, NEW c \in Callers, Crash(c)
  PROVE  Turn(c)
<1>1. task'[c] = Idle /\ forgotten' = forgotten \cup Pending(task[c])
  BY DEF Crash, Goto, Base, TypeOK
<1>2. QED
  BY <1>1, IdleProper DEF Turn, StillToStore

LEMMA StartTurns ==
  ASSUME Base, NEW c \in Callers, Start(c)
  PROVE  Turn(c)
<1>1. task[c] \in TaskType /\ Proper(task[c])
  BY DEF Base, Proper
<1>data. entries \in SUBSET Epochs /\ MaxDepth \in Nat
  BY HistoryAssumption DEF HistoryAssumption, Base, TypeOK
<1>2. ASSUME NEW t, Begin(c, t), Proper(t)
      PROVE  Turn(c)
  <2>1. task[c].at = "idle" /\ task'[c] = t
    BY <1>2 DEF Begin, Base, TypeOK
  <2>2. Pending(task[c]) = {}
    BY <1>1, <2>1, RootsCalling, NothingPending DEF Calling
  <2>3. QED
    BY <1>2, <2>1, <2>2 DEF Turn, StillToStore
<1>3. Idle \in TaskType
  BY IdleProper DEF Proper
<1>4. ASSUME NEW e \in Epochs, BeginRead(c, e)
      PROVE  Turn(c)
  <2> DEFINE u == [Idle EXCEPT !.at = "ask", !.epoch = e]
  <2>1. /\ u \in TaskType /\ u.at = "ask" /\ u.path = <<>> /\ u.root = FALSE
        /\ u.epoch = e /\ u.list = <<>> /\ u.found = {}
    BY <1>3 DEF TaskType, Steps, Idle
  <2> HIDE DEF u
  <2>2. Proper(u)
    BY <1>data, <2>1 DEF Proper, Placed, Listed, Framed, Calling, Shallow
  <2>3. QED
    BY <1>2, <1>4, <2>2 DEF BeginRead, u
<1>5. ASSUME NEW e \in Epochs, BeginResolve(c, e)
      PROVE  Turn(c)
  <2> DEFINE f == [epoch |-> e, list |-> <<>>]
             u == [Idle EXCEPT !.at = "flag", !.root = TRUE, !.path = <<f>>]
  <2>1. f \in Frames /\ FrameOK(f)
    BY <1>5 DEF Frames, FrameOK, BeginResolve
  <2> HIDE DEF f
  <2>2. /\ <<f>> \in Seq(Frames) /\ <<f>> # <<>> /\ Len(<<f>>) = 1
        /\ \A i \in DOMAIN <<f>> : FrameOK(<<f>>[i])
    BY <2>1
  <2>3. /\ u \in TaskType /\ u.at = "flag" /\ u.path = <<f>> /\ u.root = TRUE
        /\ u.epoch = None /\ u.list = <<>> /\ u.found = {}
    BY <1>3, <2>2 DEF TaskType, Steps, Idle
  <2> HIDE DEF u
  <2>4. Placed(u) /\ Listed(u) /\ Framed(u)
    BY <2>2, <2>3 DEF Placed, Listed, Framed, Calling
  <2>5. Shallow(u.path)
    BY <1>data, <2>2, <2>3 DEF Shallow
  <2>6. Proper(u)
    BY <2>3, <2>4, <2>5 DEF Proper
  <2>7. QED
    BY <1>2, <1>5, <2>6 DEF BeginResolve, u, f
<1>6. ASSUME NEW es \in Intervals, BeginWalk(c, es)
      PROVE  Turn(c)
  <2> DEFINE m == es \cap Unknown
             k == es \ Unknown
             d == es \cap entries
             u == [Idle EXCEPT !.at = "walk", !.missing = m, !.known = k, !.found = d]
  <2>1. /\ m \in SUBSET Epochs /\ k \in SUBSET Epochs /\ d \in SUBSET Epochs /\ m # {}
    BY <1>6, <1>data, HistoryAssumption DEF HistoryAssumption, BeginWalk, Unknown, Epochs
  <2> HIDE DEF m, k, d
  <2>2. /\ u \in TaskType /\ u.at = "walk" /\ u.path = <<>> /\ u.root = FALSE
        /\ u.epoch = None /\ u.list = <<>> /\ u.found = d /\ u.missing = m
    BY <1>3, <2>1 DEF TaskType, Steps, Idle
  <2> HIDE DEF u
  <2>3. Proper(u)
    BY <1>data, <2>1, <2>2 DEF Proper, Placed, Listed, Framed, Calling, Shallow
  <2>4. QED
    BY <1>2, <1>6, <2>3 DEF BeginWalk, u, m, k, d
<1>7. ASSUME NEW es \in Intervals, BeginBulk(c, es)
      PROVE  Turn(c)
  <2> DEFINE m == es \cap Unknown
             u == [Idle EXCEPT !.at = "bulk", !.missing = m]
  <2>1. m \in SUBSET Epochs
    BY DEF Unknown
  <2> HIDE DEF m
  <2>2. /\ u \in TaskType /\ u.at = "bulk" /\ u.path = <<>> /\ u.root = FALSE
        /\ u.epoch = None /\ u.list = <<>> /\ u.found = {}
    BY <1>3, <2>1 DEF TaskType, Steps, Idle
  <2> HIDE DEF u
  <2>3. Proper(u)
    BY <1>data, <2>2 DEF Proper, Placed, Listed, Framed, Calling, Shallow
  <2>4. QED
    BY <1>2, <1>7, <2>3 DEF BeginBulk, u, m
<1>8. QED
  BY <1>4, <1>5, <1>6, <1>7, HistoryAssumption DEF HistoryAssumption, Start

-----------------------------------------------------------------------------
(* Which bits a step sets, and why.                                        *)

Excused(e) ==
    e \in entries \cup Gaps \cup judged \cup forgotten
                  \cup UNION {Pending(task[c]) : c \in Callers}

ExcusedNext(e) ==
    e \in entries' \cup Gaps \cup judged' \cup forgotten'
                   \cup UNION {Pending(task'[c]) : c \in Callers}

SetsExcused ==
    \E es \in SUBSET Numbers :
        BitmapStepFor(es) /\ \A e \in es \cap WithData : ExcusedNext(e)

LEMMA SetsNothing ==
  ASSUME BitmapStepFor({})
  PROVE  SetsExcused
  BY DEF SetsExcused

LEMMA GapsOfList ==
  ASSUME NEW d \in Epochs, NEW s \in Fetched(d)
  PROVE  /\ LeftOut(s, d - 1) \subseteq Gaps
         /\ LeftOut(s, d) \subseteq LeftOut(s, d - 1) \cup {d}
         /\ LeftOut(s, d) \subseteq Numbers /\ LeftOut(s, d - 1) \subseteq Numbers
<1>1. CASE s = <<>>
  BY <1>1 DEF LeftOut
<1>2. CASE s # <<>>
  <2>1. s \in ListsOf[d]
    BY <1>2, FetchedTyped
  <2>2. /\ s[1] \in 1..MaxEpoch /\ d \in 1..MaxEpoch /\ MaxEpoch \in Nat
        /\ Numbers = 1..MaxEpoch
    BY <1>2, <2>1, ListsTyped, HistoryAssumption DEF HistoryAssumption, Epochs
  <2>3. LeftOut(s, d - 1) \subseteq Gaps
    BY <2>1 DEF Gaps
  <2>4. QED
    BY <1>2, <2>2, <2>3 DEF LeftOut
<1>3. QED
  BY <1>1, <1>2

LEMMA AskSets ==
  ASSUME Base, NEW c \in Callers, Ask(c)
  PROVE  SetsExcused
<1> DEFINE e == task[c].epoch
<1>1. e \in Epochs /\ Numbers = Epochs
  BY HistoryAssumption DEF HistoryAssumption, Base, Ask, Proper, Placed
<1>2. \/ UNCHANGED bitmap
      \/ SetBits({e}) /\ (e \notin WithData \/ judged' = judged \cup {e})
  BY DEF Ask
<1> HIDE DEF e
<1>3. CASE UNCHANGED bitmap
  BY <1>3, SetsNothing DEF BitmapStepFor
<1>4. CASE SetBits({e}) /\ (e \notin WithData \/ judged' = judged \cup {e})
  <2>1. {e} \in SUBSET Numbers /\ BitmapStepFor({e})
    BY <1>1, <1>4 DEF BitmapStepFor
  <2>2. \A f \in {e} \cap WithData : ExcusedNext(f)
    BY <1>4 DEF ExcusedNext
  <2>3. QED
    BY <2>1, <2>2 DEF SetsExcused
<1>5. QED
  BY <1>2, <1>3, <1>4

LEMMA OwnSets ==
  ASSUME Base, NEW c \in Callers, NEW s, Own(c, s)
  PROVE  SetsExcused
<1> DEFINE d == task[c].epoch
           es == LeftOut(s, d)
<1>1. d \in Epochs /\ s \in Fetched(d)
  BY HistoryAssumption DEF HistoryAssumption, Base, Own, Proper, Placed
<1>2. CASE UNCHANGED bitmap
  BY <1>2, SetsNothing DEF BitmapStepFor
<1>3. CASE es # {} /\ SetBitsInRange(c, es)
  <2>1. s # <<>>
    BY <1>3 DEF LeftOut
  <2>2. es \in SUBSET Numbers /\ LeftOut(s, d - 1) \subseteq Gaps
    BY <1>1, GapsOfList
  <2>3. Pending(task'[c]) = {d}
    <3>1. task'[c] = [task[c] EXCEPT !.at = IF opened'[c] = Closed THEN "flag" ELSE "ownBack",
                                     !.list = s,
                                     !.path = <<[epoch |-> d, list |-> <<>>]>>, !.root = TRUE]
      BY DEF Own, Goto, Base, TypeOK
    <3>2. task[c] \in TaskType
      BY DEF Base, Proper
    <3>3. task'[c].list = s /\ task'[c].epoch = d
      BY <3>1, <3>2 DEF TaskType
    <3>4. QED
      BY <2>1, <3>3 DEF Pending
  <2>4. \A e \in es : e = d \/ e \in Gaps
    BY <1>1, GapsOfList
  <2>5. \A e \in es : ExcusedNext(e)
    BY <2>3, <2>4 DEF ExcusedNext
  <2> HIDE DEF es
  <2>6. QED
    BY <1>3, <2>2, <2>5 DEF SetsExcused, BitmapStepFor
<1>4. UNCHANGED bitmap \/ (es # {} /\ SetBitsInRange(c, es))
  BY DEF Own
<1>5. QED
  BY <1>2, <1>3, <1>4

LEMMA MarkSets ==
  ASSUME Base, NEW c \in Callers, NEW s, Mark(c, s)
  PROVE  SetsExcused
<1> DEFINE d == Top(task[c]).epoch
           es == LeftOut(s, d - 1)
<1>1. d \in Epochs /\ s \in Fetched(d)
  <2>1. Proper(task[c]) /\ task[c].path # <<>>
    BY DEF Base, Mark, Proper, Framed, Calling
  <2>2. QED
    BY <2>1, TopEntries DEF Mark
<1>2. es \in SUBSET Numbers /\ es \subseteq Gaps
  BY <1>1, GapsOfList
<1>3. UNCHANGED bitmap \/ SetBitsInRange(c, es)
  BY DEF Mark
<1> HIDE DEF es
<1>4. QED
  BY <1>2, <1>3 DEF SetsExcused, BitmapStepFor, ExcusedNext

LEMMA BulkSets ==
  ASSUME Base, NEW c \in Callers, Bulk(c)
  PROVE  SetsExcused
<1> DEFINE es == (task[c].missing \cap concluded) \ WithData
<1>1. task[c].missing \subseteq Epochs /\ Numbers = Epochs
  BY HistoryAssumption DEF HistoryAssumption, Base, Proper, TaskType
<1>2. UNCHANGED bitmap \/ SetBitsInRange(c, es)
  BY DEF Bulk
<1>3. QED
  BY <1>1, <1>2 DEF SetsExcused, BitmapStepFor

LEMMA OtherSets ==
  ASSUME NEW c \in Callers,
         \/ OwnBack(c) \/ Store(c) \/ Exists(c) \/ SetFlag(c) \/ Back(c)
         \/ Descend(c) \/ Unwind(c) \/ ClearFlag(c) \/ Last(c)
         \/ Walk(c) \/ Refresh(c) \/ BulkBack(c) \/ BulkStore(c)
         \/ Fail(c) \/ Start(c)
  PROVE  SetsExcused
<1>1. CASE OwnBack(c) \/ Back(c) \/ BulkBack(c)
  BY <1>1, SetsNothing DEF OwnBack, Back, BulkBack, BitmapStepFor
<1>2. CASE Fail(c)
  BY <1>2, SetsNothing DEF Fail, OwnFails, ProcessFails, Crash, BitmapStepFor, Abandon
<1>3. CASE Store(c) \/ Exists(c) \/ SetFlag(c) \/ Descend(c) \/ Unwind(c) \/ ClearFlag(c)
  BY <1>3, SetsNothing DEF Store, Exists, SetFlag, Descend, Unwind, ClearFlag, BitmapStepFor
<1>4. CASE Last(c) \/ Walk(c) \/ Refresh(c) \/ BulkStore(c)
  BY <1>4, SetsNothing DEF Last, Walk, Refresh, BulkStore, BitmapStepFor
<1>5. CASE Start(c)
  BY <1>5, SetsNothing DEF Start, BeginRead, BeginWalk, BeginBulk, BeginResolve, Begin, BitmapStepFor
<1>6. QED
  BY <1>1, <1>2, <1>3, <1>4, <1>5

-----------------------------------------------------------------------------
(* Every step                                                              *)

\* The steps of the chain and of the keys leave calls and bitmap alone.
Quiet == task' = task /\ UNCHANGED bitmap

LEMMA QuietSteps ==
  ASSUME \/ Release \/ FlagExpires \/ UNCHANGED vars
         \/ \E e \in Epochs : Conclude(e) \/ Expire(e)
  PROVE  Quiet
  BY DEF Release, FlagExpires, Conclude, Expire, vars, chain, Quiet

LEMMA CallsTurn ==
  ASSUME Base, NEW c \in Callers, Start(c) \/ Continue(c) \/ Fail(c)
  PROVE  Turn(c) /\ SetsExcused /\ entries' \subseteq Epochs
<1>old. entries \subseteq Epochs
  BY DEF Base, TypeOK
<1>1. CASE Start(c)
  BY <1>old, <1>1, StartTurns, OtherSets
  DEF Start, BeginRead, BeginWalk, BeginBulk, BeginResolve, Begin
<1>2. CASE Ask(c)
  BY <1>old, <1>2, AskTurns, AskSets DEF Ask
<1>3. ASSUME NEW s, Own(c, s)
      PROVE  Turn(c) /\ SetsExcused /\ entries' \subseteq Epochs
  BY <1>old, <1>3, OwnTurns, OwnSets DEF Own
<1>4. ASSUME NEW s, Mark(c, s)
      PROVE  Turn(c) /\ SetsExcused /\ entries' \subseteq Epochs
  BY <1>old, <1>4, MarkTurns, MarkSets DEF Mark
<1>5. CASE OwnBack(c) \/ Exists(c) \/ SetFlag(c) \/ Back(c) \/ ClearFlag(c)
  BY <1>old, <1>5, PlainTurns, OtherSets DEF OwnBack, Exists, SetFlag, Back, ClearFlag
<1>6. CASE Store(c)
  BY <1>6, StoreTurns, OtherSets
<1>7. CASE Descend(c)
  BY <1>old, <1>7, DescendTurns, OtherSets DEF Descend
<1>8. CASE Unwind(c) \/ Last(c)
  BY <1>8, WayBackTurns, OtherSets
<1>9. CASE Walk(c)
  BY <1>old, <1>9, WalkTurns, OtherSets DEF Walk
<1>10. CASE Refresh(c)
  BY <1>old, <1>10, RefreshTurns, OtherSets DEF Refresh
<1>11. CASE Bulk(c)
  BY <1>old, <1>11, BulkTurns, BulkSets DEF Bulk
<1>12. CASE BulkBack(c)
  BY <1>old, <1>12, BulkTurns, OtherSets DEF BulkBack
<1>13. CASE BulkStore(c)
  BY <1>13, BulkStoreTurns, OtherSets
<1>14. CASE Fail(c)
  <2>1. entries' = entries
    BY <1>14 DEF Fail, OwnFails, ProcessFails, Crash
  <2>2. Turn(c)
    BY <1>14, OwnFailsTurns, ProcessFailsTurns, CrashTurns DEF Fail
  <2>3. QED
    BY <1>old, <1>14, <2>1, <2>2, OtherSets
<1>15. QED
  BY <1>1, <1>2, <1>3, <1>4, <1>5, <1>6, <1>7, <1>8, <1>9, <1>10, <1>11, <1>12,
     <1>13, <1>14 DEF Continue

\* A call changes no other.
LEMMA OtherCalls ==
  ASSUME NEW c \in Callers, task \in [Callers -> TaskType],
         Start(c) \/ Continue(c) \/ Fail(c)
  PROVE  /\ task' = [task EXCEPT ![c] = task'[c]]
         /\ \A d \in Callers : d # c => task'[d] = task[d]
<1>1. \E u : task' = [task EXCEPT ![c] = u]
  <2>1. CASE Start(c)
    BY <2>1 DEF Start, BeginRead, BeginWalk, BeginBulk, BeginResolve, Begin
  <2>2. CASE Fail(c)
    BY <2>2 DEF Fail, OwnFails, ProcessFails, Crash, Goto
  <2>3. CASE Continue(c)
    <3>1. \E u : Goto(c, u)
      BY <2>3, Zenon DEF Continue, Ask, OwnBack, Store, Exists, SetFlag, Back, Descend, Unwind,
         ClearFlag, Last, Walk, Refresh, Bulk, BulkBack, BulkStore, Own, Mark
    <3>2. QED
      BY <3>1 DEF Goto
  <2>4. QED
    BY <2>1, <2>2, <2>3
<1>2. QED
  BY <1>1

LEMMA OneCallTurns ==
  ASSUME Base, NEW c \in Callers, Start(c) \/ Continue(c) \/ Fail(c)
  PROVE  /\ task' \in [Callers -> TaskType]
         /\ \A d \in Callers : Proper(task'[d]) /\ StillToStore(d)
<1>1. task \in [Callers -> TaskType]
  BY DEF Base, TypeOK, TaskType
<1>2. /\ task' = [task EXCEPT ![c] = task'[c]]
      /\ \A d \in Callers : d # c => task'[d] = task[d]
  BY <1>1, OtherCalls
<1>3. Proper(task'[c]) /\ StillToStore(c)
  BY CallsTurn DEF Turn
<1>4. task'[c] \in TaskType
  BY <1>3 DEF Proper
<1>5. task' \in [Callers -> TaskType]
  BY <1>1, <1>2, <1>4
<1>6. QED
  BY <1>2, <1>3, <1>5 DEF StillToStore, Base

\* What a step of a call does to everything but the calls and the bitmap.
LEMMA RestOfCall ==
  ASSUME Base, NEW c \in Callers, Start(c) \/ Continue(c) \/ Fail(c)
  PROVE  /\ UNCHANGED <<keeping, head, concluded>>
         /\ flag' \in BOOLEAN /\ calls' \in 0..MaxCalls /\ faults' \in 0..MaxFaults
         /\ judged \subseteq judged' /\ judged' \subseteq Epochs
         /\ forgotten \subseteq forgotten' /\ forgotten' \subseteq Epochs
         /\ entries \subseteq entries'
<1>typed. /\ flag \in BOOLEAN /\ calls \in 0..MaxCalls /\ faults \in 0..MaxFaults
          /\ judged \subseteq Epochs /\ forgotten \subseteq Epochs
          /\ MaxCalls \in Nat /\ MaxFaults \in Nat
  BY HistoryAssumption DEF HistoryAssumption, Base, TypeOK
<1> USE DEF Goto, chain
<1>1. CASE Start(c)
  <2>1. PICK u : Begin(c, u)
    BY <1>1 DEF Start, BeginRead, BeginWalk, BeginBulk, BeginResolve
  <2>2. calls' \in 0..MaxCalls
    BY <1>typed, <2>1 DEF Begin
  <2>3. UNCHANGED <<keeping, head, concluded, entries, flag, faults, judged, forgotten>>
    BY <2>1 DEF Begin
  <2>4. QED
    BY <1>typed, <2>2, <2>3
<1>2. CASE Ask(c)
  <2>1. task[c].epoch \in Epochs
    BY <1>2 DEF Ask, Base, Proper, Placed
  <2>2. QED
    BY <1>typed, <1>2, <2>1 DEF Ask
<1>3. ASSUME NEW s, Own(c, s) \/ Mark(c, s)
      PROVE  /\ UNCHANGED <<keeping, head, concluded, flag, calls, faults, judged, forgotten>>
             /\ entries \subseteq entries'
  BY <1>3 DEF Own, Mark
<1>4. ASSUME \/ OwnBack(c) \/ Store(c) \/ Exists(c) \/ SetFlag(c) \/ Back(c)
             \/ Descend(c) \/ Unwind(c) \/ ClearFlag(c) \/ Last(c)
      PROVE  /\ UNCHANGED <<keeping, head, concluded, calls, faults, judged, forgotten>>
             /\ entries \subseteq entries' /\ flag' \in BOOLEAN
  BY <1>typed, <1>4 DEF OwnBack, Store, Exists, SetFlag, Back, Descend, Unwind, ClearFlag, Last
<1>5. ASSUME Walk(c) \/ Refresh(c) \/ Bulk(c) \/ BulkBack(c) \/ BulkStore(c)
      PROVE  /\ UNCHANGED <<keeping, head, concluded, flag, calls, faults, judged, forgotten>>
             /\ entries \subseteq entries'
  BY <1>5 DEF Walk, Refresh, Bulk, BulkBack, BulkStore
<1>6. CASE Fail(c)
  <2>1. Pending(task[c]) \subseteq Epochs
    BY HistoryAssumption DEF HistoryAssumption, Pending, Base, Proper, Listed
  <2>2. faults' \in 0..MaxFaults
    <3>1. Fault
      BY <1>6, Zenon DEF Fail, OwnFails, ProcessFails, Crash
    <3>2. QED
      BY <1>typed, <3>1 DEF Fault
  <2>3. UNCHANGED <<keeping, head, concluded, entries, flag, calls, judged>>
    <3>1. \E u : Goto(c, u)
      BY <1>6, Zenon DEF Fail, OwnFails, ProcessFails, Crash
    <3>2. UNCHANGED <<entries, flag, judged>>
      BY <1>6 DEF Fail, OwnFails, ProcessFails, Crash
    <3>3. QED
      BY <3>1, <3>2
  <2>4. forgotten' = forgotten \/ forgotten' = forgotten \cup Pending(task[c])
    BY <1>6 DEF Fail, OwnFails, ProcessFails, Crash
  <2>5. QED
    BY <1>typed, <2>1, <2>2, <2>3, <2>4
<1>7. QED
  BY <1>typed, <1>1, <1>2, <1>3, <1>4, <1>5, <1>6 DEF Continue

\* The same of the steps that are of no call.
LEMMA RestOfQuiet ==
  ASSUME Base,
         \/ Release \/ FlagExpires \/ UNCHANGED vars
         \/ \E e \in Epochs : Conclude(e) \/ Expire(e)
  PROVE  /\ keeping' = keeping /\ head' \in 0..MaxEpoch /\ concluded' \subseteq 1..head'
         /\ flag' \in BOOLEAN /\ calls' \in 0..MaxCalls /\ faults' \in 0..MaxFaults
         /\ judged' = judged
         /\ forgotten \subseteq forgotten' /\ forgotten' \subseteq Epochs
         /\ entries' \subseteq Epochs /\ entries \subseteq entries' \cup forgotten'
<1>typed. /\ flag \in BOOLEAN /\ calls \in 0..MaxCalls /\ faults \in 0..MaxFaults
          /\ judged \subseteq Epochs /\ forgotten \subseteq Epochs /\ entries \subseteq Epochs
          /\ head \in 0..MaxEpoch /\ concluded \subseteq 1..head
          /\ MaxFaults \in Nat /\ MaxEpoch \in Nat
  BY HistoryAssumption DEF HistoryAssumption, Base, TypeOK
<1>1. CASE Release
  BY <1>typed, <1>1 DEF Release
<1>2. CASE FlagExpires
  BY <1>typed, <1>2 DEF FlagExpires, chain
<1>3. CASE UNCHANGED vars
  BY <1>typed, <1>3 DEF vars, chain
<1>4. ASSUME NEW e \in Epochs, Conclude(e)
      PROVE  /\ concluded' \subseteq 1..head
             /\ UNCHANGED <<keeping, head, entries, flag, calls, faults, judged, forgotten>>
  BY <1>typed, <1>4 DEF Conclude, Epochs
<1>5. ASSUME NEW e \in Epochs, Expire(e)
      PROVE  /\ UNCHANGED <<keeping, head, concluded, flag, calls, judged>>
             /\ faults' \in 0..MaxFaults
             /\ forgotten \subseteq forgotten' /\ forgotten' \subseteq Epochs
             /\ entries' \subseteq Epochs /\ entries \subseteq entries' \cup forgotten'
  BY <1>typed, <1>5 DEF Expire, Fault, chain
<1>6. QED
  BY <1>typed, <1>1, <1>2, <1>3, <1>4, <1>5

\* What every step keeps.
LEMMA EveryStep ==
  ASSUME Base, [Next]_vars
  PROVE  /\ Base' /\ SetsExcused
         /\ entries \subseteq entries' \cup forgotten'
         /\ judged \subseteq judged' /\ forgotten \subseteq forgotten'
         /\ \A c \in Callers : StillToStore(c)
<1>bits. SetsExcused => BitmapTypeOK'
  BY StepForClaims, BitmapTyped DEF SetsExcused, Base, TypeOK
<1>1. ASSUME NEW c \in Callers, Start(c) \/ Continue(c) \/ Fail(c)
      PROVE  /\ Base' /\ SetsExcused
             /\ entries \subseteq entries' \cup forgotten'
             /\ judged \subseteq judged' /\ forgotten \subseteq forgotten'
             /\ \A d \in Callers : StillToStore(d)
  <2>1. /\ task' \in [Callers -> TaskType]
        /\ \A d \in Callers : Proper(task'[d]) /\ StillToStore(d)
    BY <1>1, OneCallTurns
  <2>2. SetsExcused /\ entries' \subseteq Epochs /\ BitmapTypeOK'
    BY <1>bits, <1>1, CallsTurn
  <2>3. /\ UNCHANGED <<keeping, head, concluded>>
        /\ flag' \in BOOLEAN /\ calls' \in 0..MaxCalls /\ faults' \in 0..MaxFaults
        /\ judged \subseteq judged' /\ judged' \subseteq Epochs
        /\ forgotten \subseteq forgotten' /\ forgotten' \subseteq Epochs
        /\ entries \subseteq entries'
    BY <1>1, RestOfCall
  <2>shallow. \A d \in Callers : Len(task'[d].path) <= MaxDepth + 1
    BY <2>1 DEF Proper, Shallow
  <2>4. TypeOK'
    BY <2>1, <2>2, <2>3, <2>shallow DEF Base, TypeOK, TaskType
  <2>5. Base'
    BY <2>1, <2>4 DEF Base, Proper
  <2>6. QED
    BY <2>1, <2>2, <2>3, <2>5
<1>2. ASSUME \/ Release \/ FlagExpires \/ UNCHANGED vars
             \/ \E e \in Epochs : Conclude(e) \/ Expire(e)
      PROVE  /\ Base' /\ SetsExcused
             /\ entries \subseteq entries' \cup forgotten'
             /\ judged \subseteq judged' /\ forgotten \subseteq forgotten'
             /\ \A d \in Callers : StillToStore(d)
  <2>1. task' = task /\ SetsExcused /\ BitmapTypeOK'
    BY <1>bits, <1>2, QuietSteps, SetsNothing DEF Quiet, BitmapStepFor
  <2>2. /\ keeping' = keeping /\ head' \in 0..MaxEpoch /\ concluded' \subseteq 1..head'
        /\ flag' \in BOOLEAN /\ calls' \in 0..MaxCalls /\ faults' \in 0..MaxFaults
        /\ judged' = judged
        /\ forgotten \subseteq forgotten' /\ forgotten' \subseteq Epochs
        /\ entries' \subseteq Epochs /\ entries \subseteq entries' \cup forgotten'
    BY <1>2, RestOfQuiet
  <2>3. TypeOK'
    BY <2>1, <2>2 DEF Base, TypeOK
  <2>4. Base'
    BY <2>1, <2>3 DEF Base, Proper
  <2>5. QED
    BY <2>1, <2>2, <2>4 DEF StillToStore
<1>3. QED
  BY <1>1, <1>2 DEF Next

LEMMA BaseInitially == Init => Base
<1> SUFFICES ASSUME Init
             PROVE  Base
  OBVIOUS
<1>1. Idle \in TaskType /\ Proper(Idle)
  BY IdleProper DEF Proper
<1>2. task \in [Callers -> TaskType] /\ \A c \in Callers : task[c] = Idle
  BY <1>1 DEF Init
<1>3. BitmapTypeOK
  BY BitmapInitially DEF Init, BitmapInv
<1>consts. /\ FirstHead \in 0..MaxEpoch /\ Early \subseteq 1..FirstHead
        /\ 0 \in 0..MaxCalls /\ 0 \in 0..MaxFaults
  BY HistoryAssumption DEF HistoryAssumption
<1>shallow. \A c \in Callers : Len(task[c].path) <= MaxDepth + 1
  BY <1>1, <1>2 DEF Proper, Shallow
<1>4. TypeOK
  BY <1>2, <1>3, <1>consts, <1>shallow DEF Init, TypeOK, TaskType
<1>5. QED
  BY <1>1, <1>2, <1>4 DEF Base

LEMMA BaseInvariant == Spec => []Base
<1>1. Base /\ [Next]_vars => Base'
  BY EveryStep
<1>2. QED
  BY <1>1, BaseInitially, PTL DEF Spec

-----------------------------------------------------------------------------
(* Theorems                                                                *)

\* The keys, the calls and the bitmap keep their types, and the recursion of
\* process_snapshot_cid its bound, whatever the lists.
THEOREM TypeCorrect == Spec => []TypeOK
<1>1. Base => TypeOK
  BY DEF Base
<1>2. QED
  BY <1>1, BaseInvariant, PTL

LEMMA BitmapStays == Spec => []BitmapInv
<1>1. Init => BitmapInv
  BY BitmapInitially DEF Init
<1>2. Base /\ BitmapInv /\ [Next]_vars => BitmapInv'
  <2> SUFFICES ASSUME Base, BitmapInv, [Next]_vars
               PROVE  BitmapInv'
    OBVIOUS
  <2>1. BitmapStep
    BY EveryStep, StepForClaims DEF SetsExcused, Base, TypeOK
  <2>2. QED
    BY <2>1, BitmapKept
<1>3. QED
  BY <1>1, <1>2, BaseInvariant, PTL DEF Spec

\* However many calls write ranges back at once, no bit appears that none set.
THEOREM BitsAreCaused == Spec => []NothingInvented
<1>1. BitmapInv => NothingInvented
  BY DEF BitmapInv
<1>2. QED
  BY <1>1, BitmapStays, PTL

\* A bit that was set is lost only to a caller that had its byte read then.
THEOREM BitsAreKept == Spec => []BitsStay
<1>1. BitmapInv => BitsStay
  BY DEF BitmapInv
<1>2. QED
  BY <1>1, BitmapStays, PTL

\* Reading by ranges and bit by bit agree in every state.
THEOREM ReadingAgrees == Spec => []ReadersAgree
<1>1. BitmapInv => ReadersAgree
  BY ReadersAlwaysAgree DEF BitmapInv
<1>2. QED
  BY <1>1, BitmapStays, PTL

-----------------------------------------------------------------------------
(* Nothing is hidden.                                                      *)

\* An epoch with data whose bit is set, or about to be, has an excuse.
Accounted == \A e \in WithData : Position(e) \in Claimed => Excused(e)

LEMMA AccountedKept ==
  ASSUME Base, Accounted, [Next]_vars
  PROVE  Accounted'
<1>1. /\ entries \subseteq entries' \cup forgotten'
      /\ judged \subseteq judged' /\ forgotten \subseteq forgotten'
      /\ \A c \in Callers : StillToStore(c)
  BY EveryStep
<1>2. \A e \in WithData : Excused(e) => ExcusedNext(e)
  BY <1>1 DEF Excused, ExcusedNext, StillToStore
<1>3. PICK es \in SUBSET Numbers :
         BitmapStepFor(es) /\ \A e \in es \cap WithData : ExcusedNext(e)
  BY EveryStep DEF SetsExcused
<1>4. Claimed' \subseteq Claimed \cup {Position(e) : e \in es}
  BY <1>3, StepForClaims DEF Base, TypeOK
<1>5. ASSUME NEW e \in WithData, Position(e) \in Claimed'
      PROVE  ExcusedNext(e)
  <2>1. CASE Position(e) \in Claimed
    BY <1>2, <2>1 DEF Accounted
  <2>2. CASE \E d \in es : Position(e) = Position(d)
    <3>1. PICK d \in es : Position(e) = Position(d)
      BY <2>2
    <3>2. d \in Int /\ e \in Int /\ Offset \in Int
      BY BitmapAssumption, HistoryAssumption DEF BitmapAssumption, HistoryAssumption, Epochs
    <3>3. d = e
      BY <3>1, <3>2 DEF Position
    <3>4. QED
      BY <1>3, <3>3
  <2>3. QED
    BY <1>4, <1>5, <2>1, <2>2
<1>6. QED
  BY <1>5 DEF Accounted, Excused, ExcusedNext, Pending, Position

LEMMA AccountedInvariant == Spec => []Accounted
<1>1. Init => Accounted
  BY DEF Init, BitmapInit, Accounted, Claimed
<1>2. Base /\ Accounted /\ [Next]_vars => Accounted'
  BY AccountedKept
<1>3. QED
  BY <1>1, <1>2, BaseInvariant, PTL DEF Spec

\* An epoch with a finalized snapshot reads as blank only for one of the
\* reasons the code knows.
THEOREM NothingGetsHidden == Spec => []NothingIsHidden
<1>1. BitmapInv /\ Accounted => NothingIsHidden
  BY DEF BitmapInv, NothingInvented, Accounted, Claimed, Excused, NothingIsHidden,
     Blank, GetBit
<1>2. QED
  BY <1>1, BitmapStays, AccountedInvariant, PTL

-----------------------------------------------------------------------------
(* The calls run down: what holds of CallsEnd without any fairness.         *)

Deepest == MaxDepth + 1

\* The steps a call of process_snapshot_cid has before it, with all it may
\* still descend to.
StepsLeft(t) ==
    LET n == Len(t.path)
    IN CASE t.at = "last"   -> 1
         [] t.at = "clear"  -> 2
         [] t.at = "unwind" -> 2 + n
         [] t.at = "next"   -> Deepest + 3 * (Deepest - n) + 3
         [] t.at = "back"   -> Deepest + 3 * (Deepest - n) + 4
         [] t.at = "mark"   -> Deepest + 3 * (Deepest - n) + 5
         [] t.at = "set"    -> 4 * Deepest + 6
         [] OTHER           -> 4 * Deepest + 7

\* The same for what a call does about one epoch: a snapshot processed on the
\* way to the epoch comes before its own.
Rank(t) ==
    CASE t.at \in Calling -> StepsLeft(t) + (IF t.root THEN 1 ELSE 4 * Deepest + 11)
      [] t.at \in {"store", "bulkStore"} -> 1
      [] t.at = "bulkBack" -> 2
      [] t.at = "bulk"     -> 3
      [] t.at = "ownBack"  -> 4 * Deepest + 9
      [] t.at = "own"      -> 4 * Deepest + 10
      [] t.at = "ask"      -> 4 * Deepest + 11
      [] t.at = "walk"     -> 8 * Deepest + 19
      [] t.at = "refresh"  -> 8 * Deepest + 20
      [] OTHER             -> 0

\* From t to u a call ends, is done with an epoch for good, or has fewer
\* steps left for the epoch it is about.
RunsDown(t, u) ==
    \/ u = Idle
    \/ u.missing \subseteq t.missing /\ u.missing # t.missing
    \/ u.missing = t.missing /\ Rank(u) \in 0..(Rank(t) - 1)

\* What a walk has in hand is one of the epochs it is to find.
OnEpoch(t) ==
    t.at \in Calling \cup {"ask", "own", "ownBack", "store"} =>
        t.missing = {} \/ t.epoch \in t.missing

\* Only the outermost call has the flag to clear and a last pipeline.
AtEnd(t) == t.at \in {"clear", "last"} => Len(t.path) <= 1

GoesOn(t, u) == RunsDown(t, u) /\ OnEpoch(u) /\ AtEnd(u)

LEMMA StepsLeftValues ==
  ASSUME NEW t, Proper(t), t.at \in Calling
  PROVE  LET n == Len(t.path)
         IN  /\ Deepest \in Nat /\ n \in 1..Deepest
             /\ t.at = "last" => StepsLeft(t) = 1
             /\ t.at = "clear" => StepsLeft(t) = 2
             /\ t.at = "unwind" => StepsLeft(t) = 2 + n
             /\ t.at = "next" => StepsLeft(t) = Deepest + 3 * (Deepest - n) + 3
             /\ t.at = "back" => StepsLeft(t) = Deepest + 3 * (Deepest - n) + 4
             /\ t.at = "mark" => StepsLeft(t) = Deepest + 3 * (Deepest - n) + 5
             /\ t.at = "set" => StepsLeft(t) = 4 * Deepest + 6
             /\ t.at = "flag" => StepsLeft(t) = 4 * Deepest + 7
             /\ StepsLeft(t) \in 1..(4 * Deepest + 7)
<1> DEFINE n == Len(t.path)
<1>1. Deepest \in Nat /\ n \in 1..Deepest
  <2>1. MaxDepth \in Nat
    BY HistoryAssumption DEF HistoryAssumption
  <2>2. t.path \in Seq(Frames) /\ t.path # <<>> /\ n <= MaxDepth + 1
    BY DEF Proper, TaskType, Framed, Shallow
  <2>3. QED
    BY <2>1, <2>2 DEF Deepest
<1>2. /\ t.at = "last" => StepsLeft(t) = 1
      /\ t.at = "clear" => StepsLeft(t) = 2
      /\ t.at = "unwind" => StepsLeft(t) = 2 + n
      /\ t.at = "next" => StepsLeft(t) = Deepest + 3 * (Deepest - n) + 3
      /\ t.at = "back" => StepsLeft(t) = Deepest + 3 * (Deepest - n) + 4
      /\ t.at = "mark" => StepsLeft(t) = Deepest + 3 * (Deepest - n) + 5
      /\ t.at = "set" => StepsLeft(t) = 4 * Deepest + 6
      /\ t.at = "flag" => StepsLeft(t) = 4 * Deepest + 7
  BY DEF StepsLeft
<1> HIDE DEF n
<1>3. StepsLeft(t) \in 1..(4 * Deepest + 7)
  BY <1>1, <1>2 DEF Calling
<1>4. QED
  BY <1>1, <1>2, <1>3 DEF n

LEMMA RankValues ==
  ASSUME NEW t, Proper(t)
  PROVE  /\ Deepest \in Nat
         /\ t.at \in Calling => /\ Rank(t) = StepsLeft(t) + (IF t.root THEN 1 ELSE 4 * Deepest + 11)
                                /\ StepsLeft(t) \in 1..(4 * Deepest + 7)
         /\ t.at \in {"store", "bulkStore"} => Rank(t) = 1
         /\ t.at = "bulkBack" => Rank(t) = 2
         /\ t.at = "bulk" => Rank(t) = 3
         /\ t.at = "ownBack" => Rank(t) = 4 * Deepest + 9
         /\ t.at = "own" => Rank(t) = 4 * Deepest + 10
         /\ t.at = "ask" => Rank(t) = 4 * Deepest + 11
         /\ t.at = "walk" => Rank(t) = 8 * Deepest + 19
         /\ t.at = "refresh" => Rank(t) = 8 * Deepest + 20
         /\ Rank(t) \in Nat
<1>1. Deepest \in Nat
  BY HistoryAssumption DEF HistoryAssumption, Deepest
<1>2. /\ t.at \in Calling => Rank(t) = StepsLeft(t) + (IF t.root THEN 1 ELSE 4 * Deepest + 11)
      /\ t.at \in {"store", "bulkStore"} => Rank(t) = 1
      /\ t.at = "bulkBack" => Rank(t) = 2
      /\ t.at = "bulk" => Rank(t) = 3
      /\ t.at = "ownBack" => Rank(t) = 4 * Deepest + 9
      /\ t.at = "own" => Rank(t) = 4 * Deepest + 10
      /\ t.at = "ask" => Rank(t) = 4 * Deepest + 11
      /\ t.at = "walk" => Rank(t) = 8 * Deepest + 19
      /\ t.at = "refresh" => Rank(t) = 8 * Deepest + 20
      /\ t.at = "idle" => Rank(t) = 0
  BY DEF Rank, Calling
<1>3. t.at \in Calling => StepsLeft(t) \in 1..(4 * Deepest + 7)
  BY StepsLeftValues
<1>4. t.at \in Calling \cup {"store", "bulkStore", "bulkBack", "bulk", "ownBack", "own",
                             "ask", "walk", "refresh", "idle"}
  BY DEF Proper, TaskType, Steps, Calling
<1>5. Rank(t) \in Nat
  BY <1>1, <1>2, <1>3, <1>4
<1>6. QED
  BY <1>1, <1>2, <1>3, <1>5

\* A call that goes on with the same epoch has to have fewer steps left.
LEMMA SameEpochGoesOn ==
  ASSUME NEW t, NEW u, Proper(t), Proper(u), OnEpoch(t),
         t.at \in Calling \cup {"ask", "own", "ownBack", "store"},
         u.missing = t.missing, u.epoch = t.epoch, AtEnd(u), Rank(u) < Rank(t)
  PROVE  GoesOn(t, u)
<1>1. Rank(t) \in Nat /\ Rank(u) \in Nat
  BY RankValues
<1>2. QED
  BY <1>1 DEF GoesOn, RunsDown, OnEpoch

LEMMA IdleGoesOn ==
  ASSUME NEW t
  PROVE  GoesOn(t, Idle)
BY DEF GoesOn, RunsDown, OnEpoch, AtEnd, Idle, Calling

LEMMA AnsweredGoesOn ==
  ASSUME NEW t, Proper(t), OnEpoch(t), t.at \in {"ask", "store"}
  PROVE  GoesOn(t, Answered(t))
<1>1. CASE t.missing \ {t.epoch} = {}
  BY <1>1, IdleGoesOn DEF Answered
<1>2. CASE t.missing \ {t.epoch} # {}
  <2>1. t \in TaskType /\ t.epoch \in t.missing
    BY <1>2 DEF Proper, OnEpoch
  <2>2. Answered(t).missing = t.missing \ {t.epoch} /\ Answered(t).at = "refresh"
    BY <1>2, <2>1 DEF Answered, TaskType
  <2>3. QED
    BY <2>1, <2>2 DEF GoesOn, RunsDown, OnEpoch, AtEnd, Calling
<1>3. QED
  BY <1>1, <1>2

LEMMA ProcessedGoesOn ==
  ASSUME NEW t, Proper(t), OnEpoch(t), t.at \in Calling
  PROVE  GoesOn(t, Processed(t))
<1> DEFINE u == Processed(t)
<1>1. t \in TaskType /\ Proper(u)
  BY ProcessedProper DEF Proper
<1>2. CASE t.root /\ t.epoch = None
  BY <1>2, IdleGoesOn DEF Processed
<1>3. CASE t.root /\ t.epoch # None
  <2>1. u.at = "store" /\ u.missing = t.missing /\ u.epoch = t.epoch
    BY <1>1, <1>3 DEF Processed, TaskType
  <2> HIDE DEF u
  <2>2. Rank(u) < Rank(t)
    BY <1>1, <1>3, <2>1, RankValues
  <2>3. QED
    BY <1>1, <2>1, <2>2, SameEpochGoesOn DEF AtEnd, u
<1>4. CASE ~t.root
  <2>1. u.at = "ask" /\ u.missing = t.missing /\ u.epoch = t.epoch
    BY <1>1, <1>4 DEF Processed, TaskType
  <2> HIDE DEF u
  <2>2. Rank(u) < Rank(t)
    BY <1>1, <1>4, <2>1, RankValues
  <2>3. QED
    BY <1>1, <2>1, <2>2, SameEpochGoesOn DEF AtEnd, u
<1>5. QED
  BY <1>2, <1>3, <1>4

\* From one place of process_snapshot_cid to another.
LEMMA CallingGoesOn ==
  ASSUME NEW t, NEW u, Proper(t), Proper(u), OnEpoch(t), t.at \in Calling, u.at \in Calling,
         u.root = t.root, u.missing = t.missing, u.epoch = t.epoch, AtEnd(u),
         StepsLeft(u) < StepsLeft(t)
  PROVE  GoesOn(t, u)
<1>1. Rank(u) < Rank(t)
  BY RankValues
<1>2. QED
  BY <1>1, SameEpochGoesOn

LEMMA OutGoesOn ==
  ASSUME NEW t, Proper(t), OnEpoch(t), t.at = "next"
  PROVE  GoesOn(t, Out(t))
<1> DEFINE u == Out(t)
<1>1. t \in TaskType /\ t.path # <<>> /\ t.path \in Seq(Frames) /\ t.at \in Calling
  BY DEF Proper, TaskType, Framed, Calling
<1>2. Proper(u)
  BY <1>1, OutProper
<1>3. /\ u.at = IF Len(t.path) > 1 THEN "unwind" ELSE IF t.root THEN "clear" ELSE "last"
      /\ u.path = t.path /\ u.root = t.root /\ u.missing = t.missing /\ u.epoch = t.epoch
  BY <1>1 DEF Out, TaskType
<1> HIDE DEF u
<1>4. u.at \in {"unwind", "clear", "last"} /\ u.at \in Calling
  BY <1>3 DEF Calling
<1>5. AtEnd(u)
  <2>1. Len(t.path) \in Nat /\ Len(t.path) >= 1
    BY <1>1
  <2>2. QED
    BY <1>3, <2>1 DEF AtEnd
<1>6. StepsLeft(u) <= 2 + Len(t.path)
  <2>1. Len(t.path) \in Nat
    BY <1>1
  <2>2. QED
    BY <1>2, <1>3, <1>4, <2>1, StepsLeftValues
<1>7. Deepest \in Nat /\ Len(t.path) \in 1..Deepest /\ StepsLeft(u) \in Nat
  BY <1>1, <1>2, <1>4, StepsLeftValues
<1>8. StepsLeft(t) = Deepest + 3 * (Deepest - Len(t.path)) + 3
  BY <1>1, StepsLeftValues
<1>9. StepsLeft(u) < StepsLeft(t)
  BY <1>6, <1>7, <1>8
<1>10. QED
  BY <1>1, <1>2, <1>3, <1>4, <1>5, <1>9, CallingGoesOn DEF u

LEMMA ReturnGoesOn ==
  ASSUME NEW t, Proper(t), OnEpoch(t), AtEnd(t), t.at \in Calling, Len(t.path) > 1
  PROVE  GoesOn(t, Out([t EXCEPT !.path = SubSeq(@, 1, Len(@) - 1)]))
<1> DEFINE p == SubSeq(t.path, 1, Len(t.path) - 1)
           n == Len(p)
           u == Out([t EXCEPT !.path = p])
<1>1. t \in TaskType /\ t.path \in Seq(Frames)
  BY DEF Proper, TaskType
<1>2. p \in Seq(Frames) /\ n = Len(t.path) - 1 /\ n \in Nat /\ n >= 1
  BY <1>1, BeforeLast
<1>3. u = Out([t EXCEPT !.path = SubSeq(@, 1, Len(@) - 1)])
  BY <1>1 DEF TaskType
<1>4. Proper(u)
  BY <1>3, ReturnProper
<1> HIDE DEF p
<1>len. Len(t.path) \in Nat /\ n = Len(t.path) - 1 /\ n \in Nat /\ n >= 1
  BY <1>1, <1>2
<1>5. /\ u.at = IF n > 1 THEN "unwind" ELSE IF t.root THEN "clear" ELSE "last"
      /\ u.path = p /\ u.root = t.root /\ u.missing = t.missing /\ u.epoch = t.epoch
  BY <1>1, <1>2 DEF Out, TaskType
<1> HIDE DEF u
<1>6. u.at \in {"unwind", "clear", "last"} /\ u.at \in Calling
  BY <1>5 DEF Calling
<1>atEnd. AtEnd(u)
  <2>1. n <= 1 \/ n > 1
    BY <1>len
  <2>2. n > 1 => u.at = "unwind"
    BY <1>5
  <2>3. QED
    BY <1>5, <2>1, <2>2 DEF AtEnd
<1>7. StepsLeft(u) <= 2 + n
  BY <1>2, <1>4, <1>5, <1>6, StepsLeftValues
<1>8. StepsLeft(t) > 2 + n
  <2>1. t.at \in {"flag", "set", "mark", "back", "next", "unwind"}
    <3>1. ~(Len(t.path) <= 1)
      BY <1>len
    <3>2. QED
      BY <3>1 DEF Calling, AtEnd
  <2>2. Deepest \in Nat /\ Len(t.path) \in 1..Deepest
    BY StepsLeftValues
  <2>3. t.at = "unwind" => StepsLeft(t) = 2 + Len(t.path)
    BY StepsLeftValues
  <2>4. t.at \in {"mark", "back", "next"} =>
            StepsLeft(t) \in {Deepest + 3 * (Deepest - Len(t.path)) + k : k \in {3, 4, 5}}
    BY StepsLeftValues
  <2>5. t.at \in {"flag", "set"} => StepsLeft(t) \in {4 * Deepest + 6, 4 * Deepest + 7}
    BY StepsLeftValues
  <2> HIDE DEF n
  <2>6. QED
    BY <1>len, <2>1, <2>2, <2>3, <2>4, <2>5
<1>9. StepsLeft(u) < StepsLeft(t)
  BY <1>2, <1>4, <1>6, <1>7, <1>8, StepsLeftValues
<1>10. QED
  BY <1>3, <1>4, <1>5, <1>6, <1>atEnd, <1>9, CallingGoesOn

\* A step of the call of a caller.
LEMMA GoesTo ==
  ASSUME Base, NEW c \in Callers, NEW u, Goto(c, u)
  PROVE  task'[c] = u
BY DEF Goto, Base, TypeOK

Ready(c) == Base /\ OnEpoch(task[c]) /\ AtEnd(task[c])

LEMMA AskGoesOn ==
  ASSUME NEW c \in Callers, Ready(c), Ask(c)
  PROVE  GoesOn(task[c], task'[c])
<1> DEFINE t == task[c]
           u == [t EXCEPT !.at = "own"]
<1>1. Proper(t) /\ t \in TaskType /\ t.at = "ask" /\ OnEpoch(t) /\ Base
  BY DEF Ready, Base, Proper, Ask
<1>2. task'[c] = Answered(t) \/ task'[c] = u
  BY <1>1, GoesTo DEF Ask
<1>3. Proper(task'[c])
  BY <1>1, AskTurns DEF Turn
<1>4. ASSUME task'[c] = u
      PROVE  GoesOn(t, u)
  <2>1. u.at = "own" /\ u.missing = t.missing /\ u.epoch = t.epoch
    BY <1>1 DEF TaskType
  <2> HIDE DEF u
  <2>2. Rank(u) < Rank(t)
    BY <1>1, <1>3, <1>4, <2>1, RankValues
  <2>3. QED
    BY <1>1, <1>3, <1>4, <2>1, <2>2, SameEpochGoesOn DEF AtEnd
<1>5. QED
  BY <1>1, <1>2, <1>4, AnsweredGoesOn

LEMMA OwnGoesOn ==
  ASSUME NEW c \in Callers, Ready(c), NEW s, Own(c, s) \/ OwnFails(c, s) \/ OwnBack(c)
  PROVE  GoesOn(task[c], task'[c])
<1> DEFINE t == task[c]
           u == task'[c]
<1>1. /\ Proper(t) /\ t \in TaskType /\ t.at \in {"own", "ownBack"} /\ OnEpoch(t) /\ Base
      /\ t.at = "ownBack" => t.root = TRUE
  BY DEF Ready, Base, Proper, Placed, Own, OwnFails, OwnBack
<1>2. Proper(u)
  BY <1>1, OwnTurns, OwnFailsTurns, PlainTurns DEF Turn
<1>3. CASE Own(c, s)
  <2> DEFINE a == IF opened'[c] = Closed THEN "flag" ELSE "ownBack"
  <2>1. u = [t EXCEPT !.at = a, !.list = s,
                      !.path = <<[epoch |-> t.epoch, list |-> <<>>]>>, !.root = TRUE]
    BY <1>1, <1>3, GoesTo DEF Own
  <2>2. /\ u.at \in {"flag", "ownBack"} /\ u.root = TRUE
        /\ u.missing = t.missing /\ u.epoch = t.epoch
    BY <1>1, <2>1 DEF TaskType
  <2>3. t.at = "own"
    BY <1>3 DEF Own
  <2> HIDE DEF u
  <2>4. Rank(u) < Rank(t)
    BY <1>1, <1>2, <2>2, <2>3, RankValues DEF Calling
  <2>5. QED
    BY <1>1, <1>2, <2>2, <2>4, SameEpochGoesOn DEF AtEnd, u
<1>4. CASE OwnFails(c, s)
  <2>1. u = [t EXCEPT !.at = "store", !.list = s, !.path = <<>>, !.root = FALSE]
    BY <1>1, <1>4, GoesTo DEF OwnFails
  <2>2. u.at = "store" /\ u.missing = t.missing /\ u.epoch = t.epoch
    BY <1>1, <2>1 DEF TaskType
  <2> HIDE DEF u
  <2>3. Rank(u) < Rank(t)
    BY <1>1, <1>2, <2>2, RankValues
  <2>4. QED
    BY <1>1, <1>2, <2>2, <2>3, SameEpochGoesOn DEF AtEnd, u
<1>5. CASE OwnBack(c)
  <2>1. u = [t EXCEPT !.at = "flag"] /\ t.at = "ownBack"
    BY <1>1, <1>5, GoesTo DEF OwnBack
  <2>2. u.at = "flag" /\ u.root = TRUE /\ u.missing = t.missing /\ u.epoch = t.epoch
    BY <1>1, <2>1 DEF TaskType
  <2> HIDE DEF u
  <2>3. Rank(u) < Rank(t)
    <3>1. Rank(t) = 4 * Deepest + 9 /\ Deepest \in Nat
      BY <1>1, <2>1, RankValues
    <3>2. Rank(u) = StepsLeft(u) + 1 /\ StepsLeft(u) \in 1..(4 * Deepest + 7)
      BY <1>2, <2>2, RankValues DEF Calling
    <3>3. QED
      BY <3>1, <3>2
  <2>4. QED
    BY <1>1, <1>2, <2>2, <2>3, SameEpochGoesOn DEF AtEnd, u
<1>6. QED
  BY <1>3, <1>4, <1>5

LEMMA StoreGoesOn ==
  ASSUME NEW c \in Callers, Ready(c), Store(c)
  PROVE  GoesOn(task[c], task'[c])
<1>1. Proper(task[c]) /\ task[c].at = "store" /\ OnEpoch(task[c]) /\ Base
  BY DEF Ready, Base, Store
<1>2. task'[c] = Answered(task[c])
  BY <1>1, GoesTo DEF Store
<1>3. QED
  BY <1>1, <1>2, AnsweredGoesOn

LEMMA PlainGoesOn ==
  ASSUME NEW c \in Callers, Ready(c), Exists(c) \/ SetFlag(c) \/ Back(c) \/ ClearFlag(c)
  PROVE  GoesOn(task[c], task'[c])
<1> DEFINE t == task[c]
           u == task'[c]
<1>1. /\ Proper(t) /\ t \in TaskType /\ t.at \in Calling /\ OnEpoch(t) /\ AtEnd(t) /\ Base
  BY DEF Ready, Base, Proper, Exists, SetFlag, Back, ClearFlag, Calling
<1>2. Proper(u)
  BY <1>1, PlainTurns DEF Turn
<1>3. \/ u = Processed(t)
      \/ t.at = "flag" /\ u = [t EXCEPT !.at = "set"]
      \/ t.at = "set" /\ u = [t EXCEPT !.at = "mark"]
      \/ t.at = "back" /\ u = [t EXCEPT !.at = "next"]
      \/ t.at = "clear" /\ u = [t EXCEPT !.at = "last"]
  BY <1>1, GoesTo DEF Exists, SetFlag, Back, ClearFlag
<1>4. ASSUME NEW a \in {"set", "mark", "next", "last"}, u = [t EXCEPT !.at = a],
             t.at = IF a = "set" THEN "flag" ELSE IF a = "mark" THEN "set"
                    ELSE IF a = "next" THEN "back" ELSE "clear"
      PROVE  GoesOn(t, u)
  <2>1. /\ u.at = a /\ u.path = t.path /\ u.root = t.root
        /\ u.missing = t.missing /\ u.epoch = t.epoch
    BY <1>1, <1>4 DEF TaskType
  <2>values. Deepest \in Nat /\ Len(t.path) \in 1..Deepest
    BY <1>1, StepsLeftValues
  <2> HIDE DEF u
  <2>2. u.at \in Calling /\ AtEnd(u)
    BY <1>1, <1>4, <2>1 DEF Calling, AtEnd
  <2>3. StepsLeft(u) < StepsLeft(t)
    <3>1. CASE a = "set"
      <4>1. StepsLeft(u) = 4 * Deepest + 6
        BY <1>2, <2>1, <2>2, <3>1, StepsLeftValues
      <4>2. StepsLeft(t) = 4 * Deepest + 7
        BY <1>1, <1>4, <3>1, StepsLeftValues
      <4>3. QED
        BY <2>values, <4>1, <4>2
    <3>2. CASE a = "mark"
      <4>1. StepsLeft(u) = Deepest + 3 * (Deepest - Len(t.path)) + 5
        BY <1>2, <2>1, <2>2, <3>2, StepsLeftValues
      <4>2. StepsLeft(t) = 4 * Deepest + 6
        BY <1>1, <1>4, <3>2, StepsLeftValues
      <4>3. QED
        BY <2>values, <4>1, <4>2
    <3>3. CASE a = "next"
      <4>1. StepsLeft(u) = Deepest + 3 * (Deepest - Len(t.path)) + 3
        BY <1>2, <2>1, <2>2, <3>3, StepsLeftValues
      <4>2. StepsLeft(t) = Deepest + 3 * (Deepest - Len(t.path)) + 4
        BY <1>1, <1>4, <3>3, StepsLeftValues
      <4>3. QED
        BY <2>values, <4>1, <4>2
    <3>4. CASE a = "last"
      <4>1. StepsLeft(u) = 1
        BY <1>2, <2>1, <2>2, <3>4, StepsLeftValues
      <4>2. StepsLeft(t) = 2
        BY <1>1, <1>4, <3>4, StepsLeftValues
      <4>3. QED
        BY <4>1, <4>2
    <3>5. QED
      BY <3>1, <3>2, <3>3, <3>4
  <2>4. QED
    BY <1>1, <1>2, <2>1, <2>2, <2>3, CallingGoesOn
<1>5. QED
  BY <1>1, <1>3, <1>4, ProcessedGoesOn

LEMMA MarkGoesOn ==
  ASSUME NEW c \in Callers, Ready(c), NEW s, Mark(c, s)
  PROVE  GoesOn(task[c], task'[c])
<1> DEFINE t == task[c]
           a == IF opened'[c] = Closed THEN "next" ELSE "back"
           u == [t EXCEPT !.at = a, !.path[Len(t.path)].list = s]
<1>1. /\ Proper(t) /\ t \in TaskType /\ t.at = "mark" /\ t.at \in Calling
      /\ OnEpoch(t) /\ Base
  BY DEF Ready, Base, Proper, Mark, Calling
<1>2. task'[c] = u
  BY <1>1, GoesTo DEF Mark
<1>3. Proper(u)
  BY <1>1, <1>2, MarkTurns DEF Turn
<1>4. a \in {"next", "back"}
  OBVIOUS
<1> HIDE DEF a
<1>5. /\ u.at = a /\ u.root = t.root /\ u.missing = t.missing /\ u.epoch = t.epoch
      /\ u.path = [t.path EXCEPT ![Len(t.path)].list = s]
  BY <1>1 DEF TaskType
<1>6. Len(u.path) = Len(t.path)
  BY <1>1, <1>5 DEF TaskType
<1> HIDE DEF u
<1>7. u.at \in Calling /\ AtEnd(u)
  BY <1>4, <1>5 DEF Calling, AtEnd
<1>8. StepsLeft(u) < StepsLeft(t)
  <2>1. Deepest \in Nat /\ Len(t.path) \in 1..Deepest
    BY <1>1, StepsLeftValues
  <2>2. StepsLeft(t) = Deepest + 3 * (Deepest - Len(t.path)) + 5
    BY <1>1, StepsLeftValues
  <2>3. StepsLeft(u) \in {Deepest + 3 * (Deepest - Len(t.path)) + k : k \in {3, 4}}
    BY <1>3, <1>4, <1>5, <1>6, <1>7, StepsLeftValues
  <2>4. QED
    BY <2>1, <2>2, <2>3
<1>9. QED
  BY <1>1, <1>2, <1>3, <1>5, <1>7, <1>8, CallingGoesOn

LEMMA DescendGoesOn ==
  ASSUME NEW c \in Callers, Ready(c), Descend(c)
  PROVE  GoesOn(task[c], task'[c])
<1> DEFINE t == task[c]
           f == [epoch |-> Top(t).list[1], list |-> <<>>]
           u == [t EXCEPT !.at = "mark", !.path = Append(@, f)]
<1>1. /\ Proper(t) /\ t \in TaskType /\ t.at = "next" /\ t.at \in Calling
      /\ OnEpoch(t) /\ Base
  BY DEF Ready, Base, Proper, Descend, Calling
<1>2. task'[c] = Out(t) \/ task'[c] = u
  BY <1>1, GoesTo DEF Descend
<1>3. Proper(task'[c])
  BY <1>1, DescendTurns DEF Turn
<1>4. ASSUME task'[c] = u
      PROVE  GoesOn(t, u)
  <2>1. /\ u.at = "mark" /\ u.root = t.root /\ u.missing = t.missing /\ u.epoch = t.epoch
        /\ u.path = Append(t.path, f)
    BY <1>1 DEF TaskType
  <2> HIDE DEF f
  <2>2. Len(u.path) = Len(t.path) + 1
    BY <1>1, <2>1 DEF TaskType
  <2> HIDE DEF u
  <2>3. u.at \in Calling /\ AtEnd(u)
    BY <2>1 DEF Calling, AtEnd
  <2>4. StepsLeft(u) < StepsLeft(t)
    <3>1. Deepest \in Nat /\ Len(t.path) \in 1..Deepest
      BY <1>1, StepsLeftValues
    <3>2. StepsLeft(t) = Deepest + 3 * (Deepest - Len(t.path)) + 3
      BY <1>1, StepsLeftValues
    <3>3. StepsLeft(u) = Deepest + 3 * (Deepest - (Len(t.path) + 1)) + 5
      BY <1>3, <1>4, <2>1, <2>2, <2>3, StepsLeftValues
    <3>4. QED
      BY <3>1, <3>2, <3>3
  <2>5. QED
    BY <1>1, <1>3, <1>4, <2>1, <2>3, <2>4, CallingGoesOn
<1>5. QED
  BY <1>1, <1>2, <1>4, OutGoesOn

LEMMA WayBackGoesOn ==
  ASSUME NEW c \in Callers, Ready(c), Unwind(c) \/ Last(c) \/ ProcessFails(c)
  PROVE  GoesOn(task[c], task'[c])
<1> DEFINE t == task[c]
           u == Out([t EXCEPT !.path = SubSeq(@, 1, Len(@) - 1)])
<1>1. /\ Proper(t) /\ t.at \in Calling /\ OnEpoch(t) /\ AtEnd(t) /\ Base
  BY DEF Ready, Base, Unwind, Last, ProcessFails, Calling
<1>2. Unwind(c) => Len(t.path) > 1
  BY <1>1 DEF Unwind, Proper, Framed
<1>3. task'[c] = Processed(t) \/ (Len(t.path) > 1 /\ task'[c] = u)
  BY <1>1, <1>2, GoesTo DEF Unwind, Last, ProcessFails
<1> HIDE DEF u
<1>4. QED
  BY <1>1, <1>3, ProcessedGoesOn, ReturnGoesOn DEF u

\* A walk turns to the newest of its epochs.
LEMMA WalkGoesOn ==
  ASSUME NEW c \in Callers, Ready(c), Walk(c)
  PROVE  GoesOn(task[c], task'[c])
<1> DEFINE t == task[c]
           e == LastOf(t.missing)
           from == Closest(e, t.known) \cap t.found
           u == task'[c]
<1>1. /\ Proper(t) /\ t.at = "walk" /\ t \in TaskType /\ Base
      /\ t.missing # {} /\ t.missing \in SUBSET Epochs /\ t.root = FALSE
  BY RootsCalling DEF Ready, Base, Walk, Proper, Placed, TaskType, Calling
<1>2. e \in t.missing
  BY <1>1, NewestOf
<1>3. Proper(u)
  BY <1>1, WalkTurns DEF Turn
<1>4. u = IF from = {} THEN [t EXCEPT !.at = "ask", !.epoch = e]
          ELSE [t EXCEPT !.at = "mark", !.epoch = e, !.found = @ \ from,
                         !.path = <<[epoch |-> LastOf(from), list |-> <<>>]>>]
  BY <1>1, GoesTo DEF Walk
<1> HIDE DEF from, e
<1>5. /\ u.at \in {"ask", "mark"} /\ u.epoch = e /\ u.missing = t.missing
      /\ u.root = FALSE
  BY <1>1, <1>4 DEF TaskType
<1> HIDE DEF u
<1>6. Rank(u) < Rank(t) /\ Rank(u) \in Nat /\ Rank(t) \in Nat
  <2>1. Rank(t) = 8 * Deepest + 19 /\ Deepest \in Nat
    BY <1>1, RankValues
  <2>2. CASE u.at = "ask"
    BY <1>3, <2>1, <2>2, RankValues
  <2>3. CASE u.at = "mark"
    <3>1. /\ Rank(u) = StepsLeft(u) + (IF u.root THEN 1 ELSE 4 * Deepest + 11)
          /\ StepsLeft(u) \in 1..(4 * Deepest + 7)
      BY <1>3, <2>3, RankValues DEF Calling
    <3>2. Rank(u) = StepsLeft(u) + (4 * Deepest + 11)
      BY <1>5, <3>1
    <3>3. QED
      BY <2>1, <3>1, <3>2
  <2>4. QED
    BY <1>5, <2>2, <2>3
<1>7. RunsDown(t, u)
  BY <1>5, <1>6 DEF RunsDown
<1>8. OnEpoch(u) /\ AtEnd(u)
  BY <1>2, <1>5 DEF OnEpoch, AtEnd
<1>9. QED
  BY <1>7, <1>8 DEF GoesOn, u

LEMMA RefreshGoesOn ==
  ASSUME NEW c \in Callers, Ready(c), Refresh(c)
  PROVE  GoesOn(task[c], task'[c])
<1> DEFINE t == task[c]
           rest == t.missing \cap Unknown
           u == [t EXCEPT !.at = "walk", !.missing = rest]
<1>1. Proper(t) /\ t.at = "refresh" /\ t \in TaskType /\ Base
  BY DEF Ready, Base, Refresh, Proper
<1>2. task'[c] = Idle \/ task'[c] = u
  BY <1>1, GoesTo DEF Refresh
<1>3. Proper(task'[c])
  BY <1>1, RefreshTurns DEF Turn
<1>4. ASSUME task'[c] = u
      PROVE  GoesOn(t, u)
  <2>1. u.at = "walk" /\ u.missing = rest /\ rest \subseteq t.missing
    BY <1>1 DEF TaskType
  <2> HIDE DEF u, rest
  <2>2. Rank(u) \in 0..(Rank(t) - 1)
    <3>1. Deepest \in Nat /\ Rank(t) = 8 * Deepest + 20 /\ Rank(u) = 8 * Deepest + 19
      BY <1>1, <1>3, <1>4, <2>1, RankValues
    <3>2. QED
      BY <3>1
  <2>3. RunsDown(t, u)
    BY <2>1, <2>2 DEF RunsDown
  <2>4. OnEpoch(u) /\ AtEnd(u)
    BY <2>1 DEF OnEpoch, AtEnd, Calling
  <2>5. QED
    BY <2>3, <2>4 DEF GoesOn
<1>5. QED
  BY <1>2, <1>4, IdleGoesOn

LEMMA BulkGoesOn ==
  ASSUME NEW c \in Callers, Ready(c), Bulk(c) \/ BulkBack(c)
  PROVE  GoesOn(task[c], task'[c])
<1> DEFINE t == task[c]
           u == task'[c]
<1>1. Proper(t) /\ t.at \in {"bulk", "bulkBack"} /\ t \in TaskType /\ Base
  BY DEF Ready, Base, Bulk, BulkBack, Proper
<1>2. Proper(u)
  BY <1>1, BulkTurns DEF Turn
<1>3. /\ u.missing = t.missing
      /\ \/ t.at = "bulk" /\ u.at \in {"bulkBack", "bulkStore"}
         \/ t.at = "bulkBack" /\ u.at = "bulkStore"
  <2>1. CASE Bulk(c)
    <3>1. u = [t EXCEPT !.at = IF opened'[c] = Closed THEN "bulkStore" ELSE "bulkBack",
                        !.found = t.missing \cap concluded \cap WithData]
      BY <1>1, <2>1, GoesTo DEF Bulk
    <3>2. QED
      BY <1>1, <2>1, <3>1 DEF Bulk, TaskType
  <2>2. CASE BulkBack(c)
    <3>1. u = [t EXCEPT !.at = "bulkStore"]
      BY <1>1, <2>2, GoesTo DEF BulkBack
    <3>2. QED
      BY <1>1, <2>2, <3>1 DEF BulkBack, TaskType
  <2>3. QED
    BY <2>1, <2>2
<1> HIDE DEF u
<1>4. Rank(u) \in 0..(Rank(t) - 1)
  BY <1>1, <1>2, <1>3, RankValues
<1>5. OnEpoch(u) /\ AtEnd(u)
  BY <1>3 DEF OnEpoch, AtEnd, Calling
<1>6. QED
  BY <1>3, <1>4, <1>5 DEF GoesOn, RunsDown, u

LEMMA EndGoesOn ==
  ASSUME NEW c \in Callers, Ready(c), BulkStore(c) \/ Crash(c)
  PROVE  GoesOn(task[c], task'[c])
<1>1. task'[c] = Idle
  BY GoesTo DEF Ready, BulkStore, Crash
<1>2. QED
  BY <1>1, IdleGoesOn

LEMMA CallGoesOn ==
  ASSUME NEW c \in Callers, Ready(c), Continue(c) \/ Fail(c)
  PROVE  GoesOn(task[c], task'[c])
BY AskGoesOn, OwnGoesOn, StoreGoesOn, PlainGoesOn, MarkGoesOn, DescendGoesOn,
   WayBackGoesOn, WalkGoesOn, RefreshGoesOn, BulkGoesOn, EndGoesOn
DEF Continue, Fail

LEMMA BeginsAt ==
  ASSUME NEW c \in Callers, Start(c)
  PROVE  \E t : Begin(c, t) /\ \/ t.at \in {"ask", "flag"} /\ t.missing = {}
                               \/ t.at \in {"walk", "bulk"}
<1> DEFINE Begun(t) == \/ t.at \in {"ask", "flag"} /\ t.missing = {}
                       \/ t.at \in {"walk", "bulk"}
<1>1. ASSUME NEW e, BeginRead(c, e)
      PROVE  \E t : Begin(c, t) /\ Begun(t)
  <2>1. Begun([Idle EXCEPT !.at = "ask", !.epoch = e])
    BY DEF Idle
  <2>2. QED
    BY <1>1, <2>1 DEF BeginRead
<1>2. ASSUME NEW e, BeginResolve(c, e)
      PROVE  \E t : Begin(c, t) /\ Begun(t)
  <2>1. Begun([Idle EXCEPT !.at = "flag", !.root = TRUE,
                           !.path = <<[epoch |-> e, list |-> <<>>]>>])
    BY DEF Idle
  <2>2. QED
    BY <1>2, <2>1 DEF BeginResolve
<1>3. ASSUME NEW es, BeginWalk(c, es)
      PROVE  \E t : Begin(c, t) /\ Begun(t)
  <2>1. Begun([Idle EXCEPT !.at = "walk", !.missing = es \cap Unknown,
                           !.known = es \ Unknown, !.found = es \cap entries])
    BY DEF Idle
  <2>2. QED
    BY <1>3, <2>1 DEF BeginWalk
<1>4. ASSUME NEW es, BeginBulk(c, es)
      PROVE  \E t : Begin(c, t) /\ Begun(t)
  <2>1. Begun([Idle EXCEPT !.at = "bulk", !.missing = es \cap Unknown])
    BY DEF Idle
  <2>2. QED
    BY <1>4, <2>1 DEF BeginBulk
<1>5. \E t : Begin(c, t) /\ Begun(t)
  BY <1>1, <1>2, <1>3, <1>4 DEF Start
<1>6. QED
  BY <1>5

\* A call begins without an epoch in hand, or with the only one it is about.
LEMMA StartGoesOn ==
  ASSUME Base, NEW c \in Callers, Start(c)
  PROVE  task[c].at = "idle" /\ OnEpoch(task'[c]) /\ AtEnd(task'[c])
<1>1. PICK t : Begin(c, t) /\ \/ t.at \in {"ask", "flag"} /\ t.missing = {}
                              \/ t.at \in {"walk", "bulk"}
  BY BeginsAt
<1>2. task[c].at = "idle" /\ task'[c] = t
  BY <1>1 DEF Begin, Base, TypeOK
<1>3. QED
  BY <1>1, <1>2 DEF OnEpoch, AtEnd, Calling

InHand == \A c \in Callers : OnEpoch(task[c]) /\ AtEnd(task[c])

\* No call in progress is taken back: a step of it ends it, settles an epoch
\* for good, or leaves it fewer steps for the epoch it is about.
CallsRunDown ==
    [][\A c \in Callers : \/ task'[c] = task[c]
                          \/ task[c].at = "idle"
                          \/ RunsDown(task[c], task'[c])]_vars

LEMMA StepsGoOn ==
  ASSUME Base, InHand, [Next]_vars, NEW c \in Callers
  PROVE  /\ \/ task'[c] = task[c]
            \/ task[c].at = "idle"
            \/ RunsDown(task[c], task'[c])
         /\ OnEpoch(task'[c]) /\ AtEnd(task'[c])
<1>1. Ready(c)
  BY DEF InHand, Ready
<1>2. CASE Start(c)
  BY <1>2, StartGoesOn
<1>3. CASE Continue(c) \/ Fail(c)
  BY <1>1, <1>3, CallGoesOn DEF GoesOn
<1>4. ASSUME task'[c] = task[c]
      PROVE  OnEpoch(task'[c]) /\ AtEnd(task'[c])
  BY <1>1, <1>4 DEF Ready
<1>5. ASSUME NEW d \in Callers, d # c, Start(d) \/ Continue(d) \/ Fail(d)
      PROVE  task'[c] = task[c]
  BY <1>5, OtherCalls DEF Base, TypeOK, TaskType
<1>6. ASSUME \/ Release \/ FlagExpires \/ UNCHANGED vars
             \/ \E e \in Epochs : Conclude(e) \/ Expire(e)
      PROVE  task'[c] = task[c]
  BY <1>6, QuietSteps DEF Quiet
<1>7. QED
  BY <1>2, <1>3, <1>4, <1>5, <1>6 DEF Next

\* However long the lists and the interval, whatever fails and whatever the
\* other calls and the chain do: a call takes a bounded number of steps.
THEOREM CallsGetDone == Spec => CallsRunDown
<1>1. Init => InHand
  BY DEF Init, InHand, OnEpoch, AtEnd, Idle, Calling
<1>2. Base /\ InHand /\ [Next]_vars => InHand'
  BY StepsGoOn DEF InHand
<1>3. Base /\ InHand /\ [Next]_vars =>
          [\A c \in Callers : \/ task'[c] = task[c]
                              \/ task[c].at = "idle"
                              \/ RunsDown(task[c], task'[c])]_vars
  BY StepsGoOn
<1>4. QED
  BY <1>1, <1>2, <1>3, BaseInvariant, PTL DEF Spec, CallsRunDown

-----------------------------------------------------------------------------
(* The ranges being written back, and the calls that have them open.        *)

Backs == {"ownBack", "back", "bulkBack"}

\* A caller has a range of the bitmap read and not yet written back exactly
\* while its call is between the two.
RangesAreHeld == \A c \in Callers : opened[c] # Closed <=> task[c].at \in Backs

LEMMA WhereItGoes ==
  ASSUME NEW t \in TaskType, NEW p
  PROVE  /\ Answered(t).at \in {"idle", "refresh"}
         /\ Processed(t).at \in {"idle", "store", "ask"}
         /\ Out(t).at \in {"unwind", "clear", "last"}
         /\ Out([t EXCEPT !.path = p]).at \in {"unwind", "clear", "last"}
<1>1. Answered(t).at \in {"idle", "refresh"}
  <2>1. CASE t.missing \ {t.epoch} = {}
    BY <2>1 DEF Answered, Idle
  <2>2. CASE t.missing \ {t.epoch} # {}
    BY <2>2 DEF Answered, TaskType
  <2>3. QED
    BY <2>1, <2>2
<1>2. Processed(t).at \in {"idle", "store", "ask"}
  <2>1. CASE t.root /\ t.epoch = None
    BY <2>1 DEF Processed, Idle
  <2>2. CASE t.root /\ t.epoch # None
    BY <2>2 DEF Processed, TaskType
  <2>3. CASE ~t.root
    BY <2>3 DEF Processed, TaskType
  <2>4. QED
    BY <2>1, <2>2, <2>3
<1>3. ASSUME NEW a
      PROVE  [t EXCEPT !.at = a].at = a /\ [[t EXCEPT !.path = p] EXCEPT !.at = a].at = a
  BY DEF TaskType
<1>4. Out(t).at \in {"unwind", "clear", "last"}
  BY <1>3 DEF Out
<1>5. Out([t EXCEPT !.path = p]).at \in {"unwind", "clear", "last"}
  BY <1>3 DEF Out
<1>6. QED
  BY <1>1, <1>2, <1>4, <1>5

LEMMA OpensOwn ==
  ASSUME Base, NEW c \in Callers, opened[c] # Closed <=> task[c].at \in Backs,
         Start(c) \/ Continue(c) \/ Fail(c)
  PROVE  opened'[c] # Closed <=> task'[c].at \in Backs
<1> DEFINE t == task[c]
           u == task'[c]
<1>typed. t \in TaskType /\ opened \in [Callers -> Ranges \cup {Closed}]
  BY DEF Base, Proper, TypeOK, BitmapTypeOK
<1>quiet. UNCHANGED opened /\ t.at \notin Backs /\ u.at \notin Backs =>
              (opened'[c] # Closed <=> u.at \in Backs)
  OBVIOUS
<1>1. CASE Start(c)
  <2>1. t.at = "idle" /\ UNCHANGED opened
    BY <1>1 DEF Start, BeginRead, BeginResolve, BeginWalk, BeginBulk, Begin, bitmap
  <2>2. u.at \in {"ask", "flag", "walk", "bulk"}
    <3>1. PICK t0 : Begin(c, t0) /\ t0.at \in {"ask", "flag", "walk", "bulk"}
      BY <1>1, BeginsAt
    <3>2. QED
      BY <3>1 DEF Begin, Base, TypeOK
  <2>3. QED
    BY <1>quiet, <2>1, <2>2 DEF Backs
<1>2. CASE Ask(c) \/ Store(c)
  <2>1. t.at \in {"ask", "store"} /\ UNCHANGED opened
    BY <1>2 DEF Ask, Store, SetBits, bitmap
  <2>2. u = Answered(t) \/ u = [t EXCEPT !.at = "own"]
    BY <1>2, GoesTo DEF Ask, Store
  <2>3. u.at \in {"idle", "refresh", "own"}
    <3>1. [t EXCEPT !.at = "own"].at = "own"
      BY <1>typed DEF TaskType
    <3>2. QED
      BY <1>typed, <2>2, <3>1, WhereItGoes
  <2>4. QED
    BY <1>quiet, <2>1, <2>3 DEF Backs
<1>3. ASSUME NEW s, Own(c, s)
      PROVE  opened'[c] # Closed <=> u.at \in Backs
  <2>1. u = [t EXCEPT !.at = IF opened'[c] = Closed THEN "flag" ELSE "ownBack",
                      !.list = s, !.path = <<[epoch |-> t.epoch, list |-> <<>>]>>,
                      !.root = TRUE]
    BY <1>3, GoesTo DEF Own
  <2>2. QED
    BY <1>typed, <2>1 DEF Backs, TaskType
<1>4. ASSUME NEW s, Mark(c, s)
      PROVE  opened'[c] # Closed <=> u.at \in Backs
  <2>1. u = [t EXCEPT !.at = IF opened'[c] = Closed THEN "next" ELSE "back",
                      !.path[Len(t.path)].list = s]
    BY <1>4, GoesTo DEF Mark
  <2>2. QED
    BY <1>typed, <2>1 DEF Backs, TaskType
<1>5. CASE Bulk(c)
  <2>1. u = [t EXCEPT !.at = IF opened'[c] = Closed THEN "bulkStore" ELSE "bulkBack",
                      !.found = t.missing \cap concluded \cap WithData]
    BY <1>5, GoesTo DEF Bulk
  <2>2. QED
    BY <1>typed, <2>1 DEF Backs, TaskType
<1>6. CASE OwnBack(c) \/ Back(c) \/ BulkBack(c)
  <2>1. opened'[c] = Closed
    BY <1>typed, <1>6 DEF OwnBack, Back, BulkBack, WriteBack
  <2>2. \E a \in {"flag", "next", "bulkStore"} : u = [t EXCEPT !.at = a]
    BY <1>6, GoesTo DEF OwnBack, Back, BulkBack
  <2>3. QED
    BY <1>typed, <2>1, <2>2 DEF Backs, TaskType
<1>7. CASE Exists(c) \/ SetFlag(c) \/ ClearFlag(c) \/ Descend(c) \/ Unwind(c) \/ Last(c)
  <2>1. t.at \in Calling \ {"back"} /\ UNCHANGED opened
    BY <1>7 DEF Exists, SetFlag, ClearFlag, Descend, Unwind, Last, Calling, bitmap
  <2>2. \/ u = Processed(t) \/ u = Out(t)
        \/ u = Out([t EXCEPT !.path = SubSeq(@, 1, Len(@) - 1)])
        \/ \E a \in {"set", "mark", "last"} : u = [t EXCEPT !.at = a]
        \/ u = [t EXCEPT !.at = "mark",
                         !.path = Append(@, [epoch |-> Top(t).list[1], list |-> <<>>])]
    BY <1>7, GoesTo DEF Exists, SetFlag, ClearFlag, Descend, Unwind, Last
  <2>3. u.at \notin Backs
    <3>1. ASSUME NEW a, NEW p
          PROVE  [t EXCEPT !.at = a].at = a /\ [t EXCEPT !.at = a, !.path = p].at = a
      BY <1>typed DEF TaskType
    <3>2. CASE u = Processed(t) \/ u = Out(t)
      BY <1>typed, <3>2, WhereItGoes DEF Backs
    <3>3. CASE u = Out([t EXCEPT !.path = SubSeq(@, 1, Len(@) - 1)])
      <4>1. PICK p : u = Out([t EXCEPT !.path = p])
        BY <1>typed, <3>3 DEF TaskType
      <4>2. u.at \in {"unwind", "clear", "last"}
        BY <1>typed, <4>1, WhereItGoes
      <4>3. QED
        BY <4>2 DEF Backs
    <3>4. ASSUME NEW a \in {"set", "mark", "last"}, u = [t EXCEPT !.at = a]
          PROVE  u.at \notin Backs
      BY <3>1, <3>4 DEF Backs
    <3>5. CASE u = [t EXCEPT !.at = "mark",
                             !.path = Append(@, [epoch |-> Top(t).list[1], list |-> <<>>])]
      BY <1>typed, <3>5 DEF TaskType, Backs
    <3>6. QED
      BY <2>2, <3>2, <3>3, <3>4, <3>5
  <2>4. QED
    BY <1>quiet, <2>1, <2>3 DEF Backs, Calling
<1>8. CASE Walk(c) \/ Refresh(c) \/ BulkStore(c)
  <2>1. t.at \in {"walk", "refresh", "bulkStore"} /\ UNCHANGED opened
    BY <1>8 DEF Walk, Refresh, BulkStore, bitmap
  <2>2. u.at \in {"ask", "mark", "walk", "idle"}
    <3>1. CASE Walk(c)
      <4> DEFINE e == LastOf(t.missing)
                 from == Closest(e, t.known) \cap t.found
      <4>1. CASE from = {}
        <5>1. u = [t EXCEPT !.at = "ask", !.epoch = e]
          BY <3>1, <4>1, GoesTo DEF Walk
        <5> HIDE DEF e, from
        <5>2. QED
          BY <1>typed, <5>1 DEF TaskType
      <4>2. CASE from # {}
        <5> DEFINE f == t.found \ from
                   p == <<[epoch |-> LastOf(from), list |-> <<>>]>>
        <5>1. u = [t EXCEPT !.at = "mark", !.epoch = e, !.found = f, !.path = p]
          BY <3>1, <4>2, GoesTo DEF Walk
        <5> HIDE DEF e, from, f, p
        <5>2. QED
          BY <1>typed, <5>1 DEF TaskType
      <4>3. QED
        BY <4>1, <4>2
    <3>2. CASE Refresh(c)
      <4>1. u = Idle \/ \E m : u = [t EXCEPT !.at = "walk", !.missing = m]
        BY <3>2, GoesTo DEF Refresh
      <4>2. ASSUME NEW m
            PROVE  [t EXCEPT !.at = "walk", !.missing = m].at = "walk"
        BY <1>typed DEF TaskType
      <4>3. Idle.at = "idle"
        BY DEF Idle
      <4>4. CASE u = Idle
        BY <4>3, <4>4
      <4>5. CASE u # Idle
        <5>1. PICK m : u = [t EXCEPT !.at = "walk", !.missing = m]
          BY <4>1, <4>5
        <5>2. QED
          BY <4>2, <5>1
      <4>6. QED
        BY <4>4, <4>5
    <3>3. CASE BulkStore(c)
      BY <3>3, GoesTo DEF BulkStore, Idle
    <3>4. QED
      BY <1>8, <3>1, <3>2, <3>3
  <2>3. QED
    BY <1>quiet, <2>1, <2>2 DEF Backs
<1>9. CASE Fail(c)
  <2>1. opened'[c] = Closed
    BY <1>typed, <1>9 DEF Fail, ProcessFails, Crash, OwnFails
  <2>2. \/ u = Processed(t) \/ u = Idle
        \/ u = Out([t EXCEPT !.path = SubSeq(@, 1, Len(@) - 1)])
        \/ \E s : u = [t EXCEPT !.at = "store", !.list = s, !.path = <<>>, !.root = FALSE]
    BY <1>9, GoesTo DEF Fail, ProcessFails, Crash, OwnFails
  <2>3. u.at \notin Backs
    <3>1. ASSUME NEW s
          PROVE  [t EXCEPT !.at = "store", !.list = s, !.path = <<>>, !.root = FALSE].at = "store"
      BY <1>typed DEF TaskType
    <3>2. Idle.at = "idle"
      BY DEF Idle
    <3>3. CASE u = Processed(t) \/ u = Idle
      BY <1>typed, <3>2, <3>3, WhereItGoes DEF Backs
    <3>4. CASE u = Out([t EXCEPT !.path = SubSeq(@, 1, Len(@) - 1)])
      <4>1. PICK p : u = Out([t EXCEPT !.path = p])
        BY <1>typed, <3>4 DEF TaskType
      <4>2. u.at \in {"unwind", "clear", "last"}
        BY <1>typed, <4>1, WhereItGoes
      <4>3. QED
        BY <4>2 DEF Backs
    <3>5. ASSUME NEW s, u = [t EXCEPT !.at = "store", !.list = s, !.path = <<>>, !.root = FALSE]
          PROVE  u.at \notin Backs
      BY <3>1, <3>5 DEF Backs
    <3>6. QED
      BY <2>2, <3>3, <3>4, <3>5
  <2>4. QED
    BY <2>1, <2>3
<1>10. QED
  BY <1>1, <1>2, <1>3, <1>4, <1>5, <1>6, <1>7, <1>8, <1>9 DEF Continue

LEMMA OpensNoOther ==
  ASSUME Base, NEW c \in Callers, NEW d \in Callers, d # c,
         Start(c) \/ Continue(c) \/ Fail(c)
  PROVE  opened'[d] = opened[d]
<1>typed. opened \in [Callers -> Ranges \cup {Closed}]
  BY DEF Base, TypeOK, BitmapTypeOK
<1>1. UNCHANGED opened \/ \E r : opened' = [opened EXCEPT ![c] = r]
  BY DEF Start, BeginRead, BeginResolve, BeginWalk, BeginBulk, Begin, Continue, Ask, Store,
         Own, Mark, Bulk, OwnBack, Back, BulkBack, Exists, SetFlag, ClearFlag, Descend,
         Unwind, Last, Walk, Refresh, BulkStore, Fail, ProcessFails, Crash, OwnFails,
         SetBits, SetBitsInRange, WriteBack, bitmap
<1>2. QED
  BY <1>typed, <1>1

\* Whichever calls overlap, fail or stop: none waits to write back a range it
\* has not read, and none ends or goes on with one half written.
THEOREM RangesHeld == Spec => []RangesAreHeld
<1>1. Init => RangesAreHeld
  BY DEF Init, BitmapInit, RangesAreHeld, Idle, Backs
<1>2. ASSUME Base, RangesAreHeld, [Next]_vars, NEW c \in Callers
      PROVE  opened'[c] # Closed <=> task'[c].at \in Backs
  <2> USE <1>2
  <2>1. CASE Start(c) \/ Continue(c) \/ Fail(c)
    BY <2>1, OpensOwn DEF RangesAreHeld
  <2>2. ASSUME NEW d \in Callers, d # c, Start(d) \/ Continue(d) \/ Fail(d)
        PROVE  task'[c] = task[c] /\ opened'[c] = opened[c]
    BY <2>2, OtherCalls, OpensNoOther DEF Base, TypeOK, TaskType
  <2>3. ASSUME \/ Release \/ FlagExpires \/ UNCHANGED vars
               \/ \E e \in Epochs : Conclude(e) \/ Expire(e)
        PROVE  task'[c] = task[c] /\ opened'[c] = opened[c]
    BY <2>3 DEF Release, FlagExpires, Conclude, Expire, vars, bitmap
  <2>4. QED
    BY <2>1, <2>2, <2>3 DEF Next, RangesAreHeld
<1>3. Base /\ RangesAreHeld /\ [Next]_vars => RangesAreHeld'
  BY <1>2 DEF RangesAreHeld
<1>4. QED
  BY <1>1, <1>3, BaseInvariant, PTL DEF Spec

-----------------------------------------------------------------------------
(* No holes: the bits a list asks for are set before its frame is left.    *)

Missed(f) == {Position(e) : e \in LeftOut(f.list, f.epoch - 1)}

\* The bits of the frames of a call that read its range and asked as it did:
\* those of the last frame may still have to be written.
MarkedWith(t, range, done) ==
    \A i \in DOMAIN t.path :
        Missed(t.path[i]) \subseteq
            IF t.at = "back" /\ i = Len(t.path) THEN range.new ELSE done

Marked(c) == MarkedWith(task[c], opened[c], asked)

\* Each frame is an earlier one whose bits were set, or has no list yet.
SameFrames(t, u) ==
    /\ u.at # "back"
    /\ \A i \in DOMAIN u.path :
          \/ u.path[i].list = <<>>
          \/ /\ i \in DOMAIN t.path /\ u.path[i] = t.path[i]
             /\ t.at = "back" => i # Len(t.path)

LEMMA SameFramesMarked ==
  ASSUME NEW t, NEW u, NEW range, NEW range2, NEW done, NEW done2,
         MarkedWith(t, range, done), SameFrames(t, u), done \subseteq done2
  PROVE  MarkedWith(u, range2, done2)
<1>1. ASSUME NEW i \in DOMAIN u.path
      PROVE  Missed(u.path[i]) \subseteq done2
  <2>1. CASE u.path[i].list = <<>>
    BY <2>1 DEF Missed, LeftOut
  <2>2. CASE i \in DOMAIN t.path /\ u.path[i] = t.path[i] /\ (t.at = "back" => i # Len(t.path))
    BY <2>2 DEF MarkedWith
  <2>3. QED
    BY <2>1, <2>2 DEF SameFrames
<1>2. QED
  BY <1>1 DEF MarkedWith, SameFrames

\* One frame less.
LEMMA ReturnFrames ==
  ASSUME NEW t, Proper(t), Len(t.path) > 1
  PROVE  SameFrames(t, Out([t EXCEPT !.path = SubSeq(@, 1, Len(@) - 1)]))
<1> DEFINE p == SubSeq(t.path, 1, Len(t.path) - 1)
           u == Out([t EXCEPT !.path = p])
<1>1. t \in TaskType /\ t.path \in Seq(Frames)
  BY DEF Proper, TaskType
<1>2. p \in Seq(Frames) /\ Len(p) = Len(t.path) - 1 /\ \A i \in 1..Len(p) : p[i] = t.path[i]
  BY <1>1, BeforeLast
<1>3. u = Out([t EXCEPT !.path = SubSeq(@, 1, Len(@) - 1)])
  BY <1>1 DEF TaskType
<1>4. DOMAIN p = 1..Len(p) /\ DOMAIN t.path = 1..Len(t.path) /\ Len(t.path) \in Nat
  BY <1>1, <1>2
<1> HIDE DEF p
<1>5. u.path = p
  BY <1>1 DEF Out, TaskType
<1>6. u.at # "back"
  BY <1>1, WhereItGoes
<1> HIDE DEF u
<1>7. SameFrames(t, u)
  BY <1>2, <1>4, <1>5, <1>6 DEF SameFrames
<1>8. QED
  BY <1>3, <1>7

LEMMA NoFrames ==
  ASSUME NEW t, Proper(t)
  PROVE  /\ SameFrames(t, Idle) /\ SameFrames(t, Processed(t))
         /\ SameFrames(t, Answered(t))
         /\ (t.at # "back" => SameFrames(t, Out(t)))
<1>1. t \in TaskType
  BY DEF Proper
<1>2. Idle.path = <<>> /\ Idle.at = "idle"
  BY DEF Idle
<1>3. SameFrames(t, Idle)
  BY <1>2 DEF SameFrames
<1>4. Processed(t).path = <<>> /\ Processed(t).at # "back"
  <2>1. CASE t.root /\ t.epoch = None
    BY <1>2, <2>1 DEF Processed
  <2>2. CASE ~(t.root /\ t.epoch = None)
    BY <1>1, <2>2 DEF Processed, TaskType
  <2>3. QED
    BY <2>1, <2>2
<1>5. SameFrames(t, Processed(t))
  BY <1>4 DEF SameFrames
<1>6. Answered(t).path = <<>> /\ Answered(t).at # "back"
  <2>1. CASE t.missing \ {t.epoch} = {}
    BY <1>2, <2>1 DEF Answered
  <2>2. CASE t.missing \ {t.epoch} # {}
    BY <1>1, <2>2 DEF Answered, TaskType
  <2>3. QED
    BY <2>1, <2>2
<1>7. SameFrames(t, Answered(t))
  BY <1>6 DEF SameFrames
<1>8. ASSUME t.at # "back"
      PROVE  SameFrames(t, Out(t))
  <2>1. Out(t).path = t.path
    BY <1>1 DEF Out, TaskType
  <2>2. Out(t).at # "back"
    BY <1>1, WhereItGoes
  <2>3. QED
    BY <1>8, <2>1, <2>2 DEF SameFrames
<1>9. QED
  BY <1>3, <1>5, <1>7, <1>8
\* Of a step that is of no list, the frames.
LEMMA FramesStay ==
  ASSUME Base, NEW c \in Callers,
         \/ Start(c) \/ Fail(c)
         \/ Ask(c) \/ OwnBack(c) \/ Store(c) \/ Exists(c) \/ SetFlag(c)
         \/ Descend(c) \/ Unwind(c) \/ ClearFlag(c) \/ Last(c)
         \/ Walk(c) \/ Refresh(c) \/ Bulk(c) \/ BulkBack(c) \/ BulkStore(c)
         \/ \E s : Own(c, s)
  PROVE  SameFrames(task[c], task'[c])
<1> DEFINE t == task[c]
           u == task'[c]
<1>typed. t \in TaskType /\ Proper(t) /\ t.path \in Seq(Frames)
  BY DEF Base, Proper, TaskType
<1>empty. ASSUME u.path = <<>>, u.at # "back"
          PROVE  SameFrames(t, u)
  BY <1>empty DEF SameFrames
<1>first. ASSUME NEW e, u.path = <<[epoch |-> e, list |-> <<>>]>>, u.at # "back"
          PROVE  SameFrames(t, u)
  BY <1>first DEF SameFrames
<1>same. ASSUME u.path = t.path, t.at # "back", u.at # "back"
         PROVE  SameFrames(t, u)
  BY <1>same DEF SameFrames
<1>to. ASSUME NEW a
       PROVE  [t EXCEPT !.at = a].at = a /\ [t EXCEPT !.at = a].path = t.path
  BY <1>typed DEF TaskType
<1>1. CASE Start(c)
  <2>1. ASSUME NEW e, BeginRead(c, e)
        PROVE  u.path = <<>> /\ u.at = "ask"
    BY <2>1 DEF BeginRead, Begin, Base, TypeOK, Idle
  <2>2. ASSUME NEW e, BeginResolve(c, e)
        PROVE  u.path = <<[epoch |-> e, list |-> <<>>]>> /\ u.at = "flag"
    BY <2>2 DEF BeginResolve, Begin, Base, TypeOK, Idle
  <2>3. ASSUME NEW es, BeginWalk(c, es)
        PROVE  u.path = <<>> /\ u.at = "walk"
    BY <2>3 DEF BeginWalk, Begin, Base, TypeOK, Idle
  <2>4. ASSUME NEW es, BeginBulk(c, es)
        PROVE  u.path = <<>> /\ u.at = "bulk"
    BY <2>4 DEF BeginBulk, Begin, Base, TypeOK, Idle
  <2>5. QED
    BY <1>1, <1>empty, <1>first, <2>1, <2>2, <2>3, <2>4 DEF Start
<1>2. CASE Fail(c)
  <2>1. \/ u = Processed(t) \/ u = Idle
        \/ Len(t.path) > 1 /\ u = Out([t EXCEPT !.path = SubSeq(@, 1, Len(@) - 1)])
        \/ \E s : u = [t EXCEPT !.at = "store", !.list = s, !.path = <<>>, !.root = FALSE]
    BY <1>2, GoesTo DEF Fail, ProcessFails, Crash, OwnFails
  <2>2. ASSUME NEW s, u = [t EXCEPT !.at = "store", !.list = s, !.path = <<>>, !.root = FALSE]
        PROVE  u.path = <<>> /\ u.at # "back"
    BY <1>typed, <2>2 DEF TaskType
  <2>3. CASE u = Processed(t) \/ u = Idle
    BY <1>typed, <2>3, NoFrames
  <2>4. CASE Len(t.path) > 1 /\ u = Out([t EXCEPT !.path = SubSeq(@, 1, Len(@) - 1)])
    BY <1>typed, <2>4, ReturnFrames
  <2>5. CASE \E s : u = [t EXCEPT !.at = "store", !.list = s, !.path = <<>>, !.root = FALSE]
    <3>1. u.path = <<>> /\ u.at # "back"
      BY <2>2, <2>5
    <3>2. QED
      BY <1>empty, <3>1
  <2> HIDE DEF t, u
  <2>6. QED
    BY <2>1, <2>3, <2>4, <2>5
<1>3. CASE Ask(c) \/ Store(c)
  <2>1. t.at # "back" /\ (u = Answered(t) \/ u = [t EXCEPT !.at = "own"])
    BY <1>3, GoesTo DEF Ask, Store
  <2>2. QED
    BY <1>typed, <1>same, <1>to, <2>1, NoFrames
<1>4. CASE OwnBack(c) \/ BulkBack(c) \/ Exists(c) \/ SetFlag(c) \/ ClearFlag(c)
  <2>1. /\ t.at # "back"
        /\ \/ u = Processed(t)
           \/ \E a \in {"flag", "bulkStore", "set", "mark", "last"} : u = [t EXCEPT !.at = a]
    BY <1>4, GoesTo DEF OwnBack, BulkBack, Exists, SetFlag, ClearFlag
  <2>2. QED
    BY <1>typed, <1>same, <1>to, <2>1, NoFrames
<1>5. CASE Unwind(c) \/ Last(c)
  <2>1. CASE Unwind(c)
    <3>1. Len(t.path) > 1 /\ u = Out([t EXCEPT !.path = SubSeq(@, 1, Len(@) - 1)])
      BY <1>typed, <2>1, GoesTo DEF Unwind, Proper, Framed
    <3>2. QED
      BY <1>typed, <3>1, ReturnFrames
  <2>2. CASE Last(c)
    <3>1. u = Processed(t)
      BY <2>2, GoesTo DEF Last
    <3>2. QED
      BY <1>typed, <3>1, NoFrames
  <2>3. QED
    BY <1>5, <2>1, <2>2
<1>6. CASE Descend(c)
  <2> DEFINE f == [epoch |-> Top(t).list[1], list |-> <<>>]
             p == Append(t.path, f)
  <2>1. t.at = "next" /\ (u = Out(t) \/ u = [t EXCEPT !.at = "mark", !.path = p])
    BY <1>6, GoesTo DEF Descend
  <2>2. f.list = <<>>
    OBVIOUS
  <2> HIDE DEF f
  <2>3. /\ Len(t.path) \in Nat /\ DOMAIN t.path = 1..Len(t.path)
        /\ DOMAIN p = 1..(Len(t.path) + 1) /\ p[Len(t.path) + 1] = f
        /\ \A i \in 1..Len(t.path) : p[i] = t.path[i]
    BY <1>typed
  <2> HIDE DEF p
  <2>4. ASSUME u = [t EXCEPT !.at = "mark", !.path = p]
        PROVE  SameFrames(t, u)
    <3>1. u.at = "mark" /\ u.path = p
      BY <1>typed, <2>4 DEF TaskType
    <3>2. \A i \in DOMAIN p : p[i].list = <<>> \/ (i \in DOMAIN t.path /\ p[i] = t.path[i])
      BY <2>2, <2>3
    <3>3. QED
      BY <2>1, <3>1, <3>2 DEF SameFrames
  <2>5. QED
    BY <1>typed, <2>1, <2>4, NoFrames
<1>7. CASE Walk(c)
  <2> DEFINE e == LastOf(t.missing)
             from == Closest(e, t.known) \cap t.found
             p == <<[epoch |-> LastOf(from), list |-> <<>>]>>
             k == t.found \ from
  <2>1. t.at = "walk" /\ \/ u = [t EXCEPT !.at = "ask", !.epoch = e]
                         \/ u = [t EXCEPT !.at = "mark", !.epoch = e, !.found = k, !.path = p]
    BY <1>7, GoesTo DEF Walk
  <2> HIDE DEF e, k
  <2>2. ASSUME u = [t EXCEPT !.at = "ask", !.epoch = e]
        PROVE  u.path = t.path /\ u.at # "back"
    BY <1>typed, <2>2 DEF TaskType
  <2>3. ASSUME u = [t EXCEPT !.at = "mark", !.epoch = e, !.found = k, !.path = p]
        PROVE  u.path = p /\ u.at # "back"
    <3> HIDE DEF p
    <3>1. QED
      BY <1>typed, <2>3 DEF TaskType
  <2>4. QED
    BY <1>same, <1>first, <2>1, <2>2, <2>3
<1>8. CASE Refresh(c) \/ BulkStore(c)
  <2>1. t.at # "back" /\ (u = Idle \/ \E m : u = [t EXCEPT !.at = "walk", !.missing = m])
    BY <1>8, GoesTo DEF Refresh, BulkStore
  <2>2. ASSUME NEW m, u = [t EXCEPT !.at = "walk", !.missing = m]
        PROVE  u.path = t.path /\ u.at # "back"
    BY <1>typed, <2>2 DEF TaskType
  <2>3. QED
    BY <1>typed, <1>same, <2>1, <2>2, NoFrames
<1>9. CASE Bulk(c)
  <2>1. /\ t.at = "bulk"
        /\ \E a \in {"bulkStore", "bulkBack"} : \E d : u = [t EXCEPT !.at = a, !.found = d]
    BY <1>9, GoesTo DEF Bulk
  <2>2. ASSUME NEW a \in {"bulkStore", "bulkBack"}, NEW d, u = [t EXCEPT !.at = a, !.found = d]
        PROVE  u.path = t.path /\ u.at # "back"
    BY <1>typed, <2>2 DEF TaskType
  <2>3. QED
    BY <1>same, <2>1, <2>2
<1>10. ASSUME NEW s, Own(c, s)
       PROVE  SameFrames(t, u)
  <2> DEFINE a == IF opened'[c] = Closed THEN "flag" ELSE "ownBack"
             p == <<[epoch |-> t.epoch, list |-> <<>>]>>
  <2>1. u = [t EXCEPT !.at = a, !.list = s, !.path = p, !.root = TRUE]
    BY <1>10, GoesTo DEF Own
  <2>2. a # "back"
    OBVIOUS
  <2> HIDE DEF a, p
  <2>3. u.path = p /\ u.at # "back"
    BY <1>typed, <2>1, <2>2 DEF TaskType
  <2>4. QED
    BY <1>first, <2>3 DEF p
<1>11. QED
  BY <1>1, <1>2, <1>3, <1>4, <1>5, <1>6, <1>7, <1>8, <1>9, <1>10

LEMMA MarkLeaves ==
  ASSUME Base, NEW c \in Callers, NEW s, Mark(c, s)
  PROVE  LeftOut(s, Top(task[c]).epoch - 1) \subseteq Numbers
<1>1. Proper(task[c]) /\ task[c].path # <<>>
  BY DEF Base, Mark, Proper, Framed, Calling
<1>2. QED
  BY <1>1, TopEntries, GapsOfList DEF Mark

\* What a list leaves out is set, or read for to be set.
LEMMA MarkMarks ==
  ASSUME Base, NEW c \in Callers, NEW s, Mark(c, s), Marked(c)
  PROVE  Marked(c)'
<1> DEFINE t == task[c]
           u == task'[c]
           n == Len(t.path)
           e == t.path[n].epoch
           left == LeftOut(s, e - 1)
           f == [t.path[n] EXCEPT !.list = s]
           p == [t.path EXCEPT ![n] = f]
           a == IF opened'[c] = Closed THEN "next" ELSE "back"
<1>1. /\ t \in TaskType /\ t.path \in Seq(Frames) /\ t.path # <<>> /\ t.at = "mark"
      /\ opened \in [Callers -> Ranges \cup {Closed}]
  BY DEF Mark, Base, TypeOK, BitmapTypeOK, Proper, TaskType, Framed, Calling
<1>2. n \in 1..n /\ DOMAIN t.path = 1..n /\ t.path[n] \in Frames
  BY <1>1
<1>3. f.epoch = e /\ f.list = s
  BY <1>2 DEF Frames
<1>4. /\ u = [t EXCEPT !.at = a, !.path[n].list = s]
      /\ (left = {} /\ UNCHANGED bitmap) \/ (left # {} /\ SetBitsInRange(c, left))
  BY GoesTo DEF Mark, Top
<1>5. DOMAIN p = 1..n /\ p[n] = f /\ \A i \in 1..n : i # n => p[i] = t.path[i]
  BY <1>1, <1>2
<1> HIDE DEF f
<1>6. p = [t.path EXCEPT ![n].list = s]
  BY DEF f
<1> HIDE DEF a, p
<1>7. u.at = a /\ u.path = p
  BY <1>1, <1>4, <1>6 DEF TaskType
<1>8. Missed(f) = {Position(d) : d \in left}
  BY <1>3 DEF Missed
<1> HIDE DEF left
<1>9. /\ asked \subseteq asked'
      /\ IF a = "back" THEN Missed(f) \subseteq opened'[c].new ELSE Missed(f) \subseteq asked'
  <2>1. CASE left = {}
    BY <1>4, <1>8, <2>1 DEF bitmap
  <2>2. CASE left # {} /\ SetBits(left)
    BY <1>4, <1>8, <2>2 DEF SetBits, SetBitsInRange, a
  <2>3. CASE left # {} /\ ~SetBits(left)
    <3>1. /\ opened' = [opened EXCEPT ![c] = RangeOf(left)] /\ asked' = asked
          /\ opened[c] = Closed
      BY <1>4, <2>3 DEF SetBitsInRange
    <3>2. opened'[c] = RangeOf(left) /\ RangeOf(left).new = {Position(d) : d \in left}
      BY <1>1, <3>1 DEF RangeOf
    <3>3. left \in SUBSET Numbers
      BY MarkLeaves DEF left, Top
    <3>4. opened'[c] # Closed
      <4>1. BitmapTypeOK
        BY DEF Base, TypeOK
      <4>2. RangeOf(left) \in Ranges
        BY <2>3, <3>3, <4>1, RangeTyped
      <4>3. QED
        BY <3>2, <4>2, ClosedIsNoRange
    <3>5. QED
      BY <1>8, <3>1, <3>2, <3>4 DEF a
  <2>4. QED
    BY <1>4, <2>1, <2>2, <2>3
<1>10. \A i \in 1..n : i # n => Missed(p[i]) \subseteq asked
  BY <1>1, <1>2, <1>5 DEF Marked, MarkedWith
<1>11. QED
  BY <1>2, <1>5, <1>7, <1>9, <1>10 DEF Marked, MarkedWith

LEMMA MarksKept ==
  ASSUME Base, NEW c \in Callers, Marked(c), asked \subseteq asked',
         Start(c) \/ Continue(c) \/ Fail(c)
  PROVE  Marked(c)'
<1>1. ASSUME NEW s, Mark(c, s)
      PROVE  Marked(c)'
  BY <1>1, MarkMarks
<1>2. CASE Back(c)
  <2> DEFINE t == task[c]
  <2>1. t \in TaskType /\ opened \in [Callers -> Ranges \cup {Closed}]
    BY DEF Base, TypeOK, BitmapTypeOK, Proper
  <2>2. t.at = "back" /\ task'[c] = [t EXCEPT !.at = "next"]
    BY <1>2, GoesTo DEF Back
  <2>3. task'[c].at = "next" /\ task'[c].path = t.path
    BY <2>1, <2>2 DEF TaskType
  <2>4. asked' = asked \cup opened[c].new
    BY <1>2 DEF Back, WriteBack
  <2>5. QED
    BY <2>2, <2>3, <2>4 DEF Marked, MarkedWith
<1>3. CASE SameFrames(task[c], task'[c])
  BY <1>3, SameFramesMarked DEF Marked
<1>4. QED
  BY <1>1, <1>2, <1>3, FramesStay DEF Continue

LEMMA AskedGrows ==
  ASSUME Base, [Next]_vars
  PROVE  asked \subseteq asked'
<1>1. BitmapStep
  BY EveryStep, StepForClaims DEF SetsExcused, Base, TypeOK
<1>2. QED
  BY <1>1 DEF BitmapStep, bitmap, SetBits, SetBitsInRange, WriteBack, Abandon

LEMMA MarkedInvariant == Spec => [](\A c \in Callers : Marked(c))
<1>1. Init => \A c \in Callers : Marked(c)
  BY DEF Init, Idle, Marked, MarkedWith
<1>2. ASSUME Base, \A d \in Callers : Marked(d), [Next]_vars, NEW c \in Callers
      PROVE  Marked(c)'
  <2> USE <1>2
  <2>1. asked \subseteq asked'
    BY AskedGrows
  <2>2. CASE Start(c) \/ Continue(c) \/ Fail(c)
    BY <2>1, <2>2, MarksKept
  <2>3. CASE task'[c] = task[c] /\ opened'[c] = opened[c]
    BY <2>1, <2>3 DEF Marked, MarkedWith
  <2>4. ASSUME NEW d \in Callers, d # c, Start(d) \/ Continue(d) \/ Fail(d)
        PROVE  task'[c] = task[c] /\ opened'[c] = opened[c]
    BY <2>4, OtherCalls, OpensNoOther DEF Base, TypeOK, TaskType
  <2>5. ASSUME \/ Release \/ FlagExpires \/ UNCHANGED vars
               \/ \E e \in Epochs : Conclude(e) \/ Expire(e)
        PROVE  task'[c] = task[c] /\ opened'[c] = opened[c]
    BY <2>5 DEF Release, FlagExpires, Conclude, Expire, vars, bitmap
  <2>6. QED
    BY <2>2, <2>3, <2>4, <2>5 DEF Next
<1>3. Base /\ (\A c \in Callers : Marked(c)) /\ [Next]_vars => (\A c \in Callers : Marked(c))'
  BY <1>2
<1>4. QED
  BY <1>1, <1>3, BaseInvariant, PTL DEF Spec

\* A caller that comes to the end of a snapshot's list leaves each epoch from
\* the first of the list to the snapshot with an entry or its bit, at any
\* depth, whatever failed below and whichever calls overlap.
THEOREM ListsLeaveNoHoles == Spec => NoHoles
<1> DEFINE NoHole(c) == LET f == Top(task[c])
                        IN f.list # <<>> =>
                              \A e \in f.list[1]..(f.epoch - 1) :
                                  \/ e \in entries'
                                  \/ Position(e) \in bits' \cup raced'
           Leaves == \A c \in Callers : Unwind(c) \/ Last(c) => NoHole(c)
<1>1. ASSUME Base, BitsStay, NEW c \in Callers, Marked(c), Unwind(c) \/ Last(c)
      PROVE  NoHole(c)
  <2> DEFINE t == task[c]
             f == Top(t)
  <2>1. /\ t.path \in Seq(Frames) /\ t.path # <<>> /\ t.at # "back"
        /\ bits' = bits /\ raced' = raced /\ entries' = entries \cup Entries(f.list)
    BY <1>1 DEF Base, Proper, TaskType, Framed, Calling, Unwind, Last, bitmap
  <2>2. Missed(f) \subseteq asked
    BY <1>1, <2>1 DEF Marked, MarkedWith, Top
  <2>3. ASSUME f.list # <<>>, NEW e \in f.list[1]..(f.epoch - 1)
        PROVE  e \in entries' \/ Position(e) \in bits' \cup raced'
    <3>1. e \in Entries(f.list) \/ e \in LeftOut(f.list, f.epoch - 1)
      BY <2>3 DEF LeftOut
    <3>2. e \in LeftOut(f.list, f.epoch - 1) => Position(e) \in asked
      BY <2>2 DEF Missed
    <3>3. QED
      BY <1>1, <2>1, <3>1, <3>2 DEF BitsStay
  <2>4. QED
    BY <2>3
<1>2. Base /\ BitsStay /\ (\A c \in Callers : Marked(c)) => Leaves
  BY <1>1
<1>3. Leaves => [Leaves]_vars
  OBVIOUS
<1>4. Spec => [][Leaves]_vars
  BY <1>2, <1>3, BaseInvariant, BitsAreKept, MarkedInvariant, PTL
<1>5. QED
  BY <1>4 DEF NoHoles
=============================================================================
