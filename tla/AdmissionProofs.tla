-------------------------- MODULE AdmissionProofs --------------------------
(***************************************************************************)
(* The password file and its watchers: the passwords in use are those of   *)
(* the file once its changes were taken.                                   *)
(* Glob: it answers what it should for every value and every pattern.      *)
(* Roles: the decisions are those of the role file, for any role file.     *)
(***************************************************************************)
EXTENDS Admission, TLAPS, WellFoundedInduction

-----------------------------------------------------------------------------
(* The password file.                                                      *)

\* The password file's part of the types.
FileTypeOK ==
    /\ file \in Contents
    /\ editing \in {"idle", "writing", "written"}
    /\ file = Partial => editing = "writing"
    /\ watcher \in [Watchers -> {"off", "watching", "dead"}]
    /\ changed \in [Watchers -> BOOLEAN]
    /\ loading \in [Watchers -> {None} \cup Contents]
    /\ \A w \in Watchers : loading[w] # None => watcher[w] = "watching"
    /\ passwords \in SUBSET Users
    /\ told \subseteq Watchers

LEMMA ContentsFacts ==
    /\ {} \in Contents /\ Partial \in Contents
    /\ \A content \in SUBSET Users : content \in Contents /\ content # Partial
    /\ \A content \in Contents : content # None
<1>1. \A content \in SUBSET Users : content # Partial
  BY ConstantsAssumption DEF Partial
<1>2. \A content \in Contents : content # None
  BY ConstantsAssumption
<1> QED
  BY <1>1, <1>2 DEF Contents

LEMMA ChangeTypes ==
    ASSUME FileTypeOK, NEW content \in Contents, Change(content),
           editing' \in {"idle", "writing", "written"}, content = Partial => editing' = "writing"
    PROVE  FileTypeOK'
<1>1. changed' \in [Watchers -> BOOLEAN]
  BY DEF Change, FileTypeOK
<1>2. told' \subseteq Watchers
  BY DEF Change, Told
<1> QED
  BY <1>1, <1>2 DEF Change, FileTypeOK

LEMMA FileTypeStep ==
    ASSUME FileTypeOK, Next
    PROVE  FileTypeOK'
<1>1. CASE Truncate
  BY <1>1, ChangeTypes, ContentsFacts DEF Truncate
<1>2. CASE WriteText
  <2>1. CASE Change(Partial) /\ UNCHANGED editing
    BY <1>2, <2>1, ChangeTypes, ContentsFacts DEF WriteText
  <2>2. ASSUME NEW content \in SUBSET Users, Change(content), editing' = "written"
        PROVE  FileTypeOK'
    BY <2>2, ChangeTypes, ContentsFacts
  <2> QED
    BY <1>2, <2>1, <2>2 DEF WriteText
<1>3. CASE CloseFile
  BY <1>3, ContentsFacts DEF CloseFile, FileTypeOK
<1>4. ASSUME NEW w \in Watchers, Enable(w) PROVE FileTypeOK'
  <2>1. watcher' \in [Watchers -> {"off", "watching", "dead"}]
    BY <1>4 DEF Enable, FileTypeOK
  <2>2. \A v \in Watchers : watcher'[v] = watcher[v] \/ watcher'[v] = "watching"
    BY <1>4 DEF Enable, FileTypeOK
  <2> QED
    BY <1>4, <2>1, <2>2 DEF Enable, FileTypeOK
<1>5. ASSUME NEW w \in Watchers, OnChanged(w) PROVE FileTypeOK'
  <2>1. changed' \in [Watchers -> BOOLEAN]
    BY <1>5 DEF OnChanged, FileTypeOK
  <2>2. CASE loading' = [loading EXCEPT ![w] = file] /\ UNCHANGED watcher
    <3>1. loading' \in [Watchers -> {None} \cup Contents]
      BY <2>2 DEF FileTypeOK
    <3>2. \A v \in Watchers : loading'[v] = loading[v] \/ watcher[v] = "watching"
      BY <1>5, <2>2 DEF OnChanged, FileTypeOK
    <3> QED
      BY <1>5, <2>1, <2>2, <3>1, <3>2 DEF OnChanged, FileTypeOK
  <2>3. CASE watcher' = [watcher EXCEPT ![w] = "dead"] /\ UNCHANGED loading
    <3>1. watcher' \in [Watchers -> {"off", "watching", "dead"}]
      BY <2>3 DEF FileTypeOK
    <3>2. \A v \in Watchers : v = w \/ watcher'[v] = watcher[v]
      BY <2>3 DEF FileTypeOK
    <3> QED
      BY <1>5, <2>1, <2>3, <3>1, <3>2 DEF OnChanged, FileTypeOK
  <2> QED
    BY <1>5, <2>2, <2>3 DEF OnChanged
<1>6. ASSUME NEW w \in Watchers, Assign(w) PROVE FileTypeOK'
  <2>1. watcher' \in [Watchers -> {"off", "watching", "dead"}]
    BY <1>6 DEF Assign, FileTypeOK
  <2>2. loading' \in [Watchers -> {None} \cup Contents]
    BY <1>6 DEF Assign, FileTypeOK
  <2>3. \A v \in Watchers : loading'[v] # None => v # w /\ loading[v] # None
    BY <1>6 DEF Assign, FileTypeOK
  <2>4. \A v \in Watchers : v # w => watcher'[v] = watcher[v]
    BY <1>6 DEF Assign, FileTypeOK
  <2>5. passwords' \in SUBSET Users
    BY <1>6 DEF Assign, FileTypeOK, Contents
  <2> QED
    BY <1>6, <2>1, <2>2, <2>3, <2>4, <2>5 DEF Assign, FileTypeOK
<1>7. CASE UNCHANGED passwordFile
  BY <1>7 DEF passwordFile, FileTypeOK
<1>8. ASSUME NEW c \in Clients, NEW u \in Users, NEW isPasswordRight \in BOOLEAN,
             NEW host \in Hosts, NEW forwardedFor \in Hosts \cup {None},
             CreateInteractor(c, u, isPasswordRight, host, forwardedFor)
      PROVE  UNCHANGED passwordFile
  BY <1>8 DEF CreateInteractor
<1>9. ASSUME NEW c \in Clients, NEW f \in Feeds, NEW r \in Roles, HasRole(c, f, r)
      PROVE  UNCHANGED passwordFile
  BY <1>9 DEF HasRole
<1> QED
  BY <1>1, <1>2, <1>3, <1>4, <1>5, <1>6, <1>7, <1>8, <1>9 DEF Next, Reload

\* Only a watcher that is told of changes has any to take.
QuietInv == \A v \in Watchers : changed[v] \/ loading[v] # None => v = "password" \/ OneFolder

\* As long as a watcher is off that the last change was raised to, there was none.
UnchangedInv ==
    (\E w \in told : watcher[w] = "off") =>
        /\ editing = "idle" /\ passwords = file
        /\ \A v \in Watchers : ~changed[v] /\ loading[v] = None

\* A stale load leaves its watcher with a change to take.
StaleInv == \A v \in Watchers : loading[v] # None /\ ~changed[v] => loading[v] = file

\* Where a file being written cannot be read, no change is taken and outlived.
WritingInv ==
    ~sharing /\ editing # "idle" =>
        \A w \in told : watcher[w] = "watching" => changed[w]

\* A watcher that the last change was raised to, which it has taken and outlived.
SettledAt(w) == w \in told /\ watcher[w] = "watching" /\ ~changed[w] /\ loading[w] = None

\* Watcher v is about to read what is in the file, or to assign it.
Owes(v) == watcher[v] = "watching" /\ ((changed[v] /\ loading[v] = None) \/ loading[v] = file)

\* What it has taken is in use, or another watcher, whose stale load came last,
\* has still to read the file or to assign it.
CurrentInv ==
    \A w \in Watchers : SettledAt(w) =>
        file # Partial /\ (passwords = file \/ \E v \in Watchers : Owes(v))

IInv == FileTypeOK /\ QuietInv /\ UnchangedInv /\ StaleInv /\ WritingInv /\ CurrentInv

LEMMA ChangeStep ==
    ASSUME IInv, NEW content \in Contents, Change(content), sharing' = sharing
    PROVE  (QuietInv /\ UnchangedInv /\ StaleInv /\ WritingInv /\ CurrentInv)'
<1>1. \A v \in Watchers : changed'[v] <=> changed[v] \/ v \in Told
  BY DEF Change, IInv, FileTypeOK
<1>2. told' = Told /\ UNCHANGED <<watcher, loading>>
  BY DEF Change
<1>3. \A v \in Told : v \in Watchers /\ watcher[v] = "watching" /\ (v = "password" \/ OneFolder)
  BY DEF Told
<1>4. \A v \in Watchers : loading[v] # None => v \in Told
  BY DEF Told, IInv, QuietInv, FileTypeOK
<1>5. QuietInv'
  BY <1>1, <1>2, <1>3 DEF IInv, QuietInv
<1>6. UnchangedInv'
  BY <1>2, <1>3 DEF UnchangedInv
<1>7. StaleInv'
  BY <1>1, <1>2, <1>4 DEF StaleInv
<1>8. WritingInv'
  BY <1>1, <1>2, <1>3 DEF WritingInv
<1>9. CurrentInv'
  BY <1>1, <1>2 DEF CurrentInv, SettledAt
<1> QED
  BY <1>5, <1>6, <1>7, <1>8, <1>9

LEMMA EnableStep ==
    ASSUME IInv, NEW w \in Watchers, Enable(w)
    PROVE  (QuietInv /\ UnchangedInv /\ StaleInv /\ WritingInv /\ CurrentInv)'
<1>1. /\ watcher[w] = "off" /\ watcher'[w] = "watching"
      /\ \A v \in Watchers : v # w => watcher'[v] = watcher[v]
      /\ UNCHANGED <<file, editing, changed, loading, passwords, told, sharing>>
  BY DEF Enable, IInv, FileTypeOK, fixed
<1>2. told \subseteq Watchers
  BY DEF IInv, FileTypeOK
<1>3. w \in told => /\ editing = "idle" /\ passwords = file
                    /\ \A v \in Watchers : ~changed[v] /\ loading[v] = None
  BY <1>1 DEF IInv, UnchangedInv
<1>4. QuietInv' /\ StaleInv'
  BY <1>1 DEF IInv, QuietInv, StaleInv
<1>5. UnchangedInv'
  BY <1>1, <1>2 DEF IInv, UnchangedInv
<1>6. WritingInv'
  BY <1>1, <1>2, <1>3 DEF IInv, WritingInv
<1>7. CurrentInv'
  <2>1. CASE w \in told
    BY <1>1, <1>3, <2>1 DEF CurrentInv, SettledAt, IInv, FileTypeOK
  <2>2. CASE w \notin told
    <3>1. \A v \in Watchers : SettledAt(v)' => SettledAt(v)
      BY <1>1, <2>2 DEF SettledAt
    <3>2. \A v \in Watchers : Owes(v) => Owes(v)'
      BY <1>1 DEF Owes
    <3> QED
      BY <1>1, <3>1, <3>2 DEF IInv, CurrentInv
  <2> QED
    BY <2>1, <2>2
<1> QED
  BY <1>4, <1>5, <1>6, <1>7

\* A watcher that takes a change reads what the others have read or will read; one
\* that dies of it took the change while the file is written, and nothing is settled.
LEMMA OnChangedStep ==
    ASSUME IInv, NEW w \in Watchers, OnChanged(w)
    PROVE  (QuietInv /\ UnchangedInv /\ StaleInv /\ WritingInv /\ CurrentInv)'
<1>1. /\ watcher[w] = "watching" /\ changed[w] /\ loading[w] = None
      /\ ~changed'[w] /\ \A v \in Watchers : v # w => changed'[v] = changed[v]
      /\ UNCHANGED <<file, editing, passwords, told, sharing>>
  BY DEF OnChanged, IInv, FileTypeOK, fixed
<1>2. ~\E v \in told : watcher[v] = "off"
  BY <1>1 DEF IInv, UnchangedInv
<1>3. file # None /\ told \subseteq Watchers
  BY ContentsFacts DEF IInv, FileTypeOK
<1>4. CASE loading' = [loading EXCEPT ![w] = file] /\ UNCHANGED watcher /\ (sharing \/ editing = "idle")
  <2>1. loading'[w] = file /\ \A v \in Watchers : v # w => loading'[v] = loading[v]
    BY <1>4 DEF IInv, FileTypeOK
  <2>2. QuietInv' /\ StaleInv'
    BY <1>1, <2>1 DEF IInv, QuietInv, StaleInv
  <2>3. UnchangedInv' /\ WritingInv'
    BY <1>1, <1>2, <1>4 DEF UnchangedInv, WritingInv
  <2>4. CurrentInv'
    <3>1. \A v \in Watchers : SettledAt(v)' => SettledAt(v)
      BY <1>1, <1>3, <1>4, <2>1 DEF SettledAt
    <3>2. Owes(w)'
      BY <1>1, <1>4, <2>1 DEF Owes
    <3> QED
      BY <1>1, <3>1, <3>2 DEF IInv, CurrentInv
  <2> QED
    BY <2>2, <2>3, <2>4
<1>5. CASE watcher' = [watcher EXCEPT ![w] = "dead"] /\ UNCHANGED loading /\ ~sharing /\ editing # "idle"
  <2>1. watcher'[w] = "dead" /\ \A v \in Watchers : v # w => watcher'[v] = watcher[v]
    BY <1>5 DEF IInv, FileTypeOK
  <2>2. QuietInv' /\ StaleInv'
    BY <1>1, <1>5 DEF IInv, QuietInv, StaleInv
  <2>3. UnchangedInv'
    BY <1>1, <1>2, <1>3, <2>1 DEF UnchangedInv
  <2>4. WritingInv'
    BY <1>1, <1>3, <2>1 DEF IInv, WritingInv
  <2>5. CurrentInv'
    <3>1. \A v \in Watchers : ~SettledAt(v)'
      BY <1>1, <1>5, <2>4 DEF SettledAt, WritingInv
    <3> QED
      BY <3>1 DEF CurrentInv
  <2> QED
    BY <2>2, <2>3, <2>4, <2>5
<1> QED
  BY <1>4, <1>5 DEF OnChanged

\* What is assigned is what is in the file, or the watcher has to read again; one
\* that dies of its load owed nothing, since what it read was not in the file.
LEMMA AssignStep ==
    ASSUME IInv, NEW w \in Watchers, Assign(w)
    PROVE  (QuietInv /\ UnchangedInv /\ StaleInv /\ WritingInv /\ CurrentInv)'
<1>1. /\ watcher[w] = "watching" /\ loading[w] # None /\ loading'[w] = None
      /\ \A v \in Watchers : v # w => loading'[v] = loading[v]
      /\ UNCHANGED <<file, editing, changed, told, sharing>>
  BY DEF Assign, IInv, FileTypeOK, fixed
<1>2. ~\E v \in told : watcher[v] = "off"
  BY <1>1 DEF IInv, UnchangedInv
<1>3. file # None /\ told \subseteq Watchers
  BY ContentsFacts DEF IInv, FileTypeOK
<1>4. QuietInv' /\ StaleInv'
  BY <1>1 DEF IInv, QuietInv, StaleInv
<1>5. CASE loading[w] = Partial
  <2>1. /\ watcher'[w] = "dead" /\ \A v \in Watchers : v # w => watcher'[v] = watcher[v]
        /\ passwords' = passwords
    BY <1>5 DEF Assign, IInv, FileTypeOK
  <2>2. UnchangedInv' /\ WritingInv'
    BY <1>1, <1>2, <1>3, <2>1 DEF IInv, UnchangedInv, WritingInv
  <2>3. \A v \in Watchers : SettledAt(v)' => SettledAt(v)
    BY <1>1, <2>1 DEF SettledAt
  <2>4. \A v \in Watchers : Owes(v) /\ file # Partial => Owes(v)'
    BY <1>1, <1>5, <2>1 DEF Owes
  <2>5. CurrentInv'
    BY <1>1, <2>1, <2>3, <2>4 DEF IInv, CurrentInv
  <2> QED
    BY <1>4, <2>2, <2>5
<1>6. CASE loading[w] # Partial
  <2>1. passwords' = loading[w] /\ UNCHANGED watcher
    BY <1>6 DEF Assign
  <2>2. UnchangedInv' /\ WritingInv'
    BY <1>1, <1>2, <2>1 DEF IInv, UnchangedInv, WritingInv
  <2>3. CASE loading[w] = file
    BY <1>1, <1>4, <1>6, <2>1, <2>2, <2>3 DEF CurrentInv
  <2>4. CASE loading[w] # file
    <3>1. changed[w]
      BY <1>1, <2>4 DEF IInv, StaleInv
    <3>2. Owes(w)'
      BY <1>1, <2>1, <3>1 DEF Owes
    <3>3. \A v \in Watchers : SettledAt(v)' => SettledAt(v)
      BY <1>1, <2>1, <3>1 DEF SettledAt
    <3> QED
      BY <1>1, <1>4, <2>2, <3>2, <3>3 DEF IInv, CurrentInv
  <2> QED
    BY <1>4, <2>2, <2>3, <2>4
<1> QED
  BY <1>5, <1>6

LEMMA LoadStep ==
    ASSUME IInv, [Next]_vars
    PROVE  IInv'
<1> DEFINE Rest == QuietInv /\ UnchangedInv /\ StaleInv /\ WritingInv /\ CurrentInv
<1> SUFFICES Rest'
  <2>1. CASE Next
    BY <2>1, FileTypeStep DEF IInv
  <2>2. CASE UNCHANGED vars
    BY <2>2 DEF IInv, FileTypeOK, vars, passwordFile
  <2> QED
    BY <2>1, <2>2 DEF IInv
<1>1. CASE Truncate
  <2>1. Change({}) /\ sharing' = sharing
    BY <1>1 DEF Truncate, Change, fixed
  <2> QED
    BY <2>1, ChangeStep, ContentsFacts
<1>2. CASE WriteText
  <2>1. PICK content \in Contents : Change(content)
    BY <1>2, ContentsFacts DEF WriteText
  <2>2. sharing' = sharing
    BY <2>1 DEF Change, fixed
  <2> QED
    BY <2>1, <2>2, ChangeStep
<1>3. CASE CloseFile
  <2>1. UNCHANGED <<file, watcher, changed, loading, passwords, told, sharing>> /\ editing' = "idle"
    BY <1>3 DEF CloseFile, fixed
  <2> QED
    BY <2>1 DEF IInv, QuietInv, UnchangedInv, StaleInv, WritingInv, CurrentInv, SettledAt, Owes
<1>4. CASE Reload
  BY <1>4, EnableStep, OnChangedStep, AssignStep DEF Reload
<1>5. CASE UNCHANGED <<passwordFile, fixed>>
  BY <1>5 DEF passwordFile, fixed, IInv, QuietInv, UnchangedInv, StaleInv, WritingInv,
              CurrentInv, SettledAt, Owes
<1>6. ASSUME NEW c \in Clients, NEW u \in Users, NEW isPasswordRight \in BOOLEAN,
             NEW host \in Hosts, NEW forwardedFor \in Hosts \cup {None},
             CreateInteractor(c, u, isPasswordRight, host, forwardedFor)
      PROVE  UNCHANGED <<passwordFile, fixed>>
  BY <1>6 DEF CreateInteractor
<1>7. ASSUME NEW c \in Clients, NEW f \in Feeds, NEW r \in Roles, HasRole(c, f, r)
      PROVE  UNCHANGED <<passwordFile, fixed>>
  BY <1>7 DEF HasRole
<1>8. CASE UNCHANGED vars
  BY <1>5, <1>8 DEF vars
<1> QED
  BY <1>1, <1>2, <1>3, <1>4, <1>5, <1>6, <1>7, <1>8 DEF Next

\* PasswordFileAuthenticator.OnChanged: once every change of the file has been
\* taken the passwords in use are those in the file, for any users, clients and
\* edits, with the password and the role file in one folder or in two, wherever a
\* watcher lives to which the last change was raised.
THEOREM LoadedIsCurrentHolds == Spec => []LoadedIsCurrent
<1>1. Init => IInv
  <2> SUFFICES ASSUME Init PROVE IInv
    OBVIOUS
  <2>1. FileTypeOK
    BY ContentsFacts DEF Init, FileTypeOK
  <2>2. file # Partial
    BY ContentsFacts DEF Init
  <2>3. QuietInv /\ UnchangedInv /\ StaleInv /\ WritingInv
    BY DEF Init, QuietInv, UnchangedInv, StaleInv, WritingInv
  <2>4. CurrentInv
    BY <2>2 DEF Init, CurrentInv
  <2> QED
    BY <2>1, <2>3, <2>4 DEF IInv
<1>2. IInv /\ [Next]_vars => IInv'
  BY LoadStep
<1>3. ASSUME IInv PROVE LoadedIsCurrent
  <2> SUFFICES ASSUME Settled, NEW w \in told, watcher[w] = "watching"
               PROVE  passwords = file
    BY DEF LoadedIsCurrent, Watched
  <2>1. w \in Watchers /\ file # None
    BY <1>3, ContentsFacts DEF IInv, FileTypeOK
  <2>2. SettledAt(w)
    BY <2>1 DEF Settled, SettledAt
  <2>3. \A v \in Watchers : ~Owes(v)
    BY <2>1 DEF Settled, Owes
  <2> QED
    BY <1>3, <2>1, <2>2, <2>3 DEF IInv, CurrentInv
<1> QED
  BY <1>1, <1>2, <1>3, PTL DEF Spec

-----------------------------------------------------------------------------
(* Numbers.                                                                *)

\* Sets of numbers have a least member, and a greatest if they are bounded.
LEMMA LeastNumber ==
    ASSUME NEW S \in SUBSET Nat, S # {}
    PROVE  \E x \in S : \A y \in S : x <= y
<1> DEFINE Less == OpToRel(<, Nat)
<1>1. IsWellFoundedOn(Less, Nat)
  BY NatLessThanWellFounded
<1>2. \A x, y \in Nat : x < y => <<x, y>> \in Less
  BY DEF OpToRel
<1> HIDE DEF Less
<1>3. PICK x \in S : \A y \in S : ~(<<y, x>> \in Less)
  BY <1>1, WFMin
<1>4. \A y \in S : x \in Nat /\ y \in Nat
  OBVIOUS
<1>5. \A y \in S : ~(y < x)
  BY <1>2, <1>3, <1>4
<1> QED
  BY <1>4, <1>5

LEMMA GreatestNumber ==
    ASSUME NEW n \in Nat, NEW S \in SUBSET (0..n), S # {}
    PROVE  \E x \in S : \A y \in S : x >= y
<1> DEFINE T == {i \in 0..n : n - i \in S}
<1>1. T \in SUBSET Nat /\ T # {}
  <2>1. PICK y \in S : TRUE
    OBVIOUS
  <2>2. n - y \in 0..n /\ n - (n - y) = y
    OBVIOUS
  <2>3. n - y \in T
    BY <2>2
  <2>4. T \in SUBSET Nat
    OBVIOUS
  <2> QED
    BY <2>3, <2>4
<1>2. PICK t \in T : \A u \in T : t <= u
  BY <1>1, LeastNumber
<1>3. n - t \in S
  OBVIOUS
<1>4. ASSUME NEW y \in S PROVE n - t >= y
  <2>1. n - y \in 0..n /\ n - (n - y) = y
    OBVIOUS
  <2>2. t <= n - y
    BY <1>2, <2>1
  <2> QED
    BY <2>2
<1> QED
  BY <1>3, <1>4

LEMMA MinFacts ==
    ASSUME NEW S \in SUBSET Nat, S # {}
    PROVE  Min(S) \in S /\ \A y \in S : Min(S) <= y
BY LeastNumber DEF Min

LEMMA MaxFacts ==
    ASSUME NEW n \in Nat, NEW S \in SUBSET (0..n), S # {}
    PROVE  Max(S) \in S /\ Max(S) \in 0..n
<1>1. Max(S) \in S
  BY GreatestNumber DEF Max
<1> QED
  BY <1>1

-----------------------------------------------------------------------------
(* Glob.                                                                   *)

Answers == {"yes", "no", "throws"}

\* at holds the answers from position k of the pattern on.
IsTable(value, pattern, k, at) ==
    at = [p \in k..Len(pattern) |-> [v \in Nat |-> GlobStep(value, pattern, p, v, at[p + 1])]]

\* The recursion of Glob is from the end of the pattern: there is a table of its
\* answers from every position on, and so from the first.
LEMMA TableExists ==
    ASSUME NEW value \in Seq(Characters), NEW pattern \in Seq(Characters)
    PROVE  \E at : IsTable(value, pattern, 0, at)
<1> DEFINE n == Len(pattern)
           From == {k \in 0..n : \E at : IsTable(value, pattern, k, at)}
<1>1. n \in Nat
  OBVIOUS
<1>2. n \in From
  <2> DEFINE last == [p \in n..n |-> [v \in Nat |-> GlobStep(value, pattern, p, v, value)]]
  <2>1. \A rest : \A v \in Nat :
            GlobStep(value, pattern, n, v, rest) = GlobStep(value, pattern, n, v, value)
    BY DEF GlobStep
  <2>2. \A p \in n..n : p = n
    BY <1>1
  <2>3. IsTable(value, pattern, n, last)
    BY <2>1, <2>2 DEF IsTable
  <2> QED
    BY <1>1, <2>3
<1>3. ASSUME NEW k \in From, k # 0 PROVE k - 1 \in From
  <2>1. PICK at : IsTable(value, pattern, k, at)
    OBVIOUS
  <2> DEFINE row == [v \in Nat |-> GlobStep(value, pattern, k - 1, v, at[k])]
             more == [p \in (k - 1)..n |-> IF p = k - 1 THEN row ELSE at[p]]
  <2>2. k \in 1..n /\ k - 1 \in 0..n
    BY <1>1, <1>3
  <2>3. \A p \in (k - 1)..n : p \in Nat /\ (p = k - 1 => p + 1 = k) /\ (p # k - 1 => p \in k..n)
    BY <1>1, <2>2
  <2>4. \A p \in (k - 1)..n : p # n => more[p + 1] = at[p + 1]
    BY <1>1, <2>2
  <2>5. ASSUME NEW v \in Nat, NEW r, NEW s
        PROVE  GlobStep(value, pattern, n, v, r) = GlobStep(value, pattern, n, v, s)
    BY DEF GlobStep
  <2>6. \A p \in (k - 1)..n : [v \in Nat |-> GlobStep(value, pattern, p, v, at[p + 1])]
                              = [v \in Nat |-> GlobStep(value, pattern, p, v, more[p + 1])]
    <3> SUFFICES ASSUME NEW p \in (k - 1)..n
                 PROVE  \A v \in Nat : GlobStep(value, pattern, p, v, at[p + 1])
                                       = GlobStep(value, pattern, p, v, more[p + 1])
      OBVIOUS
    <3>1. CASE p # n
      BY <2>4, <3>1
    <3>2. CASE p = n
      <4> HIDE DEF more, row, n
      <4> QED
        BY <2>5, <3>2
    <3> QED
      BY <3>1, <3>2
  <2>7. \A p \in (k - 1)..n : more[p] = [v \in Nat |-> GlobStep(value, pattern, p, v, at[p + 1])]
    <3> SUFFICES ASSUME NEW p \in (k - 1)..n
                 PROVE  more[p] = [v \in Nat |-> GlobStep(value, pattern, p, v, at[p + 1])]
      OBVIOUS
    <3>1. CASE p = k - 1
      BY <2>3, <3>1
    <3>2. CASE p # k - 1
      <4>1. p \in k..n
        BY <2>3, <3>2
      <4>2. at[p] = [v \in Nat |-> GlobStep(value, pattern, p, v, at[p + 1])]
        BY <2>1, <4>1 DEF IsTable
      <4> QED
        BY <3>2, <4>2
    <3> QED
      BY <3>1, <3>2
  <2>8. IsTable(value, pattern, k - 1, more)
    <3>1. more = [p \in (k - 1)..n |-> more[p]]
      OBVIOUS
    <3> HIDE DEF more
    <3>2. \A p \in (k - 1)..n : more[p] = [v \in Nat |-> GlobStep(value, pattern, p, v, more[p + 1])]
      BY <2>6, <2>7
    <3> QED
      BY <3>1, <3>2 DEF IsTable
  <2> QED
    BY <2>2, <2>8
<1>4. PICK k \in From : \A j \in From : k <= j
  <2>1. From \in SUBSET Nat /\ From # {}
    BY <1>1, <1>2
  <2> HIDE DEF From
  <2> QED
    BY <2>1, LeastNumber
<1>5. k = 0
  <2>1. k \in Nat
    OBVIOUS
  <2> HIDE DEF From
  <2> QED
    BY <1>3, <1>4, <2>1
<1> QED
  BY <1>4, <1>5

LEMMA GlobTable ==
    ASSUME NEW value \in Seq(Characters), NEW pattern \in Seq(Characters)
    PROVE  \E at : IsTable(value, pattern, 0, at) /\ Glob(value, pattern) = at[0][0]
<1> DEFINE at == CHOOSE at : IsTable(value, pattern, 0, at)
<1>1. IsTable(value, pattern, 0, at)
  BY TableExists
<1>2. Glob(value, pattern) = at[0][0]
  BY DEF Glob, IsTable
<1> QED
  BY <1>1, <1>2

\* An answer is one of the three, and one of a table follows from the next.
LEMMA TableType ==
    ASSUME NEW value \in Seq(Characters), NEW pattern \in Seq(Characters),
           NEW at, IsTable(value, pattern, 0, at), NEW k \in 0..Len(pattern)
    PROVE  at[k] \in [Nat -> Answers]
<1> DEFINE n == Len(pattern)
           Typed == {j \in 0..n : \A p \in j..n : at[p] \in [Nat -> Answers]}
<1>1. n \in Nat /\ Len(value) \in Nat
  OBVIOUS
<1>2. \A p \in 0..n : at[p] = [v \in Nat |-> GlobStep(value, pattern, p, v, at[p + 1])]
  BY DEF IsTable
<1>3. n \in Typed
  <2>1. \A v \in Nat : GlobStep(value, pattern, n, v, at[n + 1]) \in Answers
    BY DEF GlobStep, Answers
  <2>2. at[n] \in [Nat -> Answers]
    <3>1. at[n] = [v \in Nat |-> GlobStep(value, pattern, n, v, at[n + 1])]
      BY <1>1, <1>2
    <3> QED
      BY <2>1, <3>1
  <2> QED
    BY <1>1, <2>2
<1>4. ASSUME NEW j \in Typed, j # 0 PROVE j - 1 \in Typed
  <2>1. j \in 1..n /\ j - 1 \in 0..n /\ j \in j..n /\ (j - 1) + 1 = j
    BY <1>1, <1>4
  <2>2. at[j] \in [Nat -> Answers]
    BY <2>1
  <2>3. ASSUME NEW v \in Nat
        PROVE  GlobStep(value, pattern, j - 1, v, at[j]) \in Answers
    <3> DEFINE tried == {i \in v..Len(value) : at[j][i] # "no"}
    <3>1. tried \in SUBSET (0..Len(value))
      BY <1>1
    <3> HIDE DEF tried
    <3>2. tried # {} => Max(tried) \in 0..Len(value)
      BY <1>1, <3>1, MaxFacts
    <3>3. tried # {} => at[j][Max(tried)] \in Answers
      BY <1>1, <2>2, <3>2
    <3>4. at[j][v + 1] \in Answers
      BY <2>2
    <3> USE DEF tried
    <3> QED
      BY <3>3, <3>4, <2>1 DEF GlobStep, Answers
  <2>4. at[j - 1] \in [Nat -> Answers]
    <3>1. at[j - 1] = [v \in Nat |-> GlobStep(value, pattern, j - 1, v, at[j])]
      <4>1. at[j - 1] = [v \in Nat |-> GlobStep(value, pattern, j - 1, v, at[(j - 1) + 1])]
        BY <1>2, <2>1
      <4> QED
        BY <2>1, <4>1
    <3> QED
      BY <2>3, <3>1
  <2>5. \A p \in (j - 1)..n : p = j - 1 \/ p \in j..n
    BY <2>1
  <2> QED
    BY <2>1, <2>4, <2>5
<1>5. PICK j \in Typed : \A i \in Typed : j <= i
  <2>1. Typed \in SUBSET Nat /\ Typed # {}
    BY <1>1, <1>3
  <2> HIDE DEF Typed
  <2> QED
    BY <2>1, LeastNumber
<1>6. j = 0
  <2>1. j \in Nat
    OBVIOUS
  <2> HIDE DEF Typed
  <2> QED
    BY <1>4, <1>5, <2>1
<1> QED
  BY <1>5, <1>6

\* The value from v on matches the pattern from p on.
MatchesFrom(value, pattern, v, p) ==
    \E cut \in [p..Len(pattern) -> 0..Len(value)] :
        /\ cut[p] = v /\ cut[Len(pattern)] = Len(value)
        /\ \A k \in (p + 1)..Len(pattern) : IsStretch(value, pattern, k, cut[k - 1], cut[k])

LEMMA MatchesEnd ==
    ASSUME NEW value \in Seq(Characters), NEW pattern \in Seq(Characters), NEW v \in Nat
    PROVE  MatchesFrom(value, pattern, v, Len(pattern)) <=> v = Len(value)
<1> DEFINE n == Len(pattern)
<1>1. n \in Nat /\ Len(value) \in Nat
  OBVIOUS
<1>2. ASSUME v = Len(value) PROVE MatchesFrom(value, pattern, v, n)
  <2> DEFINE cut == [p \in n..n |-> Len(value)]
  <2>1. cut \in [n..n -> 0..Len(value)] /\ cut[n] = v
    BY <1>1, <1>2
  <2>2. (n + 1)..n = {}
    BY <1>1
  <2> QED
    BY <1>2, <2>1, <2>2 DEF MatchesFrom
<1> QED
  BY <1>2 DEF MatchesFrom

\* A match is a stretch for the next character and a match of the rest.
LEMMA MatchesNext ==
    ASSUME NEW value \in Seq(Characters), NEW pattern \in Seq(Characters), NEW v \in Nat,
           NEW p \in Nat, p < Len(pattern)
    PROVE  MatchesFrom(value, pattern, v, p) <=>
               /\ v <= Len(value)
               /\ \E w \in 0..Len(value) :
                    IsStretch(value, pattern, p + 1, v, w) /\ MatchesFrom(value, pattern, w, p + 1)
<1> DEFINE n == Len(pattern)
<1>1. n \in Nat /\ Len(value) \in Nat /\ p \in p..n /\ p + 1 \in p..n /\ n \in (p + 1)..n
  OBVIOUS
<1>2. ASSUME MatchesFrom(value, pattern, v, p)
      PROVE  /\ v <= Len(value)
             /\ \E w \in 0..Len(value) :
                  IsStretch(value, pattern, p + 1, v, w) /\ MatchesFrom(value, pattern, w, p + 1)
  <2>1. PICK cut \in [p..n -> 0..Len(value)] :
            /\ cut[p] = v /\ cut[n] = Len(value)
            /\ \A k \in (p + 1)..n : IsStretch(value, pattern, k, cut[k - 1], cut[k])
    BY <1>2 DEF MatchesFrom
  <2> DEFINE rest == [k \in (p + 1)..n |-> cut[k]]
  <2>2. rest \in [(p + 1)..n -> 0..Len(value)]
    BY <1>1
  <2>3. rest[n] = Len(value) /\ rest[p + 1] = cut[p + 1]
    BY <1>1, <2>1
  <2>4. ASSUME NEW k \in (p + 1 + 1)..n PROVE IsStretch(value, pattern, k, rest[k - 1], rest[k])
    <3>1. k \in (p + 1)..n /\ k - 1 \in (p + 1)..n
      BY <1>1
    <3> QED
      BY <2>1, <3>1
  <2> HIDE DEF rest
  <2>5. MatchesFrom(value, pattern, cut[p + 1], p + 1)
    BY <2>2, <2>3, <2>4 DEF MatchesFrom
  <2>6. IsStretch(value, pattern, p + 1, cut[p], cut[p + 1])
    <3>1. p + 1 \in (p + 1)..n /\ (p + 1) - 1 = p
      BY <1>1
    <3> QED
      BY <2>1, <3>1
  <2>7. v <= Len(value) /\ cut[p + 1] \in 0..Len(value) /\ cut[p] = v
    BY <1>1, <2>1
  <2> QED
    BY <2>5, <2>6, <2>7
<1>3. ASSUME v <= Len(value), NEW w \in 0..Len(value),
             IsStretch(value, pattern, p + 1, v, w), MatchesFrom(value, pattern, w, p + 1)
      PROVE  MatchesFrom(value, pattern, v, p)
  <2>1. PICK rest \in [(p + 1)..n -> 0..Len(value)] :
            /\ rest[p + 1] = w /\ rest[n] = Len(value)
            /\ \A k \in (p + 1 + 1)..n : IsStretch(value, pattern, k, rest[k - 1], rest[k])
    BY <1>3 DEF MatchesFrom
  <2> DEFINE cut == [k \in p..n |-> IF k = p THEN v ELSE rest[k]]
  <2>2. \A k \in p..n : k = p \/ k \in (p + 1)..n
    BY <1>1
  <2>3. cut \in [p..n -> 0..Len(value)]
    BY <1>1, <1>3, <2>2
  <2>4. cut[p] = v /\ cut[n] = Len(value)
    BY <1>1, <2>1
  <2>5. ASSUME NEW k \in (p + 1)..n PROVE IsStretch(value, pattern, k, cut[k - 1], cut[k])
    <3>1. k \in p..n /\ k - 1 \in p..n /\ k # p /\ k \in Nat
      BY <1>1
    <3>2. CASE k = p + 1
      BY <1>3, <2>1, <3>1, <3>2
    <3>3. CASE k # p + 1
      <4>1. k \in (p + 1 + 1)..n /\ k - 1 # p
        BY <1>1, <3>1, <3>3
      <4> QED
        BY <2>1, <3>1, <4>1
    <3> QED
      BY <3>2, <3>3
  <2> HIDE DEF cut
  <2> QED
    BY <2>3, <2>4, <2>5 DEF MatchesFrom
<1> QED
  BY <1>2, <1>3

\* One step backwards: what the answers say of the rest of the pattern they say of
\* the pattern from the position before on.
LEMMA StepMatches ==
    ASSUME NEW value \in Seq(Characters), NEW pattern \in Seq(Characters), NEW v \in Nat,
           NEW p \in Nat, p < Len(pattern), NEW rest \in [Nat -> Answers],
           \A w \in Nat : /\ rest[w] = "yes" => MatchesFrom(value, pattern, w, p + 1)
                          /\ rest[w] = "no" => ~MatchesFrom(value, pattern, w, p + 1)
    PROVE  LET answer == GlobStep(value, pattern, p, v, rest)
           IN  /\ answer = "yes" => MatchesFrom(value, pattern, v, p)
               /\ answer = "no" => ~MatchesFrom(value, pattern, v, p)
<1> DEFINE answer == GlobStep(value, pattern, p, v, rest)
           n == Len(value)
           Right == /\ answer = "yes" => MatchesFrom(value, pattern, v, p)
                    /\ answer = "no" => ~MatchesFrom(value, pattern, v, p)
           Rest(w) == MatchesFrom(value, pattern, w, p + 1)
           ch == pattern[p + 1]
<1> SUFFICES Right
  OBVIOUS
<1>1. n \in Nat /\ Len(pattern) \in Nat /\ p # Len(pattern)
  OBVIOUS
<1>2. MatchesFrom(value, pattern, v, p) <=>
          v <= n /\ \E w \in 0..n : IsStretch(value, pattern, p + 1, v, w) /\ Rest(w)
  BY MatchesNext
<1>3. \A w \in Nat : Rest(w) => w <= n
  <2> SUFFICES ASSUME NEW w \in Nat, Rest(w) PROVE w <= n
    OBVIOUS
  <2>1. p + 1 \in (p + 1)..Len(pattern)
    BY <1>1
  <2>2. PICK cut \in [(p + 1)..Len(pattern) -> 0..n] : cut[p + 1] = w
    BY DEF MatchesFrom
  <2> QED
    BY <1>1, <2>1, <2>2
<1>4. \A w \in Nat : (rest[w] = "yes" => Rest(w)) /\ (rest[w] = "no" => ~Rest(w))
  OBVIOUS
<1>5. v + 1 \in Nat /\ (v < n <=> v + 1 <= n)
  BY <1>1
<1> HIDE DEF Rest
<1>6. CASE ch = "?"
  <2>1. answer = rest[v + 1]
    BY <1>1, <1>6 DEF GlobStep
  <2>2. \A w \in 0..n : IsStretch(value, pattern, p + 1, v, w) <=> w = v + 1
    BY <1>6 DEF IsStretch
  <2> HIDE DEF answer, ch
  <2>3. MatchesFrom(value, pattern, v, p) <=> Rest(v + 1)
    BY <1>1, <1>2, <1>3, <1>5, <2>2
  <2> QED
    BY <1>4, <1>5, <2>1, <2>3
<1>7. CASE ch = "*"
  <2> DEFINE tried == {i \in v..n : rest[i] # "no"}
  <2>1. answer = IF tried = {} THEN "no" ELSE rest[Max(tried)]
    BY <1>1, <1>7 DEF GlobStep
  <2>2. \A w \in 0..n : IsStretch(value, pattern, p + 1, v, w) <=> w \in v..n
    BY <1>1, <1>7 DEF IsStretch
  <2>3. tried \in SUBSET (0..n)
    BY <1>1
  <2>4. tried # {} => Max(tried) \in tried /\ Max(tried) \in 0..n
    <3> HIDE DEF tried
    <3> QED
      BY <1>1, <2>3, MaxFacts
  <2>5. tried = {} => \A i \in v..n : rest[i] = "no"
    OBVIOUS
  <2>6. \A i \in tried : i \in v..n /\ v <= n /\ i \in Nat /\ rest[i] # "no"
    BY <1>1
  <2>7. \A i \in v..n : i \in Nat
    BY <1>1
  <2> HIDE DEF answer, ch, tried
  <2>8. CASE tried = {}
    <3>1. ~MatchesFrom(value, pattern, v, p)
      BY <1>2, <1>4, <2>2, <2>5, <2>7, <2>8
    <3> QED
      BY <2>1, <2>8, <3>1
  <2>9. CASE tried # {}
    <3> DEFINE m == Max(tried)
    <3>1. answer = rest[m] /\ m \in v..n /\ v <= n /\ m \in Nat /\ m \in 0..n /\ rest[m] # "no"
      BY <2>1, <2>4, <2>6, <2>9
    <3> HIDE DEF m
    <3>2. rest[m] = "yes" => MatchesFrom(value, pattern, v, p)
      BY <1>2, <1>4, <2>2, <3>1
    <3> QED
      BY <3>1, <3>2
  <2> QED
    BY <2>8, <2>9
<1>8. CASE ch # "?" /\ ch # "*"
  <2>1. answer = IF v = n THEN "no" ELSE IF v > n THEN "throws"
                 ELSE IF SameLetter(ch, value[v + 1]) THEN rest[v + 1] ELSE "no"
    BY <1>1, <1>8 DEF GlobStep
  <2>2. \A w \in 0..n : IsStretch(value, pattern, p + 1, v, w) <=>
                        w = v + 1 /\ SameLetter(ch, value[v + 1])
    BY <1>8 DEF IsStretch, SameLetter
  <2> HIDE DEF answer, ch
  <2>3. MatchesFrom(value, pattern, v, p) <=> v < n /\ SameLetter(ch, value[v + 1]) /\ Rest(v + 1)
    BY <1>1, <1>2, <1>5, <2>2
  <2> QED
    BY <1>1, <1>4, <1>5, <2>1, <2>3
<1> QED
  BY <1>6, <1>7, <1>8

\* Globber.Glob: it answers "yes" only for a value that matches the pattern, and "no" only
\* for one that does not, whatever the pattern: that a star tries one remainder
\* after the other and stops at the first is right.  It may throw for either.
THEOREM GlobMeansMatches ==
    ASSUME NEW value \in Seq(Characters), NEW pattern \in Seq(Characters)
    PROVE  /\ Glob(value, pattern) \in Answers
           /\ Glob(value, pattern) = "yes" => Matches(value, pattern)
           /\ Glob(value, pattern) = "no" => ~Matches(value, pattern)
<1> DEFINE n == Len(pattern)
<1>1. n \in Nat
  OBVIOUS
<1>2. PICK at : IsTable(value, pattern, 0, at) /\ Glob(value, pattern) = at[0][0]
  BY GlobTable
<1>3. \A p \in 0..n : at[p] \in [Nat -> Answers]
  BY <1>2, TableType
<1>4. ASSUME NEW p \in 0..n, NEW v \in Nat
      PROVE  at[p][v] = GlobStep(value, pattern, p, v, at[p + 1])
  <2>1. at[p] = [w \in Nat |-> GlobStep(value, pattern, p, w, at[p + 1])]
    BY <1>2 DEF IsTable
  <2> QED
    BY <2>1
<1> DEFINE Right(p) == \A v \in Nat :
                /\ at[p][v] = "yes" => MatchesFrom(value, pattern, v, p)
                /\ at[p][v] = "no" => ~MatchesFrom(value, pattern, v, p)
           From == {k \in 0..n : Right(k)}
<1>5. n \in From
  <2>1. ASSUME NEW v \in Nat
        PROVE  at[n][v] = IF v = Len(value) THEN "yes" ELSE "no"
    <3>1. at[n][v] = GlobStep(value, pattern, n, v, at[n + 1])
      BY <1>1, <1>4
    <3>2. GlobStep(value, pattern, n, v, at[n + 1]) = IF v = Len(value) THEN "yes" ELSE "no"
      BY DEF GlobStep
    <3> QED
      BY <3>1, <3>2
  <2> QED
    BY <1>1, <2>1, MatchesEnd
<1>6. ASSUME NEW k \in From, k # 0 PROVE k - 1 \in From
  <2>1. k - 1 \in 0..n /\ k - 1 \in Nat /\ k - 1 < n /\ (k - 1) + 1 = k /\ k \in 0..n
    BY <1>1, <1>6
  <2>2. at[k] \in [Nat -> Answers] /\ Right(k)
    BY <1>3, <2>1
  <2>3. \A v \in Nat : at[k - 1][v] = GlobStep(value, pattern, k - 1, v, at[k])
    BY <1>4, <2>1
  <2>4. Right(k - 1)
    BY <2>1, <2>2, <2>3, StepMatches
  <2> QED
    BY <2>1, <2>4
<1>7. PICK k \in From : \A j \in From : k <= j
  <2>1. From \in SUBSET Nat /\ From # {}
    BY <1>1, <1>5
  <2> HIDE DEF From
  <2> QED
    BY <2>1, LeastNumber
<1>8. k = 0
  <2>1. k \in Nat
    OBVIOUS
  <2> HIDE DEF From
  <2> QED
    BY <1>6, <1>7, <2>1
<1>9. MatchesFrom(value, pattern, 0, 0) <=> Matches(value, pattern)
  BY DEF MatchesFrom, Matches
<1>10. Right(0)
  BY <1>7, <1>8
<1> QED
  BY <1>1, <1>2, <1>3, <1>9, <1>10

-----------------------------------------------------------------------------
(* Roles.                                                                  *)

LEMMA EverythingType == Everything \in Entries
<1>1. <<>> \in Seq(Characters)
  OBVIOUS
<1> QED
  BY <1>1 DEF Everything, Entries

\* The first entry that matches, or none does and everything is denied.
LEMMA FirstMatchFacts ==
    ASSUME NEW host \in Seq(Characters), NEW entries \in Seq(Entries)
    PROVE  LET match == FirstMatch(host, entries)
           IN  /\ match[2] \in Entries
               /\ match[1] = "yes" =>
                    \/ /\ match[2] = Everything
                       /\ \A i \in 1..Len(entries) : ~Matches(host, entries[i].pattern)
                    \/ \E i \in 1..Len(entries) :
                         /\ match[2] = entries[i]
                         /\ Matches(host, entries[i].pattern)
                         /\ \A j \in 1..(i - 1) : ~Matches(host, entries[j].pattern)
<1> DEFINE match == FirstMatch(host, entries)
           n == Len(entries)
           Answer(i) == Glob(host, entries[i].pattern)
           Hit(i) == Matches(host, entries[i].pattern)
           hits == {i \in 1..n : Answer(i) # "no"}
<1>1. n \in Nat /\ \A i \in 1..n : entries[i] \in Entries
  OBVIOUS
<1>2. \A i \in 1..n : (Answer(i) = "yes" => Hit(i)) /\ (Answer(i) = "no" => ~Hit(i))
  <2> SUFFICES ASSUME NEW i \in 1..n
               PROVE  (Answer(i) = "yes" => Hit(i)) /\ (Answer(i) = "no" => ~Hit(i))
    OBVIOUS
  <2>1. entries[i].pattern \in Seq(Characters)
    BY <1>1 DEF Entries
  <2> QED
    BY <2>1, GlobMeansMatches
<1>3. match = IF hits = {} THEN <<"yes", Everything>> ELSE <<Answer(Min(hits)), entries[Min(hits)]>>
  BY DEF FirstMatch
<1>4. hits \in SUBSET Nat
  BY <1>1
<1> SUFFICES /\ match[2] \in Entries
             /\ match[1] = "yes" =>
                  \/ match[2] = Everything /\ \A i \in 1..n : ~Hit(i)
                  \/ \E i \in 1..n : match[2] = entries[i] /\ Hit(i) /\ \A j \in 1..(i - 1) : ~Hit(j)
  OBVIOUS
<1> HIDE DEF match, Answer, Hit, n
<1>5. CASE hits = {}
  BY <1>2, <1>3, <1>5, EverythingType
<1>6. CASE hits # {}
  <2> DEFINE m == Min(hits)
  <2>1. m \in hits /\ \A i \in hits : m <= i
    <3> HIDE DEF hits
    <3> QED
      BY <1>4, <1>6, MinFacts
  <2>2. match = <<Answer(m), entries[m]>>
    BY <1>3, <1>6
  <2> HIDE DEF m
  <2>3. m \in 1..n /\ \A j \in 1..(m - 1) : j \in 1..n /\ j \notin hits
    BY <1>1, <2>1
  <2>4. \A j \in 1..(m - 1) : ~Hit(j)
    BY <1>2, <2>3
  <2>5. match[1] = "yes" => Hit(m)
    BY <1>2, <2>2, <2>3
  <2> QED
    BY <1>1, <2>2, <2>3, <2>4, <2>5
<1> QED
  BY <1>5, <1>6

\* What the role file says of the host a client was admitted from.
Chosen(c, f) ==
    FirstMatch(EffectiveHost(origin[c][2], origin[c][3]), roles[origin[c][1]][f])

\* A client that is served has the permissions the role file gives it, and no
\* other has been decided about.
PermissionInv ==
    \A c \in Clients :
        IF session[c] = "served"
        THEN /\ origin[c] \in Users \X Hosts \X (Hosts \cup {None})
             /\ DOMAIN permissions[c] = NamedFeeds(origin[c][1])
             /\ \A f \in NamedFeeds(origin[c][1]) :
                    Chosen(c, f)[1] = "yes" /\ permissions[c][f] = Chosen(c, f)[2]
        ELSE decisions[c] = {}

\* What is cached is what would be decided now.
DecisionInv ==
    \A c \in Clients : \A d \in decisions[c] : d[3] = Decision(c, d[1], d[2])

RoleInvariant == TypeOK /\ PermissionInv /\ DecisionInv

LEMMA EffectiveHostType ==
    ASSUME NEW host \in Hosts, NEW forwardedFor \in Hosts \cup {None}
    PROVE  EffectiveHost(host, forwardedFor) \in Seq(Characters)
BY ConstantsAssumption DEF EffectiveHost

LEMMA RolesType ==
    ASSUME roles \in RoleFiles, NEW u \in Users, NEW f \in Feeds, roles[u][f] # None
    PROVE  roles[u][f] \in Seq(Entries)
BY ConstantsAssumption

\* What the constructor of RoleManager makes of the role file.
LEMMA PermissionsType ==
    ASSUME roles \in RoleFiles, NEW u \in Users, NEW host \in Hosts,
           NEW forwardedFor \in Hosts \cup {None}
    PROVE  [f \in NamedFeeds(u) |-> FirstMatch(EffectiveHost(host, forwardedFor), roles[u][f])[2]]
               \in [NamedFeeds(u) -> Entries]
<1> DEFINE Match(f) == FirstMatch(EffectiveHost(host, forwardedFor), roles[u][f])
<1>1. ASSUME NEW f \in NamedFeeds(u) PROVE Match(f)[2] \in Entries
  BY EffectiveHostType, RolesType, FirstMatchFacts DEF NamedFeeds
<1>2. [f \in NamedFeeds(u) |-> Match(f)[2]] \in [NamedFeeds(u) -> Entries]
  <2> HIDE DEF Match
  <2> QED
    BY <1>1
<1> QED
  BY <1>2

LEMMA DecisionFollows ==
    ASSUME RoleInvariant, NEW c \in Clients, session[c] = "served",
           NEW f \in Feeds, NEW r \in Roles
    PROVE  Decision(c, f, r) <=> Permitted(c, f, r)
<1> DEFINE u == origin[c][1]
           host == EffectiveHost(origin[c][2], origin[c][3])
           entries == roles[u][f]
           given == permissions[c][f]
<1>1. /\ u \in Users /\ origin[c][2] \in Hosts /\ origin[c][3] \in Hosts \cup {None}
      /\ DOMAIN permissions[c] = NamedFeeds(u)
      /\ \A g \in NamedFeeds(u) :
                    Chosen(c, g)[1] = "yes" /\ permissions[c][g] = Chosen(c, g)[2]
  BY DEF RoleInvariant, PermissionInv
<1>2. host \in Seq(Characters) /\ (entries # None => entries \in Seq(Entries))
  BY <1>1, EffectiveHostType, RolesType DEF RoleInvariant, TypeOK
<1>3. f \in NamedFeeds(u) <=> entries # None
  BY DEF NamedFeeds
<1>4. \A i : Entry(c, f, i) <=> /\ Matches(host, entries[i].pattern)
                                /\ \A j \in 1..(i - 1) : ~Matches(host, entries[j].pattern)
  BY DEF Entry, EffectiveHost
<1>5. Permitted(c, f, r) <=>
        \/ /\ entries # None
           /\ \E i \in 1..Len(entries) :
                    Entry(c, f, i) /\ r \in entries[i].allow /\ r \notin entries[i].deny
        \/ /\ r \in Allow /\ r \notin Deny
           /\ \/ entries = None
              \/ \E i \in 1..Len(entries) :
                    Entry(c, f, i) /\ r \notin entries[i].allow /\ r \notin entries[i].deny
  BY DEF Permitted
<1>6. CASE entries = None
  <2>1. Decision(c, f, r) <=> r \in Allow /\ r \notin Deny
    BY <1>1, <1>3, <1>6 DEF Decision
  <2> QED
    BY <1>5, <1>6, <2>1
<1>7. CASE entries # None
  <2>1. Decision(c, f, r) <=> /\ r \notin given.deny
                              /\ r \in given.allow \/ (r \in Allow /\ r \notin Deny)
    BY <1>1, <1>3, <1>7 DEF Decision
  <2>2. given = FirstMatch(host, entries)[2] /\ FirstMatch(host, entries)[1] = "yes"
    BY <1>1, <1>3, <1>7 DEF Chosen
  <2>3. \/ /\ given = Everything
           /\ \A i \in 1..Len(entries) : ~Matches(host, entries[i].pattern)
        \/ \E i \in 1..Len(entries) :
             /\ given = entries[i]
             /\ Matches(host, entries[i].pattern)
             /\ \A j \in 1..(i - 1) : ~Matches(host, entries[j].pattern)
    <3> HIDE DEF u, host, entries, given
    <3> QED
      BY <1>2, <1>7, <2>2, FirstMatchFacts
  <2>4. Len(entries) \in Nat
    BY <1>2, <1>7
  <2> HIDE DEF u, host, entries, given
  <2>5. CASE given = Everything /\ \A i \in 1..Len(entries) : ~Matches(host, entries[i].pattern)
    BY <1>4, <1>5, <1>7, <2>1, <2>5 DEF Everything
  <2>6. ASSUME NEW i \in 1..Len(entries), given = entries[i],
               Matches(host, entries[i].pattern),
               \A j \in 1..(i - 1) : ~Matches(host, entries[j].pattern)
        PROVE  Decision(c, f, r) <=> Permitted(c, f, r)
    <3>1. Entry(c, f, i)
      BY <1>4, <2>6
    <3>2. ASSUME NEW k \in 1..Len(entries), Entry(c, f, k) PROVE k = i
      <4>1. Matches(host, entries[k].pattern) /\ \A j \in 1..(k - 1) : ~Matches(host, entries[j].pattern)
        BY <1>4, <3>2
      <4>2. ~(i \in 1..(k - 1)) /\ ~(k \in 1..(i - 1))
        BY <2>6, <4>1
      <4> QED
        BY <2>4, <4>2
    <3> QED
      BY <1>5, <1>7, <2>1, <2>6, <3>1, <3>2
  <2> QED
    BY <2>3, <2>5, <2>6
<1> QED
  BY <1>6, <1>7

\* A client that is admitted has the permissions the file gives it.
LEMMA CreateInteractorStep ==
    ASSUME RoleInvariant, NEW c \in Clients, NEW u \in Users, NEW isPasswordRight \in BOOLEAN,
           NEW host \in Hosts, NEW forwardedFor \in Hosts \cup {None},
           CreateInteractor(c, u, isPasswordRight, host, forwardedFor)
    PROVE  RoleInvariant'
<1> DEFINE Match(f) == FirstMatch(EffectiveHost(host, forwardedFor), roles[u][f])
           given == [f \in NamedFeeds(u) |-> Match(f)[2]]
           status == session'[c]
<1>1. UNCHANGED <<file, editing, watcher, changed, loading, passwords, told, sharing, roles,
                  decisions>>
  BY DEF CreateInteractor, passwordFile, fixed
<1>2. /\ session' = [session EXCEPT ![c] = status]
      /\ status \in {"refused", "unserved", "served"}
      /\ session[c] = "new"
      /\ status # "served" => UNCHANGED <<origin, permissions>>
      /\ status = "served" =>
            /\ origin' = [origin EXCEPT ![c] = <<u, host, forwardedFor>>]
            /\ permissions' = [permissions EXCEPT ![c] = given]
            /\ \A f \in NamedFeeds(u) : Match(f)[1] = "yes"
  <2>1. session \in [Clients -> {"new", "refused", "unserved", "served"}]
    BY DEF RoleInvariant, TypeOK
  <2> QED
    BY <2>1 DEF CreateInteractor
<1>3. given \in [NamedFeeds(u) -> Entries]
  BY PermissionsType DEF RoleInvariant, TypeOK
<1> HIDE DEF status, given, Match
<1>4. session' \in [Clients -> {"new", "refused", "unserved", "served"}]
  BY <1>2 DEF RoleInvariant, TypeOK
<1>5. origin' \in [Clients -> (Users \X Hosts \X (Hosts \cup {None})) \cup {None}]
  BY <1>2 DEF RoleInvariant, TypeOK
<1>6. /\ DOMAIN permissions' = Clients
      /\ \A b \in Clients : b # c => permissions'[b] = permissions[b]
      /\ status = "served" => permissions'[c] = given
      /\ status # "served" => permissions'[c] = permissions[c]
  BY <1>2 DEF RoleInvariant, TypeOK
<1>7. \A b \in Clients : \E named \in SUBSET Feeds : permissions'[b] \in [named -> Entries]
  <2>1. NamedFeeds(u) \in SUBSET Feeds
    BY DEF NamedFeeds
  <2>2. \A b \in Clients : \E named \in SUBSET Feeds : permissions[b] \in [named -> Entries]
    BY DEF RoleInvariant, TypeOK
  <2> QED
    BY <1>3, <1>6, <2>1, <2>2
<1>8. TypeOK'
  BY <1>1, <1>4, <1>5, <1>6, <1>7 DEF RoleInvariant, TypeOK
<1>9. \A b \in Clients : b # c => session'[b] = session[b] /\ origin'[b] = origin[b]
  BY <1>2 DEF RoleInvariant, TypeOK
<1>10. decisions[c] = {}
  BY <1>2 DEF RoleInvariant, PermissionInv
<1>11. PermissionInv'
  <2> SUFFICES ASSUME NEW b \in Clients
               PROVE  IF session'[b] = "served"
                      THEN /\ origin'[b] \in Users \X Hosts \X (Hosts \cup {None})
                           /\ DOMAIN permissions'[b] = NamedFeeds(origin'[b][1])
                           /\ \A f \in NamedFeeds(origin'[b][1]) :
                                Chosen(b, f)'[1] = "yes" /\ permissions'[b][f] = Chosen(b, f)'[2]
                      ELSE decisions[b] = {}
    BY <1>1 DEF PermissionInv, NamedFeeds
  <2>1. CASE b # c
    <3>1. \A f : Chosen(b, f)' = Chosen(b, f)
      BY <1>1, <1>9, <2>1 DEF Chosen, EffectiveHost
    <3> QED
      BY <1>6, <1>9, <2>1, <3>1 DEF RoleInvariant, PermissionInv
  <2>2. CASE b = c /\ status = "served"
    <3>1. origin'[c] = <<u, host, forwardedFor>>
      BY <1>2, <2>2 DEF RoleInvariant, TypeOK
    <3>2. \A f : Chosen(c, f)' = Match(f)
      BY <1>1, <3>1 DEF Chosen, EffectiveHost, Match
    <3>3. \A f \in NamedFeeds(u) : given[f] = Match(f)[2]
      BY DEF given
    <3>4. DOMAIN given = NamedFeeds(u)
      BY <1>3
    <3>5. permissions'[c] = given /\ \A f \in NamedFeeds(u) : Match(f)[1] = "yes"
      BY <1>2, <1>6, <2>2
    <3>6. origin'[c] \in Users \X Hosts \X (Hosts \cup {None}) /\ origin'[c][1] = u
      BY <3>1
    <3>7. session'[c] = "served"
      BY <1>2, <2>2 DEF RoleInvariant, TypeOK
    <3> QED
      BY <2>2, <3>2, <3>3, <3>4, <3>5, <3>6, <3>7
  <2>3. CASE b = c /\ status # "served"
    BY <1>2, <1>10, <2>3 DEF RoleInvariant, TypeOK
  <2> QED
    BY <2>1, <2>2, <2>3
<1>12. DecisionInv'
  <2> SUFFICES ASSUME NEW b \in Clients, NEW d \in decisions[b]
               PROVE  d[3] = Decision(b, d[1], d[2])'
    BY <1>1 DEF DecisionInv
  <2>1. permissions'[b] = permissions[b]
    BY <1>6, <1>10
  <2>2. Decision(b, d[1], d[2])' = Decision(b, d[1], d[2])
    BY <2>1 DEF Decision
  <2> QED
    BY <2>2 DEF RoleInvariant, DecisionInv
<1> QED
  BY <1>8, <1>11, <1>12 DEF RoleInvariant

LEMMA HasRoleStep ==
    ASSUME RoleInvariant, NEW c \in Clients, NEW f \in Feeds, NEW r \in Roles, HasRole(c, f, r)
    PROVE  RoleInvariant'
<1> DEFINE decided == Decision(c, f, r)
<1>1. UNCHANGED <<file, editing, watcher, changed, loading, passwords, told, sharing, roles,
                  session, origin, permissions>>
  BY DEF HasRole, passwordFile, fixed
<1>2. session[c] = "served" /\ decisions' = [decisions EXCEPT ![c] = @ \cup {<<f, r, decided>>}]
  BY DEF HasRole
<1>3. decided \in BOOLEAN
  BY DEF Decision
<1> HIDE DEF decided
<1>4. decisions' \in [Clients -> SUBSET (Feeds \X Roles \X BOOLEAN)]
  <2>1. <<f, r, decided>> \in Feeds \X Roles \X BOOLEAN
    BY <1>3
  <2>2. decisions[c] \cup {<<f, r, decided>>} \in SUBSET (Feeds \X Roles \X BOOLEAN)
    BY <2>1 DEF RoleInvariant, TypeOK
  <2> QED
    BY <1>2, <2>2 DEF RoleInvariant, TypeOK
<1>5. TypeOK'
  BY <1>1, <1>4 DEF RoleInvariant, TypeOK
<1>6. \A b \in Clients : b # c => decisions'[b] = decisions[b]
  BY <1>2 DEF RoleInvariant, TypeOK
<1>7. PermissionInv'
  <2>1. \A b, g : Chosen(b, g)' = Chosen(b, g)
    BY <1>1 DEF Chosen, EffectiveHost
  <2>2. \A b : NamedFeeds(b)' = NamedFeeds(b)
    BY <1>1 DEF NamedFeeds
  <2> QED
    BY <1>1, <1>2, <1>6, <2>1, <2>2 DEF RoleInvariant, PermissionInv
<1>8. DecisionInv'
  <2> SUFFICES ASSUME NEW b \in Clients, NEW d \in decisions'[b]
               PROVE  d[3] = Decision(b, d[1], d[2])'
    BY DEF DecisionInv
  <2>1. Decision(b, d[1], d[2])' = Decision(b, d[1], d[2])
    BY <1>1 DEF Decision
  <2>2. CASE d \in decisions[b]
    BY <2>1, <2>2 DEF RoleInvariant, DecisionInv
  <2>3. CASE b = c /\ d = <<f, r, decided>>
    <3>1. d[1] = f /\ d[2] = r /\ d[3] = decided
      BY <2>3
    <3> QED
      BY <2>1, <2>3, <3>1 DEF decided
  <2>4. decisions'[c] = decisions[c] \cup {<<f, r, decided>>}
    BY <1>2 DEF RoleInvariant, TypeOK
  <2> QED
    BY <1>6, <2>2, <2>3, <2>4
<1> QED
  BY <1>5, <1>7, <1>8 DEF RoleInvariant

LEMMA RoleStep ==
    ASSUME RoleInvariant, [Next]_vars
    PROVE  RoleInvariant'
<1>1. CASE UNCHANGED <<fixed, sessions>> /\ FileTypeOK'
  <2>1. \A b, g : Chosen(b, g)' = Chosen(b, g)
    BY <1>1 DEF Chosen, EffectiveHost, fixed, sessions
  <2>2. \A b : NamedFeeds(b)' = NamedFeeds(b)
    BY <1>1 DEF NamedFeeds, fixed
  <2>3. \A b, g, r : Decision(b, g, r)' = Decision(b, g, r)
    BY <1>1 DEF Decision, sessions
  <2>4. TypeOK'
    BY <1>1 DEF RoleInvariant, TypeOK, FileTypeOK, fixed, sessions
  <2>5. PermissionInv'
    BY <1>1, <2>1, <2>2 DEF RoleInvariant, PermissionInv, fixed, sessions
  <2>6. DecisionInv'
    BY <1>1, <2>3 DEF RoleInvariant, DecisionInv, sessions
  <2> QED
    BY <2>4, <2>5, <2>6 DEF RoleInvariant
<1>2. FileTypeOK
  BY DEF RoleInvariant, TypeOK, FileTypeOK
<1>3. Next => FileTypeOK'
  BY <1>2, FileTypeStep
<1>4. CASE UNCHANGED vars
  BY <1>1, <1>2, <1>4 DEF vars, passwordFile, FileTypeOK
<1>5. ASSUME Truncate \/ WriteText \/ CloseFile \/ Reload
      PROVE  UNCHANGED <<fixed, sessions>> /\ FileTypeOK'
  <2>1. Next
    BY <1>5 DEF Next
  <2> QED
    BY <1>3, <1>5, <2>1
       DEF Truncate, WriteText, CloseFile, Reload, Change, Enable, OnChanged, Assign
<1> QED
  BY <1>1, <1>4, <1>5, CreateInteractorStep, HasRoleStep DEF Next

LEMMA RoleInit == Init => RoleInvariant
<1> SUFFICES ASSUME Init PROVE RoleInvariant
  OBVIOUS
<1>1. permissions = [c \in Clients |-> [f \in {} |-> Everything]]
  BY DEF Init
<1>2. \A c \in Clients : permissions[c] \in [{} -> Entries]
  BY <1>1
<1>3. \A c \in Clients : \E named \in SUBSET Feeds : permissions[c] \in [named -> Entries]
  BY <1>2
<1>4. file # Partial /\ file \in Contents /\ passwords \in SUBSET Users
  BY ContentsFacts DEF Init
<1>5. TypeOK
  BY <1>1, <1>3, <1>4 DEF Init, TypeOK
<1>6. PermissionInv /\ DecisionInv
  BY DEF Init, PermissionInv, DecisionInv
<1> QED
  BY <1>5, <1>6 DEF RoleInvariant

\* Every reachable state is well typed: the file is in parts only while it is
\* written, a load is under way only at a watcher that is alive, and a client is
\* permitted or denied roles for feeds, for any users, hosts and role files.
THEOREM TypeCorrect == Spec => []TypeOK
<1>1. RoleInvariant /\ [Next]_vars => RoleInvariant'
  BY RoleStep
<1>2. RoleInvariant => TypeOK
  BY DEF RoleInvariant
<1> QED
  BY RoleInit, <1>1, <1>2, PTL DEF Spec

\* RoleManager: whatever the role file, the hosts and the settings, every decision
\* follows from the first entry that matches the client's host for the feed, where
\* what is denied overrules what is allowed and both overrule the settings; entries
\* of which none matches deny.
THEOREM DecisionsFollowRolesHolds == Spec => []DecisionsFollowRoles
<1>1. RoleInvariant /\ [Next]_vars => RoleInvariant'
  BY RoleStep
<1>2. ASSUME RoleInvariant PROVE DecisionsFollowRoles
  <2> SUFFICES ASSUME NEW c \in Clients, NEW d \in decisions[c]
               PROVE  d[3] = Permitted(c, d[1], d[2])
    BY DEF DecisionsFollowRoles
  <2>1. d[1] \in Feeds /\ d[2] \in Roles
    BY <1>2 DEF RoleInvariant, TypeOK
  <2>2. session[c] = "served"
    BY <1>2 DEF RoleInvariant, PermissionInv
  <2>3. Decision(c, d[1], d[2]) <=> Permitted(c, d[1], d[2])
    BY <1>2, <2>1, <2>2, DecisionFollows
  <2>4. d[3] = Decision(c, d[1], d[2])
    BY <1>2 DEF RoleInvariant, DecisionInv
  <2>5. Decision(c, d[1], d[2]) \in BOOLEAN /\ Permitted(c, d[1], d[2]) \in BOOLEAN
    BY DEF Decision, Permitted
  <2> QED
    BY <2>3, <2>4, <2>5
<1> QED
  BY RoleInit, <1>1, <1>2, PTL DEF Spec
=============================================================================
