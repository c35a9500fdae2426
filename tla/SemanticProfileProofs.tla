----------------------- MODULE SemanticProfileProofs -----------------------
(***************************************************************************)
(* Proofs about SemanticProfile: IInv is an inductive invariant of the     *)
(* specification, and the three properties of the larger run follow from   *)
(* it.  Profiles that are deleted, calls that overlap and writes that fail *)
(* are all in it: a profile that lasts keeps its session and its schema, a *)
(* deleted one never comes back, and what a call has read is compared with *)
(* its profile only while nothing of the profile is lost.                  *)
(***************************************************************************)
EXTENDS SemanticProfile, FiniteSetTheorems, TLAPS

---------------------------------------------------------------------------
(* The extreme members of a set of numbers.  That they exist follows from  *)
(* the well-founded order of the finite sets 0..p.                         *)

LEMMA Least == ASSUME NEW S, S \subseteq Nat, S # {} PROVE \E x \in S : \A y \in S : x <= y
<1> DEFINE Below(p) == 0..p
           T == {Below(p) : p \in S}
           R == StrictSubsetOrdering(Nat)
<1>1. T \subseteq FiniteSubsetsOf(Nat)
  <2> SUFFICES ASSUME NEW p \in S PROVE 0..p \in FiniteSubsetsOf(Nat)
    OBVIOUS
  <2>1. IsFiniteSet(0..p)
    BY FS_Interval
  <2> QED BY <2>1 DEF FiniteSubsetsOf
<1>2. T # {}
  OBVIOUS
<1>3. IsWellFoundedOn(R, FiniteSubsetsOf(Nat))
  BY FS_StrictSubsetOrderingWellFounded
<1>4. \E s \in T : \A t \in T : ~(<<t, s>> \in R)
  <2> HIDE DEF T, R
  <2> QED BY <1>1, <1>2, <1>3, WFMin
<1>5. PICK p \in S : \A t \in T : ~(<<t, Below(p)>> \in R)
  BY <1>4
<1>6. ASSUME NEW q \in S, q < p PROVE FALSE
  <2>1. /\ Below(q) \in SUBSET Nat /\ Below(p) \in SUBSET Nat
        /\ Below(q) \subseteq Below(p) /\ p \in Below(p) /\ p \notin Below(q)
    BY <1>6
  <2>2. <<Below(q), Below(p)>> \in R
    <3> HIDE DEF Below
    <3> QED BY <2>1 DEF StrictSubsetOrdering
  <2> QED BY <2>2, <1>5
<1> QED BY <1>6

LEMMA MinIsLeast == ASSUME NEW S, S \subseteq Nat, S # {} PROVE Min(S) \in S /\ \A y \in S : Min(S) <= y
  BY Least DEF Min

LEMMA MaxIsGreatest ==
  ASSUME NEW S, NEW n \in Nat, S \subseteq 1..n, S # {}
  PROVE  Max(S) \in S /\ \A y \in S : Max(S) >= y
<1> DEFINE T == {n - p : p \in S}
<1>1. PICK x \in T : \A y \in T : x <= y
  <2>1. T \subseteq Nat
    <3> SUFFICES ASSUME NEW p \in S PROVE n - p \in Nat
      OBVIOUS
    <3> QED BY p \in 1..n
  <2>2. T # {}
    OBVIOUS
  <2> HIDE DEF T
  <2> QED BY <2>1, <2>2, Least
<1>2. PICK p \in S : x = n - p
  OBVIOUS
<1>3. \A q \in S : p >= q
  <2> SUFFICES ASSUME NEW q \in S PROVE p >= q
    OBVIOUS
  <2>1. n - p <= n - q
    BY <1>1, <1>2
  <2> QED BY <2>1, p \in 1..n, q \in 1..n
<1> QED BY <1>3 DEF Max

---------------------------------------------------------------------------
(* Merging *)

(* The newest confirmation for the workspace is one, of the schema asked   *)
(* for.                                                                    *)
LEMMA WorkspaceConfirmationFits ==
  ASSUME TypeOK, NEW sig
  PROVE  LET ws == FindWorkspaceConfirmation(sig)
         IN  /\ ws \in 0..MaxConfirms
             /\ ws # 0 => /\ ws \in Confirms /\ conf[ws].scope = "workspace" /\ conf[ws].sig = sig
<1> USE SemanticProfileAssumption
<1>1. WorkspaceConfirms(sig) # {} => Max(WorkspaceConfirms(sig)) \in WorkspaceConfirms(sig)
  <2>1. WorkspaceConfirms(sig) \subseteq 1..MaxConfirms
    BY DEF WorkspaceConfirms, Confirms
  <2> QED BY <2>1, MaxIsGreatest
<1> QED BY <1>1 DEF FindWorkspaceConfirmation, WorkspaceConfirms, Confirms

(* A merge loses no value, gives one to every key the session confirmed,   *)
(* and takes it from a confirmation that was meant for the profile.        *)
LEMMA MergeFits ==
  ASSUME TypeOK, NEW p \in Profiles, NEW value \in [Keys -> 0..MaxConfirms],
         InScope(p, value), NEW s \in {prof[p].session, None},
         \A c \in Confirms : conf[c].scope = "session" => conf[c].session # None
  PROVE  LET new == ApplyConfirmations(value, prof[p].sig, s)
         IN  /\ new \in [Keys -> 0..MaxConfirms]
             /\ InScope(p, new)
             /\ \A k \in Keys : value[k] # 0 => new[k] # 0
             /\ \A c \in ListBySession(s) : \A k \in conf[c].keys : new[k] # 0
<1> USE SemanticProfileAssumption
<1> DEFINE sig == prof[p].sig
           ws == FindWorkspaceConfirmation(sig)
           base == IF ws = 0 THEN value ELSE DeepMerge(value, ws)
           mine(k) == {c \in ListBySession(s) : k \in conf[c].keys}
           new == ApplyConfirmations(value, sig, s)
<1>1. ws \in 0..MaxConfirms /\ (ws # 0 => ws \in Confirms /\ conf[ws].scope = "workspace" /\ conf[ws].sig = sig)
  BY WorkspaceConfirmationFits
<1>2. new = [k \in Keys |-> IF mine(k) = {} THEN base[k] ELSE Min(mine(k))]
  BY DEF ApplyConfirmations
<1> HIDE DEF ws, new
<1>3. ASSUME NEW k \in Keys
      PROVE  base[k] \in 0..MaxConfirms /\ (value[k] # 0 => base[k] # 0)
             /\ (base[k] = value[k] \/ (base[k] = ws /\ ws # 0 /\ k \in conf[ws].keys))
  BY <1>1 DEF DeepMerge
<1>4. ASSUME NEW k \in Keys, mine(k) # {}
      PROVE  Min(mine(k)) \in mine(k) /\ Min(mine(k)) \in Confirms
  <2>1. mine(k) \subseteq Nat /\ mine(k) \subseteq Confirms
    BY DEF ListBySession, Confirms
  <2> QED BY <2>1, <1>4, MinIsLeast
<1> HIDE DEF base, mine
<1>5. new \in [Keys -> 0..MaxConfirms]
  <2>1. ASSUME NEW k \in Keys PROVE (IF mine(k) = {} THEN base[k] ELSE Min(mine(k))) \in 0..MaxConfirms
    BY <1>3, <1>4 DEF Confirms
  <2> QED BY <2>1, <1>2
<1>6. InScope(p, new)
  <2> SUFFICES ASSUME NEW k \in Keys, new[k] # 0
               PROVE  /\ k \in conf[new[k]].keys
                      /\ IF conf[new[k]].scope = "session" THEN conf[new[k]].session = prof[p].session
                         ELSE conf[new[k]].sig = prof[p].sig
    BY DEF InScope
  <2>1. CASE mine(k) # {}
    <3>1. new[k] = Min(mine(k))
      BY <2>1, <1>2
    <3>2. new[k] \in mine(k) /\ new[k] \in Confirms
      BY <3>1, <1>4, <2>1
    <3> QED BY <3>2 DEF mine, ListBySession
  <2>2. CASE mine(k) = {}
    <3>1. new[k] = base[k]
      BY <2>2, <1>2
    <3> QED BY <3>1, <1>3, <1>1 DEF InScope
  <2> QED BY <2>1, <2>2
<1>7. ASSUME NEW k \in Keys, value[k] # 0 PROVE new[k] # 0
  BY <1>2, <1>3, <1>4, <1>7 DEF Confirms
<1>8. ASSUME NEW c \in ListBySession(s), NEW k \in conf[c].keys PROVE new[k] # 0
  <2>1. k \in Keys /\ c \in mine(k)
    BY DEF ListBySession, mine, TypeOK, ConfirmRow
  <2> QED BY <2>1, <1>2, <1>4 DEF Confirms
<1> QED BY <1>5, <1>6, <1>7, <1>8 DEF new

---------------------------------------------------------------------------
(* The invariant, action by action *)

LEMMA InitInv == Init => IInv
<1> SUFFICES ASSUME Init PROVE IInv
  OBVIOUS
<1> USE SemanticProfileAssumption DEF Init, NoProf, NoConf, Idle, NoValues, None
<1>1. TypeOK
  BY DEF TypeOK, ProfileRow, ConfirmRow, Locals
<1>2. RowsNumbered /\ CallsFit /\ ScopeInv
  BY DEF RowsNumbered, CallsFit, ScopeInv, InScope, Profiles, Confirms
<1>3. InStep /\ Unanswered
  BY DEF InStep, Unanswered, Busy, Profiles, Confirms
<1> QED BY <1>1, <1>2, <1>3 DEF IInv

(* Profiles that go, with their confirmations.                             *)
LEMMA DeleteInv ==
  ASSUME IInv, NEW gone \in SUBSET Profiles, DeleteProfiles(gone),
         bound' \in [Sessions -> SUBSET Sources], UNCHANGED <<call, nprof, nconf, lost, answered>>
  PROVE  IInv'
<1> USE SemanticProfileAssumption
<1>1. \A p \in Profiles : prof'[p] = IF p \in gone THEN NoProf ELSE prof[p]
  BY DEF DeleteProfiles, ProfilesWithout
<1>2. \A c \in Confirms :
         /\ conf'[c].prof = conf[c].prof /\ conf'[c].session = conf[c].session
         /\ conf'[c].sig = conf[c].sig /\ conf'[c].scope = conf[c].scope
         /\ conf'[c].keys = conf[c].keys
         /\ conf'[c].live => conf[c].live /\ conf[c].prof \notin gone
         /\ conf[c] = NoConf => conf'[c] = NoConf
         /\ conf'[c] \in ConfirmRow
  <2> SUFFICES ASSUME NEW c \in Confirms
               PROVE  /\ conf'[c].prof = conf[c].prof /\ conf'[c].session = conf[c].session
                      /\ conf'[c].sig = conf[c].sig /\ conf'[c].scope = conf[c].scope
                      /\ conf'[c].keys = conf[c].keys
                      /\ conf'[c].live => conf[c].live /\ conf[c].prof \notin gone
                      /\ conf[c] = NoConf => conf'[c] = NoConf
                      /\ conf'[c] \in ConfirmRow
    OBVIOUS
  <2>1. conf[c] \in ConfirmRow
    BY DEF IInv, TypeOK
  <2>2. conf'[c] = IF conf[c].prof \in gone THEN [conf[c] EXCEPT !.live = FALSE] ELSE conf[c]
    BY DEF DeleteProfiles, ConfirmsWithout
  <2>3. CASE conf[c].prof \in gone
    <3>1. conf[c] # NoConf
      BY <2>3 DEF NoConf, Profiles
    <3> QED BY <3>1, <2>1, <2>2, <2>3 DEF ConfirmRow
  <2>4. CASE conf[c].prof \notin gone
    BY <2>1, <2>2, <2>4
  <2> QED BY <2>3, <2>4
<1>3. TypeOK'
  <2>1. prof' \in [Profiles -> ProfileRow]
    BY DEF DeleteProfiles, ProfilesWithout, IInv, TypeOK, ProfileRow, NoProf, NoValues
  <2>2. conf' \in [Confirms -> ConfirmRow]
    BY <1>2 DEF DeleteProfiles, ConfirmsWithout
  <2> QED BY <2>1, <2>2 DEF IInv, TypeOK
<1>4. RowsNumbered'
  BY <1>1, <1>2 DEF IInv, RowsNumbered, TypeOK, ConfirmRow, Profiles, Confirms
<1>5. ASSUME NEW p \in Profiles \ gone, NEW value \in [Keys -> 0..MaxConfirms], InScope(p, value)
      PROVE  InScope(p, value)'
  BY <1>1, <1>2, <1>5 DEF InScope, Confirms
<1>6. CallsFit'
  <2> SUFFICES ASSUME NEW w \in Callers, call[w].pc \in {"insert", "merge"}, prof'[call[w].prof] # NoProf
               PROVE  /\ call[w].session \in {prof'[call[w].prof].session, None}
                      /\ InScope(call[w].prof, call[w].value)'
    BY DEF IInv, CallsFit
  <2>1. call[w].prof \in Profiles \ gone /\ call[w].value \in [Keys -> 0..MaxConfirms]
    BY <1>1 DEF IInv, CallsFit, TypeOK, Locals, Profiles
  <2> QED BY <2>1, <1>1, <1>5 DEF IInv, CallsFit
<1>7. ScopeInv'
  <2> SUFFICES ASSUME NEW p \in Profiles PROVE InScope(p, prof[p].value)'
    BY DEF ScopeInv
  <2>1. CASE p \in gone
    BY <2>1, <1>1 DEF InScope, NoProf, NoValues
  <2>2. CASE p \notin gone
    BY <2>2, <1>1, <1>5 DEF IInv, ScopeInv, TypeOK, ProfileRow
  <2> QED BY <2>1, <2>2
<1>8. InStep'
  BY <1>1, <1>2 DEF IInv, InStep, Busy, RowsNumbered
<1>9. Unanswered'
  <2> SUFFICES ASSUME NEW p \in Profiles \ answered, prof'[p] # NoProf, QuestionsOf(prof'[p].sig) # {}
               PROVE  /\ prof'[p].open = QuestionsOf(prof'[p].sig) /\ prof'[p].status # "confirmed"
                      /\ \A c \in Confirms : conf'[c].live => conf'[c].prof # p
                      /\ \A w \in Busy(p) : \/ call[w].pc = "created"
                                            \/ call[w].pc = "insert" /\ call[w].keys # {}
    BY DEF Unanswered, Busy, QuestionsOf
  <2>1. prof'[p] = prof[p]
    BY <1>1
  <2> QED
    <3>1. /\ prof[p].open = QuestionsOf(prof[p].sig) /\ prof[p].status # "confirmed"
          /\ \A c \in Confirms : conf[c].live => conf[c].prof # p
          /\ \A w \in Busy(p) : \/ call[w].pc = "created" \/ (call[w].pc = "insert" /\ call[w].keys # {})
      BY <2>1 DEF IInv, Unanswered
    <3> QED BY <3>1, <2>1, <1>2
<1> QED BY <1>3, <1>4, <1>6, <1>7, <1>8, <1>9 DEF IInv

LEMMA RemovalsInv ==
  ASSUME IInv, (\E s \in Sessions, src \in Sources : RemoveSessionSource(s, src))
               \/ (\E src \in Sources : DeleteWorkspaceSource(src))
  PROVE  IInv'
<1>1. ASSUME NEW s \in Sessions, NEW src \in Sources, RemoveSessionSource(s, src) PROVE IInv'
  BY <1>1, DeleteInv DEF RemoveSessionSource, SessionProfiles, IInv, TypeOK
<1>2. ASSUME NEW src \in Sources, DeleteWorkspaceSource(src) PROVE IInv'
  BY <1>2, DeleteInv DEF DeleteWorkspaceSource, IInv, TypeOK
<1> QED BY <1>1, <1>2

(* A call that writes what it has worked out into its profile, or fails to, *)
(* and goes on to the status or ends.                                       *)
LEMMA WriteInv ==
  ASSUME IInv, NEW w \in Callers, NEW p \in Profiles, p = call[w].prof, call[w].pc # "idle",
         UNCHANGED <<conf, bound, nprof, nconf>>,
         prof' \in [Profiles -> ProfileRow], \A q \in Profiles \ {p} : prof'[q] = prof[q],
         prof[p] = NoProf => prof'[p] = NoProf,
         prof'[p].session = prof[p].session, prof'[p].sig = prof[p].sig, InScope(p, prof'[p].value),
         call' = [call EXCEPT ![w] = Idle] \/ ToStatus(w),
         lost' \in {lost, lost \cup {p}}, answered' \in {answered, answered \cup {p}},
         p \notin lost' => \A c \in Confirms :
             conf[c].live /\ conf[c].scope = "session" /\ conf[c].prof = p =>
                 \A k \in conf[c].keys :
                     prof[p].value[k] # 0 \/ (call[w].pc = "merge" /\ call[w].session = conf[c].session)
                     => prof'[p].value[k] # 0,
         prof[p] # NoProf /\ QuestionsOf(prof[p].sig) # {} /\ p \notin answered' =>
             prof'[p] = prof[p] /\ call' = [call EXCEPT ![w] = Idle]
  PROVE  IInv'
<1> USE SemanticProfileAssumption
<1>1. call[w].prof \in 1..nprof /\ call \in [Callers -> Locals] /\ p \in 1..nprof
  BY DEF IInv, CallsFit, TypeOK
<1>2. /\ call' \in [Callers -> Locals] /\ \A v \in Callers \ {w} : call'[v] = call[v]
      /\ call'[w] = Idle \/ (call'[w].pc = "status" /\ call'[w].prof = p)
  <2>1. Idle \in Locals /\ [Idle EXCEPT !.pc = "status", !.prof = p] \in Locals
    <3>1. NoValues \in [Keys -> 0..MaxConfirms] /\ p \in 0..MaxProfiles /\ 0 \in 0..MaxProfiles
      BY DEF NoValues, Profiles
    <3> QED BY <3>1 DEF Idle, Locals
  <2> QED BY <2>1, <1>1 DEF ToStatus, Idle
<1>3. TypeOK'
  BY <1>1, <1>2 DEF IInv, TypeOK
<1>4. \A q \in Profiles : /\ prof'[q].session = prof[q].session /\ prof'[q].sig = prof[q].sig
                          /\ prof[q] = NoProf => prof'[q] = NoProf
  OBVIOUS
<1>5. RowsNumbered'
  <2>1. \A q \in Profiles : prof[q] # NoProf => prof'[q] # NoProf
    BY <1>4 DEF IInv, RowsNumbered, NoProf
  <2> QED BY <1>4, <2>1 DEF IInv, RowsNumbered, TypeOK, Profiles, Confirms
<1>6. ASSUME NEW q \in Profiles, NEW value, InScope(q, value) PROVE InScope(q, value)'
  BY <1>4, <1>6 DEF InScope
<1>7. CallsFit'
  <2> SUFFICES ASSUME NEW v \in Callers
               PROVE  /\ call'[v].pc = "idle" => call'[v] = Idle
                      /\ call'[v].pc # "idle" => call'[v].prof \in 1..nprof
                      /\ call'[v].pc = "insert" => /\ call'[v].scope # None
                                                   /\ call'[v].scope = "session" => call'[v].session # None
                      /\ call'[v].pc \in {"insert", "merge"} /\ prof'[call'[v].prof] # NoProf =>
                            /\ call'[v].session \in {prof'[call'[v].prof].session, None}
                            /\ InScope(call[v].prof, call[v].value)'
    BY DEF CallsFit
  <2>1. CASE v = w
    BY <1>1, <1>2, <2>1 DEF Idle
  <2>2. CASE v # w
    <3>1. call'[v] = call[v] /\ (call[v].pc # "idle" => call[v].prof \in Profiles)
      BY <1>2, <2>2 DEF IInv, CallsFit, TypeOK, Profiles
    <3> QED BY <3>1, <1>4, <1>6 DEF IInv, CallsFit
  <2> QED BY <2>1, <2>2
<1>8. ScopeInv'
  <2> SUFFICES ASSUME NEW q \in Profiles PROVE InScope(q, prof[q].value)'
    BY DEF ScopeInv
  <2>1. InScope(q, prof'[q].value)
    BY DEF IInv, ScopeInv
  <2> HIDE DEF IInv
  <2> QED BY <2>1, <1>4 DEF InScope
<1>9. InStep'
  <2> SUFFICES ASSUME NEW q \in Profiles \ lost'
               PROVE  /\ \A u, v \in Busy(q)' : u = v
                      /\ \A v \in Busy(q)' :
                            /\ call'[v].pc \in {"insert", "merge"} /\ prof'[q] # NoProf => call'[v].value = prof'[q].value
                            /\ call'[v].pc = "created" => \A c \in Confirms : conf'[c].prof # q
                      /\ \A c \in Confirms : conf'[c].live /\ conf'[c].scope = "session" /\ conf'[c].prof = q =>
                            \/ \A k \in conf'[c].keys : prof'[q].value[k] # 0
                            \/ \E v \in Busy(q)' : call'[v].pc = "merge" /\ call'[v].session = conf'[c].session
    BY DEF InStep
  <2>1. q \notin lost /\ Busy(q)' \subseteq Busy(q)
    BY <1>1, <1>2 DEF Busy, Idle, Profiles
  <2>2. CASE q # p
    <3>1. \A v \in Busy(q) : v # w /\ v \in Callers
      BY <2>2 DEF Busy
    <3>2. prof'[q] = prof[q] /\ Busy(q)' = Busy(q) /\ \A v \in Busy(q) : call'[v] = call[v]
      BY <2>1, <2>2, <3>1, <1>2 DEF Busy
    <3> QED BY <2>1, <3>2 DEF IInv, InStep
  <2>3. CASE q = p
    <3>1. w \in Busy(p) /\ \A v \in Busy(p) : v = w
      BY <2>1, <2>3 DEF IInv, InStep, Busy
    <3>2. \A v \in Busy(q)' : v = w /\ call'[v].pc \notin {"insert", "merge", "created"}
      BY <2>1, <2>3, <3>1, <1>2 DEF Idle
    <3>3. ASSUME NEW c \in Confirms, conf[c].live, conf[c].scope = "session", conf[c].prof = p
          PROVE  \A k \in conf[c].keys : prof'[p].value[k] # 0
      <4>1. conf[c].keys \subseteq Keys
        BY DEF IInv, TypeOK, ConfirmRow
      <4>2. \/ \A k \in conf[c].keys : prof[p].value[k] # 0
            \/ (call[w].pc = "merge" /\ call[w].session = conf[c].session)
        BY <2>1, <2>3, <3>1, <3>3 DEF IInv, InStep
      <4> QED BY <4>1, <4>2, <3>3, <2>3
    <3> QED BY <2>3, <3>2, <3>3
  <2> QED BY <2>2, <2>3
<1>10. Unanswered'
  <2> SUFFICES ASSUME NEW q \in Profiles \ answered', prof'[q] # NoProf, QuestionsOf(prof'[q].sig) # {}
               PROVE  /\ prof'[q].open = QuestionsOf(prof'[q].sig) /\ prof'[q].status # "confirmed"
                      /\ \A c \in Confirms : conf[c].live => conf[c].prof # q
                      /\ \A v \in Busy(q)' : \/ call'[v].pc = "created"
                                             \/ call'[v].pc = "insert" /\ call'[v].keys # {}
    BY DEF Unanswered, QuestionsOf
  <2>1. prof[q] # NoProf /\ QuestionsOf(prof[q].sig) # {} /\ q \notin answered
    BY <1>4 DEF QuestionsOf
  <2>2. prof'[q] = prof[q] /\ (q = p => call'[w] = Idle)
    BY <2>1, <1>1
  <2>3. \A v \in Busy(q)' : v \in Busy(q) /\ call'[v] = call[v]
    BY <2>2, <1>1, <1>2 DEF Busy, Idle, Profiles
  <2>4. /\ prof[q].open = QuestionsOf(prof[q].sig) /\ prof[q].status # "confirmed"
        /\ \A c \in Confirms : conf[c].live => conf[c].prof # q
        /\ \A v \in Busy(q) : \/ call[v].pc = "created" \/ (call[v].pc = "insert" /\ call[v].keys # {})
    BY <2>1 DEF IInv, Unanswered
  <2> QED BY <2>2, <2>3, <2>4
<1> QED BY <1>3, <1>5, <1>7, <1>8, <1>9, <1>10 DEF IInv

LEMMA CallersProfile ==
  ASSUME IInv, NEW w \in Callers, call[w].pc # "idle"
  PROVE  call[w].prof \in Profiles /\ call[w] \in Locals /\ prof[call[w].prof] \in ProfileRow
  BY SemanticProfileAssumption DEF IInv, TypeOK, CallsFit, Profiles

LEMMA SessionConfirms ==
  ASSUME IInv PROVE \A c \in Confirms : conf[c].scope = "session" => conf[c].session # None
  BY DEF IInv, RowsNumbered, NoConf, None

LEMMA SetConfirmedInv ==
  ASSUME IInv, NEW w \in Callers, SetConfirmed(w)
  PROVE  IInv'
<1> DEFINE p == call[w].prof
<1>1. /\ call[w].pc = "status" /\ call' = [call EXCEPT ![w] = Idle]
      /\ UNCHANGED <<conf, bound, nprof, nconf, lost, answered>>
  BY DEF SetConfirmed, At, Ends
<1>2. p \in Profiles /\ prof[p] \in ProfileRow /\ prof \in [Profiles -> ProfileRow]
  BY <1>1, CallersProfile DEF IInv, TypeOK
<1>3. prof' = prof \/ (prof[p] # NoProf /\ prof' = [prof EXCEPT ![p].status = "confirmed"])
  BY DEF SetConfirmed, UpdateStatus
<1>4. /\ prof' \in [Profiles -> ProfileRow] /\ \A q \in Profiles \ {p} : prof'[q] = prof[q]
      /\ prof[p] = NoProf => prof'[p] = NoProf
      /\ prof'[p].session = prof[p].session /\ prof'[p].sig = prof[p].sig
      /\ prof'[p].value = prof[p].value
  <2>1. CASE prof' = prof
    BY <2>1, <1>2
  <2>2. CASE prof[p] # NoProf /\ prof' = [prof EXCEPT ![p].status = "confirmed"]
    <3> HIDE DEF p
    <3>1. [prof[p] EXCEPT !.status = "confirmed"] \in ProfileRow
      BY <1>2 DEF ProfileRow
    <3> QED BY <3>1, <2>2, <1>2 DEF ProfileRow
  <2> QED BY <2>1, <2>2, <1>3
<1>5. w \in Busy(p) /\ (prof[p] # NoProf /\ QuestionsOf(prof[p].sig) # {} => p \in answered)
  BY <1>1, <1>2 DEF IInv, Unanswered, Busy
<1>6. InScope(p, prof'[p].value)
  BY <1>2, <1>4 DEF IInv, ScopeInv
<1>7. p \notin lost' => \A c \in Confirms :
         conf[c].live /\ conf[c].scope = "session" /\ conf[c].prof = p =>
             \A k \in conf[c].keys :
                 prof[p].value[k] # 0 \/ (call[w].pc = "merge" /\ call[w].session = conf[c].session)
                 => prof'[p].value[k] # 0
  BY <1>1, <1>4
<1> HIDE DEF p
<1> QED BY <1>1, <1>2, <1>4, <1>5, <1>6, <1>7, WriteInv DEF p

LEMMA MergeWorkspaceInv ==
  ASSUME IInv, NEW w \in Callers, MergeWorkspace(w)
  PROVE  IInv'
<1> DEFINE p == call[w].prof
           new == ApplyConfirmations(NoValues, prof[p].sig, None)
<1>1. call[w].pc = "created" /\ UNCHANGED <<conf, bound, nprof, nconf>>
  BY DEF MergeWorkspace, At
<1>2. p \in Profiles /\ call[w] \in Locals /\ prof[p] \in ProfileRow /\ prof \in [Profiles -> ProfileRow]
  BY <1>1, CallersProfile DEF IInv, TypeOK
<1>3. new \in [Keys -> 0..MaxConfirms] /\ InScope(p, new)
  <2>1. NoValues \in [Keys -> 0..MaxConfirms] /\ InScope(p, NoValues)
    BY SemanticProfileAssumption DEF NoValues, InScope
  <2> QED BY <2>1, <1>2, MergeFits, SessionConfirms DEF IInv
<1>4. w \in Busy(p)
  BY <1>2 DEF Busy
<1>5. CASE prof' = prof /\ lost' = lost /\ answered' = answered /\ call' = [call EXCEPT ![w] = Idle]
  <2>1. InScope(p, prof'[p].value)
    BY <1>2, <1>5 DEF IInv, ScopeInv
  <2> HIDE DEF p
  <2> QED BY <1>1, <1>2, <1>5, <2>1, WriteInv DEF p
<1>6. CASE prof' = prof /\ lost' = lost \cup {p} /\ answered' = answered \cup {p} /\ ToStatus(w)
  <2>1. InScope(p, prof'[p].value)
    BY <1>2, <1>6 DEF IInv, ScopeInv
  <2> HIDE DEF p
  <2> QED BY <1>1, <1>2, <1>6, <2>1, WriteInv DEF p
<1>7. CASE /\ prof[p] # NoProf /\ UpdateProfileJSON(p, call[w].open, new)
           /\ lost' \in {lost, lost \cup {p}} /\ answered' = answered \cup {p} /\ ToStatus(w)
  <2>1. /\ prof' \in [Profiles -> ProfileRow] /\ \A q \in Profiles \ {p} : prof'[q] = prof[q]
        /\ prof'[p].session = prof[p].session /\ prof'[p].sig = prof[p].sig /\ prof'[p].value = new
    <3> HIDE DEF new
    <3> QED BY <1>2, <1>3, <1>7 DEF UpdateProfileJSON, ProfileRow, Locals
  <2>2. ASSUME p \notin lost' PROVE \A c \in Confirms : conf[c].prof # p
    BY <1>1, <1>2, <1>4, <1>7, <2>2 DEF IInv, InStep
  <2> HIDE DEF p, new
  <2> QED BY <1>1, <1>2, <1>3, <1>7, <2>1, <2>2, WriteInv DEF p
<1> QED BY <1>2, <1>5, <1>6, <1>7 DEF MergeWorkspace, Ends

LEMMA MergeAndUpdateInv ==
  ASSUME IInv, NEW w \in Callers, MergeAndUpdate(w)
  PROVE  IInv'
<1> DEFINE p == call[w].prof
           open == RemoveResolvedAmbiguities(call[w].open, prof[p].sig)
           new == ApplyConfirmations(call[w].value, prof[p].sig, call[w].session)
<1>1. call[w].pc = "merge" /\ ToStatus(w) /\ UNCHANGED <<conf, bound, nprof, nconf, answered>>
  BY DEF MergeAndUpdate, At
<1>2. p \in Profiles /\ call[w] \in Locals /\ prof[p] \in ProfileRow /\ prof \in [Profiles -> ProfileRow]
  BY <1>1, CallersProfile DEF IInv, TypeOK
<1>3. w \in Busy(p) /\ (prof[p] # NoProf /\ QuestionsOf(prof[p].sig) # {} => p \in answered)
  BY <1>1, <1>2 DEF IInv, Unanswered, Busy
<1>4. CASE prof' = prof /\ (lost' = lost \cup {p} \/ (prof[p] = NoProf /\ lost' = lost))
  <2>1. InScope(p, prof'[p].value)
    BY <1>2, <1>4 DEF IInv, ScopeInv
  <2>2. p \notin lost' => \A c \in Confirms : ~(conf[c].live /\ conf[c].prof = p)
    BY <1>2, <1>4 DEF IInv, RowsNumbered, NoConf, Profiles
  <2> HIDE DEF p
  <2> QED BY <1>1, <1>2, <1>3, <1>4, <2>1, <2>2, WriteInv DEF p
<1>5. CASE prof[p] # NoProf /\ UpdateProfileJSON(p, open, new) /\ lost' = lost
  <2>1. /\ new \in [Keys -> 0..MaxConfirms] /\ InScope(p, new)
        /\ \A k \in Keys : call[w].value[k] # 0 => new[k] # 0
        /\ \A c \in ListBySession(call[w].session) : \A k \in conf[c].keys : new[k] # 0
    <3>1. /\ call[w].value \in [Keys -> 0..MaxConfirms] /\ InScope(p, call[w].value)
          /\ call[w].session \in {prof[p].session, None}
      BY <1>1, <1>2, <1>5 DEF IInv, CallsFit, Locals
    <3> QED BY <3>1, <1>2, MergeFits, SessionConfirms DEF IInv
  <2>2. open \in SUBSET Keys
    BY <1>2 DEF RemoveResolvedAmbiguities, Locals
  <2> HIDE DEF new, open
  <2>3. /\ prof' \in [Profiles -> ProfileRow] /\ \A q \in Profiles \ {p} : prof'[q] = prof[q]
        /\ prof'[p].session = prof[p].session /\ prof'[p].sig = prof[p].sig /\ prof'[p].value = new
    BY <1>2, <1>5, <2>1, <2>2 DEF UpdateProfileJSON, ProfileRow
  <2>4. p \notin lost' => \A c \in Confirms :
           conf[c].live /\ conf[c].scope = "session" /\ conf[c].prof = p =>
               \A k \in conf[c].keys :
                   prof[p].value[k] # 0 \/ (call[w].pc = "merge" /\ call[w].session = conf[c].session)
                   => prof'[p].value[k] # 0
    <3> SUFFICES ASSUME p \notin lost, NEW c \in Confirms, conf[c].live, conf[c].scope = "session",
                        conf[c].prof = p, NEW k \in conf[c].keys
                 PROVE  prof[p].value[k] # 0 \/ call[w].session = conf[c].session => new[k] # 0
      BY <1>5, <2>3
    <3>1. call[w].value = prof[p].value /\ k \in Keys
      BY <1>1, <1>2, <1>3, <1>5 DEF IInv, InStep, TypeOK, ConfirmRow
    <3>2. call[w].session = conf[c].session => c \in ListBySession(call[w].session)
      BY DEF ListBySession
    <3> QED BY <2>1, <3>1, <3>2
  <2> HIDE DEF p
  <2> QED BY <1>1, <1>2, <1>3, <1>5, <2>1, <2>3, <2>4, WriteInv DEF p
<1> QED BY <1>4, <1>5 DEF MergeAndUpdate

(* A call begins: it reads the profile.                                    *)
LEMMA ConfirmProfileInv ==
  ASSUME IInv, NEW w \in Callers, NEW p \in Profiles, NEW s \in Sessions \cup {None},
         NEW scope \in {"session", "workspace"}, NEW keys \in Overrides, ConfirmProfile(w, p, s, scope, keys)
  PROVE  IInv'
<1> USE SemanticProfileAssumption
<1>1. /\ call[w].pc = "idle" /\ call[w] = Idle /\ prof[p] # NoProf /\ s \in {prof[p].session, None}
      /\ scope = "session" => s # None
      /\ prof[p].open # {} => keys # {}
      /\ UNCHANGED <<prof, conf, bound, nprof, nconf, answered>>
      /\ lost' = IF Busy(p) = {} THEN lost ELSE lost \cup {p}
      /\ call \in [Callers -> Locals] /\ prof[p] \in ProfileRow /\ p \in 1..nprof
  BY DEF ConfirmProfile, At, IInv, CallsFit, AcceptsOverride, TypeOK, RowsNumbered, Profiles
<1> DEFINE new == [pc |-> "insert", prof |-> p, session |-> s, scope |-> scope,
                   keys |-> keys, open |-> prof[p].open, value |-> prof[p].value]
<1>2. new \in Locals
  BY <1>1 DEF Locals, ProfileRow, Profiles
<1>3. /\ call' \in [Callers -> Locals] /\ call'[w] = new
      /\ \A v \in Callers \ {w} : call'[v] = call[v]
  BY <1>1, <1>2 DEF ConfirmProfile
<1>4. TypeOK' /\ RowsNumbered'
  BY <1>1, <1>3 DEF IInv, TypeOK, RowsNumbered
<1>5. ASSUME NEW q, NEW value, InScope(q, value) PROVE InScope(q, value)'
  BY <1>1, <1>5 DEF InScope
<1>6. ScopeInv'
  BY <1>1, <1>5 DEF IInv, ScopeInv
<1>7. CallsFit'
  <2> SUFFICES ASSUME NEW v \in Callers
               PROVE  /\ call'[v].pc = "idle" => call'[v] = Idle
                      /\ call'[v].pc # "idle" => call'[v].prof \in 1..nprof
                      /\ call'[v].pc = "insert" => /\ call'[v].scope # None
                                                   /\ call'[v].scope = "session" => call'[v].session # None
                      /\ call'[v].pc \in {"insert", "merge"} /\ prof[call'[v].prof] # NoProf =>
                            /\ call'[v].session \in {prof[call'[v].prof].session, None}
                            /\ InScope(call[v].prof, call[v].value)'
    BY <1>1 DEF CallsFit
  <2>1. CASE v = w
    BY <1>1, <1>3, <1>5, <2>1 DEF IInv, ScopeInv, None
  <2>2. CASE v # w
    BY <1>1, <1>3, <1>5, <2>2 DEF IInv, CallsFit
  <2> QED BY <2>1, <2>2
<1>8. InStep'
  <2> SUFFICES ASSUME NEW q \in Profiles \ lost'
               PROVE  /\ \A u, v \in Busy(q)' : u = v
                      /\ \A v \in Busy(q)' :
                            /\ call'[v].pc \in {"insert", "merge"} /\ prof[q] # NoProf => call'[v].value = prof[q].value
                            /\ call'[v].pc = "created" => \A c \in Confirms : conf[c].prof # q
                      /\ \A c \in Confirms : conf[c].live /\ conf[c].scope = "session" /\ conf[c].prof = q =>
                            \/ \A k \in conf[c].keys : prof[q].value[k] # 0
                            \/ \E v \in Busy(q)' : call'[v].pc = "merge" /\ call'[v].session = conf[c].session
    BY <1>1 DEF InStep
  <2>1. q \notin lost
    BY <1>1
  <2>2. CASE q # p
    <3>1. Busy(q)' = Busy(q) /\ \A v \in Busy(q) : call'[v] = call[v]
      BY <2>2, <1>1, <1>3 DEF Busy, Idle, Profiles
    <3> QED BY <2>1, <3>1 DEF IInv, InStep
  <2>3. CASE q = p
    <3>1. Busy(p) = {} /\ Busy(q)' = {w}
      BY <2>3, <1>1, <1>3 DEF Busy
    <3> QED BY <2>1, <2>3, <3>1, <1>3 DEF IInv, InStep
  <2> QED BY <2>2, <2>3
<1>9. Unanswered'
  <2> SUFFICES ASSUME NEW q \in Profiles \ answered, prof[q] # NoProf, QuestionsOf(prof[q].sig) # {}
               PROVE  /\ prof[q].open = QuestionsOf(prof[q].sig) /\ prof[q].status # "confirmed"
                      /\ \A c \in Confirms : conf[c].live => conf[c].prof # q
                      /\ \A v \in Busy(q)' : \/ call'[v].pc = "created"
                                             \/ call'[v].pc = "insert" /\ call'[v].keys # {}
    BY <1>1 DEF Unanswered, QuestionsOf
  <2>1. /\ prof[q].open = QuestionsOf(prof[q].sig) /\ prof[q].status # "confirmed"
        /\ \A c \in Confirms : conf[c].live => conf[c].prof # q
        /\ \A v \in Busy(q) : \/ call[v].pc = "created" \/ (call[v].pc = "insert" /\ call[v].keys # {})
    BY DEF IInv, Unanswered
  <2>2. ASSUME NEW v \in Busy(q)'
        PROVE  call'[v].pc = "created" \/ (call'[v].pc = "insert" /\ call'[v].keys # {})
    <3>1. CASE v = w
      BY <3>1, <2>1, <2>2, <1>1, <1>3 DEF Busy
    <3>2. CASE v # w
      BY <3>2, <2>1, <2>2, <1>3 DEF Busy
    <3> QED BY <3>1, <3>2
  <2> QED BY <2>1, <2>2
<1> QED BY <1>4, <1>6, <1>7, <1>8, <1>9 DEF IInv

(* The confirmation gets the next number, which no value has yet.          *)
LEMMA InsertInv ==
  ASSUME IInv, NEW w \in Callers, CreateConfirmation(w), conf' # conf \/ nconf' # nconf
  PROVE  IInv'
<1> USE SemanticProfileAssumption
<1> DEFINE p == call[w].prof
           n == nconf + 1
           row == [prof |-> p, session |-> call[w].session, sig |-> prof[p].sig,
                   scope |-> call[w].scope, keys |-> call[w].keys, live |-> TRUE]
<1>1. /\ call[w].pc = "insert" /\ nconf < MaxConfirms /\ prof[p] # NoProf /\ nconf' = n
      /\ conf' = [conf EXCEPT ![n] = row]
      /\ call' = [call EXCEPT ![w].pc = "merge", ![w].scope = None, ![w].keys = {}]
      /\ answered' = IF call[w].keys = {} THEN answered ELSE answered \cup {p}
      /\ UNCHANGED <<prof, bound, nprof, lost>>
  BY DEF CreateConfirmation, At
<1>2. /\ p \in Profiles /\ p \in 1..nprof /\ call[w] \in Locals /\ call \in [Callers -> Locals]
      /\ prof[p] \in ProfileRow /\ prof \in [Profiles -> ProfileRow]
      /\ conf \in [Confirms -> ConfirmRow] /\ n \in Confirms /\ nconf \in 0..MaxConfirms
  BY <1>1, CallersProfile DEF IInv, TypeOK, CallsFit, Confirms
<1>3. /\ call[w].scope # None /\ (call[w].scope = "session" => call[w].session # None)
      /\ call[w].session \in {prof[p].session, None} /\ InScope(p, call[w].value)
  BY <1>1 DEF IInv, CallsFit
<1>4. row \in ConfirmRow
  BY <1>2 DEF ConfirmRow, Locals, ProfileRow, Profiles
<1> HIDE DEF p, row
<1>5. /\ conf' \in [Confirms -> ConfirmRow] /\ conf'[n] = row /\ \A c \in Confirms \ {n} : conf'[c] = conf[c]
  BY <1>1, <1>2, <1>4
<1>6. /\ call' \in [Callers -> Locals] /\ \A v \in Callers \ {w} : call'[v] = call[v]
      /\ call'[w].pc = "merge" /\ call'[w].prof = p /\ call'[w].session = call[w].session
      /\ call'[w].value = call[w].value
  BY <1>1, <1>2 DEF Locals, p
<1>7. conf[n] = NoConf
  BY <1>2 DEF IInv, RowsNumbered, Confirms
<1>8. TypeOK'
  BY <1>1, <1>2, <1>5, <1>6 DEF IInv, TypeOK
<1>9. RowsNumbered'
  <2> SUFFICES ASSUME NEW c \in Confirms
               PROVE  IF c > nconf' THEN conf'[c] = NoConf
                      ELSE /\ conf'[c].prof \in 1..nprof /\ conf'[c].scope # None
                           /\ conf'[c].scope = "session" => conf'[c].session # None
                           /\ conf'[c].live => prof[conf'[c].prof] # NoProf
    BY <1>1 DEF IInv, RowsNumbered
  <2>1. CASE c = n
    BY <2>1, <1>1, <1>2, <1>3, <1>5 DEF row, Confirms
  <2>2. CASE c # n
    BY <2>2, <1>1, <1>2, <1>5 DEF IInv, RowsNumbered, Confirms
  <2> QED BY <2>1, <2>2
<1>10. ASSUME NEW q, NEW value \in [Keys -> 0..MaxConfirms], InScope(q, value) PROVE InScope(q, value)'
  <2>1. \A k \in Keys : value[k] # n
    BY <1>2, <1>7, <1>10 DEF InScope, NoConf
  <2> QED BY <2>1, <1>1, <1>5, <1>10 DEF InScope, Confirms
<1>11. ScopeInv'
  <2> SUFFICES ASSUME NEW q \in Profiles PROVE InScope(q, prof[q].value)'
    BY <1>1 DEF ScopeInv
  <2> QED BY <1>1, <1>2, <1>10 DEF IInv, ScopeInv, ProfileRow
<1>12. CallsFit'
  <2> SUFFICES ASSUME NEW v \in Callers
               PROVE  /\ call'[v].pc = "idle" => call'[v] = Idle
                      /\ call'[v].pc # "idle" => call'[v].prof \in 1..nprof
                      /\ call'[v].pc = "insert" => /\ call'[v].scope # None
                                                   /\ call'[v].scope = "session" => call'[v].session # None
                      /\ call'[v].pc \in {"insert", "merge"} /\ prof[call'[v].prof] # NoProf =>
                            /\ call'[v].session \in {prof[call'[v].prof].session, None}
                            /\ InScope(call[v].prof, call[v].value)'
    BY <1>1 DEF CallsFit
  <2>1. call[v].value \in [Keys -> 0..MaxConfirms]
    BY <1>2 DEF Locals
  <2>2. CASE v = w
    BY <1>1, <1>2, <1>3, <1>6, <1>10, <2>1, <2>2 DEF p
  <2>3. CASE v # w
    BY <1>1, <1>6, <1>10, <2>1, <2>3 DEF IInv, CallsFit
  <2> QED BY <2>2, <2>3
<1>13. \A q \in Profiles : Busy(q)' = Busy(q)
  BY <1>6 DEF Busy, p
<1>14. InStep'
  <2> SUFFICES ASSUME NEW q \in Profiles \ lost
               PROVE  /\ \A u, v \in Busy(q)' : u = v
                      /\ \A v \in Busy(q)' :
                            /\ call'[v].pc \in {"insert", "merge"} /\ prof[q] # NoProf => call'[v].value = prof[q].value
                            /\ call'[v].pc = "created" => \A c \in Confirms : conf'[c].prof # q
                      /\ \A c \in Confirms : conf'[c].live /\ conf'[c].scope = "session" /\ conf'[c].prof = q =>
                            \/ \A k \in conf'[c].keys : prof[q].value[k] # 0
                            \/ \E v \in Busy(q)' : call'[v].pc = "merge" /\ call'[v].session = conf'[c].session
    <3>1. UNCHANGED <<prof, lost>>
      BY <1>1
    <3> QED BY <3>1 DEF InStep
  <2>1. /\ \A u, v \in Busy(q) : u = v
        /\ \A v \in Busy(q) :
              /\ call[v].pc \in {"insert", "merge"} /\ prof[q] # NoProf => call[v].value = prof[q].value
              /\ call[v].pc = "created" => \A c \in Confirms : conf[c].prof # q
        /\ \A c \in Confirms : conf[c].live /\ conf[c].scope = "session" /\ conf[c].prof = q =>
              \/ \A k \in conf[c].keys : prof[q].value[k] # 0
              \/ \E v \in Busy(q) : call[v].pc = "merge" /\ call[v].session = conf[c].session
    BY DEF IInv, InStep
  <2>2. Busy(q) \subseteq Callers
    BY DEF Busy
  <2>3. CASE q # p
    <3>1. \A v \in Busy(q) : v # w /\ call'[v] = call[v]
      BY <2>2, <2>3, <1>6 DEF Busy, p
    <3>2. \A c \in Confirms : conf'[c].prof = q => conf'[c] = conf[c]
      BY <2>3, <1>5 DEF row
    <3>3. \A c \in Confirms : conf[c].prof # q => conf'[c].prof # q
      BY <2>3, <1>5 DEF row
    <3> QED BY <2>1, <3>1, <3>2, <3>3, <1>13
  <2>4. CASE q = p
    <3>1. w \in Busy(q) /\ \A v \in Busy(q) : v = w
      BY <2>1, <2>4 DEF Busy, p
    <3>2. ASSUME NEW c \in Confirms, conf'[c].live, conf'[c].scope = "session", conf'[c].prof = q
          PROVE  \/ \A k \in conf'[c].keys : prof[q].value[k] # 0
                 \/ \E v \in Busy(q) : call'[v].pc = "merge" /\ call'[v].session = conf'[c].session
      <4>1. CASE c = n
        BY <4>1, <3>1, <1>5, <1>6 DEF row
      <4>2. CASE c # n
        BY <4>2, <3>1, <3>2, <2>1, <1>1, <1>5
      <4> QED BY <4>1, <4>2
    <3> QED BY <2>1, <2>4, <3>1, <3>2, <1>1, <1>6, <1>13
  <2> QED BY <2>3, <2>4
<1>15. Unanswered'
  <2> SUFFICES ASSUME NEW q \in Profiles \ answered', prof[q] # NoProf, QuestionsOf(prof[q].sig) # {}
               PROVE  /\ prof[q].open = QuestionsOf(prof[q].sig) /\ prof[q].status # "confirmed"
                      /\ \A c \in Confirms : conf'[c].live => conf'[c].prof # q
                      /\ \A v \in Busy(q)' : \/ call'[v].pc = "created"
                                             \/ call'[v].pc = "insert" /\ call'[v].keys # {}
    BY <1>1 DEF Unanswered, QuestionsOf
  <2>1. /\ prof[q].open = QuestionsOf(prof[q].sig) /\ prof[q].status # "confirmed"
        /\ \A c \in Confirms : conf[c].live => conf[c].prof # q
        /\ \A v \in Busy(q) : \/ call[v].pc = "created" \/ (call[v].pc = "insert" /\ call[v].keys # {})
    BY <1>1 DEF IInv, Unanswered
  <2>2. q # p
    BY <2>1, <1>1, <1>2 DEF Busy, p
  <2>3. \A v \in Busy(q) : call'[v] = call[v]
    BY <2>2, <1>6 DEF Busy, p
  <2>4. \A c \in Confirms : conf'[c].live => conf'[c].prof # q
    BY <2>1, <2>2, <1>5 DEF row
  <2> QED BY <2>1, <2>3, <2>4, <1>13
<1> QED BY <1>8, <1>9, <1>11, <1>12, <1>14, <1>15 DEF IInv

LEMMA CreateConfirmationInv ==
  ASSUME IInv, NEW w \in Callers, CreateConfirmation(w)
  PROVE  IInv'
<1>1. CASE conf' # conf \/ nconf' # nconf
  BY <1>1, InsertInv
<1>2. CASE UNCHANGED <<conf, nconf>>
  <2>1. /\ call[w].pc = "insert" /\ call' = [call EXCEPT ![w] = Idle]
        /\ UNCHANGED <<prof, conf, bound, nprof, nconf, lost, answered>>
    <3>1. nconf \in Nat
      BY DEF IInv, TypeOK
    <3> QED BY <1>2, <3>1 DEF CreateConfirmation, At, Ends
  <2>2. call[w].prof \in Profiles /\ prof' \in [Profiles -> ProfileRow]
    BY <2>1, CallersProfile DEF IInv, TypeOK
  <2>3. InScope(call[w].prof, prof'[call[w].prof].value)
    BY <2>1, <2>2 DEF IInv, ScopeInv
  <2> QED BY <2>1, <2>2, <2>3, WriteInv
<1> QED BY <1>1, <1>2

(* A new profile gets a number that no call and no confirmation has.       *)
LEMMA CreateSemanticProfileInv ==
  ASSUME IInv, NEW w \in Callers, NEW s \in Sessions, NEW src \in Sources, NEW sig \in Signatures,
         CreateSemanticProfile(w, s, src, sig)
  PROVE  IInv'
<1> USE SemanticProfileAssumption
<1> DEFINE n == nprof + 1
           row == [session |-> s, source |-> src, sig |-> sig, status |-> "profiled",
                   open |-> QuestionsOf(sig), value |-> NoValues]
           new == [Idle EXCEPT !.pc = "created", !.prof = nprof + 1, !.open = QuestionsOf(sig)]
<1>1. PICK gone \in {{}, SessionProfiles(s, src)} :
         /\ prof' = [ProfilesWithout(gone) EXCEPT ![n] = row]
         /\ conf' = ConfirmsWithout(gone)
  BY DEF CreateSemanticProfile
<1>2. /\ call[w] = Idle /\ nprof < MaxProfiles /\ nprof' = n /\ call' = [call EXCEPT ![w] = new]
      /\ bound' = [bound EXCEPT ![s] = @ \cup {src}] /\ UNCHANGED <<nconf, lost, answered>>
  BY DEF CreateSemanticProfile, At, IInv, CallsFit
<1>3. n \in Profiles /\ gone \in SUBSET Profiles /\ nprof \in 0..MaxProfiles /\ nconf \in 0..MaxConfirms
  BY <1>1, <1>2 DEF IInv, TypeOK, Profiles, SessionProfiles
<1>4. row \in ProfileRow /\ new \in Locals /\ new.pc = "created" /\ new.prof = n /\ row # NoProf
  <2>1. NoValues \in [Keys -> 0..MaxConfirms] /\ QuestionsOf(sig) \in SUBSET Keys
    BY DEF NoValues, QuestionsOf
  <2>2. row \in ProfileRow
    BY <2>1 DEF ProfileRow
  <2>3. row # NoProf
    BY DEF NoProf, None
  <2>4. n \in 0..MaxProfiles /\ 0 \in 0..MaxProfiles
    BY <1>3 DEF Profiles
  <2>5. new \in Locals /\ new.pc = "created" /\ new.prof = n
    <3> HIDE DEF n
    <3> QED BY <2>1, <2>4 DEF Idle, Locals, n
  <2> QED BY <2>2, <2>3, <2>5
<1>5. \A p \in Profiles : prof'[p] = IF p = n THEN row ELSE IF p \in gone THEN NoProf ELSE prof[p]
  <2> HIDE DEF row
  <2> QED BY <1>1, <1>3 DEF ProfilesWithout
<1>6. \A c \in Confirms :
         /\ conf'[c].prof = conf[c].prof /\ conf'[c].session = conf[c].session
         /\ conf'[c].sig = conf[c].sig /\ conf'[c].scope = conf[c].scope
         /\ conf'[c].keys = conf[c].keys
         /\ conf'[c].live => conf[c].live /\ conf[c].prof \notin gone
         /\ conf[c] = NoConf => conf'[c] = NoConf
         /\ conf'[c] \in ConfirmRow
  <2> SUFFICES ASSUME NEW c \in Confirms
               PROVE  /\ conf'[c].prof = conf[c].prof /\ conf'[c].session = conf[c].session
                      /\ conf'[c].sig = conf[c].sig /\ conf'[c].scope = conf[c].scope
                      /\ conf'[c].keys = conf[c].keys
                      /\ conf'[c].live => conf[c].live /\ conf[c].prof \notin gone
                      /\ conf[c] = NoConf => conf'[c] = NoConf
                      /\ conf'[c] \in ConfirmRow
    OBVIOUS
  <2>1. conf[c] \in ConfirmRow
    BY DEF IInv, TypeOK
  <2>2. conf'[c] = IF conf[c].prof \in gone THEN [conf[c] EXCEPT !.live = FALSE] ELSE conf[c]
    BY <1>1 DEF ConfirmsWithout
  <2>3. CASE conf[c].prof \in gone
    <3>1. conf[c] # NoConf
      BY <2>3, <1>3 DEF NoConf, Profiles
    <3> QED BY <3>1, <2>1, <2>2, <2>3 DEF ConfirmRow
  <2>4. CASE conf[c].prof \notin gone
    BY <2>1, <2>2, <2>4
  <2> QED BY <2>3, <2>4
<1>7. call' \in [Callers -> Locals] /\ call'[w] = new /\ \A v \in Callers \ {w} : call'[v] = call[v]
  <2> HIDE DEF new
  <2> QED BY <1>2, <1>4 DEF IInv, TypeOK
<1>8. /\ \A c \in Confirms : conf[c].prof # n
      /\ \A v \in Callers : call[v].prof # n
  BY <1>3 DEF IInv, RowsNumbered, NoConf, CallsFit, Idle
<1> HIDE DEF new
<1>9. TypeOK'
  <2>1. prof' \in [Profiles -> ProfileRow]
    <3>1. \A p \in Profiles : prof'[p] \in ProfileRow
      <4>1. NoProf \in ProfileRow
        BY DEF NoProf, ProfileRow, NoValues
      <4> HIDE DEF row
      <4> QED BY <4>1, <1>4, <1>5 DEF IInv, TypeOK
    <3> HIDE DEF row
    <3> QED BY <3>1, <1>1, <1>3 DEF ProfilesWithout
  <2>2. conf' \in [Confirms -> ConfirmRow]
    BY <1>1, <1>6 DEF ConfirmsWithout
  <2>3. lost' \subseteq 1..nprof' /\ answered' \subseteq 1..nprof' /\ nprof' \in 0..MaxProfiles
    BY <1>2, <1>3 DEF IInv, TypeOK
  <2> QED BY <2>1, <2>2, <2>3, <1>2, <1>7 DEF IInv, TypeOK
<1>10. RowsNumbered'
  <2>1. ASSUME NEW p \in Profiles, prof'[p] # NoProf
        PROVE  p <= nprof' /\ prof'[p].session # None
    <3>1. CASE p = n
      BY <3>1, <1>2, <1>3, <1>5 DEF None
    <3>2. CASE p # n
      BY <3>2, <2>1, <1>2, <1>3, <1>5 DEF IInv, RowsNumbered, Profiles
    <3> QED BY <3>1, <3>2
  <2>2. ASSUME NEW c \in Confirms
        PROVE  IF c > nconf THEN conf'[c] = NoConf
               ELSE /\ conf'[c].prof \in 1..nprof' /\ conf'[c].scope # None
                    /\ conf'[c].scope = "session" => conf'[c].session # None
                    /\ conf'[c].live => prof'[conf'[c].prof] # NoProf
    <3>1. CASE c > nconf
      BY <3>1, <1>6 DEF IInv, RowsNumbered
    <3>2. CASE ~(c > nconf)
      <4>1. conf[c].prof \in 1..nprof /\ conf[c].prof \in Profiles /\ conf[c].prof # n
        BY <3>2, <1>3, <1>8 DEF IInv, RowsNumbered, Profiles
      <4> QED BY <3>2, <4>1, <1>2, <1>3, <1>5, <1>6 DEF IInv, RowsNumbered
    <3> QED BY <3>1, <3>2
  <2> QED BY <2>1, <2>2, <1>2 DEF RowsNumbered
<1>11. ASSUME NEW p \in Profiles \ {n}, p \notin gone, NEW value \in [Keys -> 0..MaxConfirms], InScope(p, value)
       PROVE  InScope(p, value)'
  BY <1>5, <1>6, <1>11 DEF InScope, Confirms
<1>12. CallsFit'
  <2> SUFFICES ASSUME NEW v \in Callers
               PROVE  /\ call'[v].pc = "idle" => call'[v] = Idle
                      /\ call'[v].pc # "idle" => call'[v].prof \in 1..nprof'
                      /\ call'[v].pc = "insert" => /\ call'[v].scope # None
                                                   /\ call'[v].scope = "session" => call'[v].session # None
                      /\ call'[v].pc \in {"insert", "merge"} /\ prof'[call'[v].prof] # NoProf =>
                            /\ call'[v].session \in {prof'[call'[v].prof].session, None}
                            /\ InScope(call[v].prof, call[v].value)'
    BY DEF CallsFit
  <2>1. CASE v = w
    BY <2>1, <1>2, <1>3, <1>4, <1>7
  <2>2. CASE v # w
    <3>1. call'[v] = call[v] /\ call[v].value \in [Keys -> 0..MaxConfirms]
      BY <2>2, <1>7 DEF IInv, TypeOK, Locals
    <3>2. call[v].pc # "idle" => call[v].prof \in Profiles \ {n} /\ call[v].prof \in 1..nprof'
      BY <1>2, <1>3, <1>8 DEF IInv, CallsFit, TypeOK, Profiles
    <3>3. /\ call[v].pc = "idle" => call[v] = Idle
          /\ call[v].pc = "insert" => call[v].scope # None /\ (call[v].scope = "session" => call[v].session # None)
          /\ call[v].pc \in {"insert", "merge"} /\ prof[call[v].prof] # NoProf =>
                call[v].session \in {prof[call[v].prof].session, None} /\ InScope(call[v].prof, call[v].value)
      BY DEF IInv, CallsFit
    <3> QED BY <3>1, <3>2, <3>3, <1>5, <1>11
  <2> QED BY <2>1, <2>2
<1>13. ScopeInv'
  <2> SUFFICES ASSUME NEW p \in Profiles PROVE InScope(p, prof[p].value)'
    BY DEF ScopeInv
  <2>1. CASE p = n \/ p \in gone
    <3>1. prof'[p].value = NoValues
      BY <2>1, <1>5 DEF NoProf
    <3> QED BY <3>1 DEF InScope, NoValues
  <2>2. CASE p # n /\ p \notin gone
    BY <2>2, <1>5, <1>11 DEF IInv, ScopeInv, TypeOK, ProfileRow
  <2> QED BY <2>1, <2>2
<1>14. \A p \in Profiles : Busy(p)' = IF p = n THEN {w} ELSE Busy(p)
  BY <1>2, <1>4, <1>7, <1>8 DEF Busy, Idle, Profiles
<1>15. InStep'
  <2> SUFFICES ASSUME NEW q \in Profiles \ lost
               PROVE  /\ \A u, v \in Busy(q)' : u = v
                      /\ \A v \in Busy(q)' :
                            /\ call'[v].pc \in {"insert", "merge"} /\ prof'[q] # NoProf => call'[v].value = prof'[q].value
                            /\ call'[v].pc = "created" => \A c \in Confirms : conf'[c].prof # q
                      /\ \A c \in Confirms : conf'[c].live /\ conf'[c].scope = "session" /\ conf'[c].prof = q =>
                            \/ \A k \in conf'[c].keys : prof'[q].value[k] # 0
                            \/ \E v \in Busy(q)' : call'[v].pc = "merge" /\ call'[v].session = conf'[c].session
    BY <1>2 DEF InStep
  <2>1. CASE q = n
    <3>1. Busy(q)' = {w} /\ \A c \in Confirms : conf'[c].prof # q
      BY <2>1, <1>6, <1>8, <1>14
    <3> QED BY <3>1, <1>4, <1>7
  <2>2. CASE q # n
    <3>1. Busy(q)' = Busy(q) /\ \A v \in Busy(q) : call'[v] = call[v]
      <4>1. \A v \in Busy(q) : v # w /\ v \in Callers
        BY <1>2, <1>3 DEF Busy, Idle, Profiles
      <4> QED BY <4>1, <2>2, <1>7, <1>14
    <3>2. prof'[q] # NoProf => prof'[q] = prof[q]
      BY <2>2, <1>5
    <3>3. \A c \in Confirms : conf'[c].live /\ conf'[c].prof = q => prof'[q] = prof[q]
      BY <2>2, <1>5, <1>6
    <3>4. /\ \A u, v \in Busy(q) : u = v
          /\ \A v \in Busy(q) :
                /\ call[v].pc \in {"insert", "merge"} /\ prof[q] # NoProf => call[v].value = prof[q].value
                /\ call[v].pc = "created" => \A c \in Confirms : conf[c].prof # q
          /\ \A c \in Confirms : conf[c].live /\ conf[c].scope = "session" /\ conf[c].prof = q =>
                \/ \A k \in conf[c].keys : prof[q].value[k] # 0
                \/ \E v \in Busy(q) : call[v].pc = "merge" /\ call[v].session = conf[c].session
      BY DEF IInv, InStep
    <3> QED BY <3>1, <3>2, <3>3, <3>4, <1>6
  <2> QED BY <2>1, <2>2
<1>16. Unanswered'
  <2> SUFFICES ASSUME NEW q \in Profiles \ answered, prof'[q] # NoProf, QuestionsOf(prof'[q].sig) # {}
               PROVE  /\ prof'[q].open = QuestionsOf(prof'[q].sig) /\ prof'[q].status # "confirmed"
                      /\ \A c \in Confirms : conf'[c].live => conf'[c].prof # q
                      /\ \A v \in Busy(q)' : \/ call'[v].pc = "created"
                                             \/ call'[v].pc = "insert" /\ call'[v].keys # {}
    BY <1>2 DEF Unanswered, QuestionsOf
  <2>1. CASE q = n
    <3>1. prof'[q] = row /\ \A c \in Confirms : conf'[c].prof # q
      BY <2>1, <1>5, <1>6, <1>8
    <3>2. \A v \in Busy(q)' : call'[v].pc = "created"
      BY <2>1, <1>4, <1>7, <1>14
    <3> QED BY <3>1, <3>2
  <2>2. CASE q # n
    <3>1. prof'[q] = prof[q]
      BY <2>2, <1>5
    <3>2. Busy(q)' = Busy(q) /\ \A v \in Busy(q) : call'[v] = call[v]
      <4>1. \A v \in Busy(q) : v # w /\ v \in Callers
        BY <1>2, <1>3 DEF Busy, Idle, Profiles
      <4> QED BY <4>1, <2>2, <1>7, <1>14
    <3>3. /\ prof[q].open = QuestionsOf(prof[q].sig) /\ prof[q].status # "confirmed"
          /\ \A c \in Confirms : conf[c].live => conf[c].prof # q
          /\ \A v \in Busy(q) : \/ call[v].pc = "created" \/ (call[v].pc = "insert" /\ call[v].keys # {})
      BY <3>1 DEF IInv, Unanswered
    <3> QED BY <3>1, <3>2, <3>3, <1>6
  <2> QED BY <2>1, <2>2
<1> QED BY <1>9, <1>10, <1>12, <1>13, <1>15, <1>16 DEF IInv

---------------------------------------------------------------------------
(* The theorems *)

(* Profiles, confirmations and calls agree as IInv says, whatever is       *)
(* imported, confirmed and removed in whatever order.                      *)
THEOREM Invariance == Spec => []IInv
<1>1. ASSUME IInv, [Next]_vars PROVE IInv'
  <2>1. CASE UNCHANGED vars
    <3> USE <2>1 DEF vars
    <3>1. TypeOK' /\ RowsNumbered'
      BY <1>1 DEF IInv, TypeOK, RowsNumbered
    <3>2. CallsFit' /\ ScopeInv'
      BY <1>1 DEF IInv, CallsFit, ScopeInv, InScope
    <3>3. InStep'
      BY <1>1 DEF IInv, InStep, Busy
    <3>4. Unanswered'
      BY <1>1 DEF IInv, Unanswered, Busy, QuestionsOf
    <3> QED BY <3>1, <3>2, <3>3, <3>4 DEF IInv
  <2>2. CASE Next
    BY <1>1, <2>2, MergeWorkspaceInv, CreateConfirmationInv, MergeAndUpdateInv, SetConfirmedInv,
       CreateSemanticProfileInv, ConfirmProfileInv, RemovalsInv DEF Next
  <2> QED BY <1>1, <2>1, <2>2
<1> QED BY <1>1, InitInv, PTL DEF Spec

(* What one session confirms for itself reaches no profile of another, and *)
(* what was confirmed for the workspace only profiles of the same schema.  *)
THEOREM ScopeKept == Spec => []OverridesStayInScope
<1>1. IInv => OverridesStayInScope
  BY DEF IInv, ScopeInv, InScope, OverridesStayInScope
<1> QED BY <1>1, Invariance, PTL

(* Every key confirmed for a profile has a value there, as long as nothing *)
(* was lost and no call has still to write.                                *)
THEOREM ConfirmedKept == Spec => []ConfirmedKeysHaveValue
<1>1. ASSUME IInv PROVE ConfirmedKeysHaveValue
  <2> SUFFICES ASSUME NEW c \in Confirms, conf[c].live, conf[c].scope = "session",
                      conf[c].prof \notin lost, ~Pending(conf[c].prof)
               PROVE  \A k \in conf[c].keys : prof[conf[c].prof].value[k] # 0
    BY DEF ConfirmedKeysHaveValue
  <2>1. conf[c].prof \in Profiles \ lost
    BY <1>1, SemanticProfileAssumption DEF IInv, RowsNumbered, TypeOK, NoConf, None, Profiles
  <2> QED BY <1>1, <2>1 DEF IInv, InStep, Pending
<1> QED BY <1>1, Invariance, PTL

(* A report is not finalized over a profile with questions that nobody has *)
(* answered.                                                               *)
THEOREM GateHolds == Spec => []GateNeedsAnswer
<1>1. ASSUME IInv PROVE GateNeedsAnswer
  <2> SUFFICES ASSUME NEW s \in Sessions, MayFinalize(s), NEW src \in bound[s], ProfilesOf(src) # {},
                      QuestionsOf(prof[Shown(src)].sig) # {}, Shown(src) \notin answered
               PROVE  FALSE
    BY DEF GateNeedsAnswer
  <2> DEFINE p == Shown(src)
  <2>1. p \in Profiles /\ prof[p].source = src /\ src \in Sources
    <3>1. ProfilesOf(src) \subseteq 1..MaxProfiles
      BY DEF ProfilesOf, Profiles
    <3>2. p \in ProfilesOf(src)
      BY <3>1, MaxIsGreatest, SemanticProfileAssumption DEF Shown
    <3> QED BY <1>1, <3>2 DEF ProfilesOf, IInv, TypeOK
  <2>2. prof[p] # NoProf
    BY <2>1, SemanticProfileAssumption DEF NoProf, None
  <2>3. /\ prof[p].open = QuestionsOf(prof[p].sig) /\ prof[p].status # "confirmed"
        /\ \A c \in Confirms : conf[c].live => conf[c].prof # p
    BY <1>1, <2>1, <2>2 DEF IInv, Unanswered
  <2>4. ConfirmsOf(p) = {} /\ prof[p].open # {} /\ prof[p].open \subseteq Keys
    BY <2>3 DEF ConfirmsOf, QuestionsOf
  <2>5. Cardinality(ConfirmsOf(p)) < Cardinality(prof[p].open)
    <3>1. IsFiniteSet(prof[p].open)
      BY <2>4, FS_Subset, SemanticProfileAssumption
    <3> QED BY <2>4, <3>1, FS_EmptySet, FS_CardinalityType
  <2>6. Unresolved(src)
    BY <2>3, <2>4, <2>5 DEF Unresolved
  <2> QED BY <2>6 DEF MayFinalize
<1> QED BY <1>1, Invariance, PTL
=============================================================================
