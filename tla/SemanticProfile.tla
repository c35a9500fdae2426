--------------------------- MODULE SemanticProfile ---------------------------
(***************************************************************************)
(* The meaning of a source's columns: profiles with open questions, the    *)
(* confirmations that answer them, and the check that keeps a report from  *)
(* being finalized before they are answered (service/source_service.go,    *)
(* handler/data_source.go, tools/report_guardrails.go).                    *)
(*                                                                         *)
(* The workspace has several sessions that share its sources.  A question  *)
(* and the part of a profile that answers it have the same name, a key.    *)
(* Of an override only its keys matter, and of a profile only which        *)
(* confirmation, by its number, gave each key its value.                   *)
(*                                                                         *)
(* Creating and confirming a profile are several statements; the imports   *)
(* of two sessions, users and the agent run them at the same time.         *)
(***************************************************************************)
EXTENDS Naturals, FiniteSets, FiniteSetsExt

CONSTANTS Sessions, Sources,
          Keys,          \* "time", "metric" and "unit", or some of them
          Signatures,    \* ComputeSchemaSignature: the schemas a table may have
          Overrides,     \* the sets of keys that an override may have
          Candidates,    \* of a schema: time columns, groups of like metrics, unit columns
          Callers,       \* requests and tool calls that may be under way at a time
          MaxProfiles, MaxConfirms    \* bounds: profiles and confirmations ever made

ASSUME SemanticProfileAssumption ==
    /\ MaxProfiles \in Nat /\ MaxConfirms \in Nat
    /\ Overrides \subseteq SUBSET Keys
    /\ Candidates \in [Signatures -> [Keys -> Nat]]
    /\ IsFiniteSet(Keys) /\ "none" \notin Sessions \cup Sources   \* ids are generated

None     == "none"
Profiles == 1..MaxProfiles
Confirms == 1..MaxConfirms

VARIABLES
    prof,      \* semantic_profiles, in the order of created_at
    conf,      \* semantic_confirmations, in the order of created_at
    bound,     \* the sources that each session uses
    call,      \* the calls under way and their locals
    nprof, nconf,   \* rows made so far
    lost,      \* history: profiles with calls that overlapped or failed half-way
    answered   \* history: profiles somebody has answered, or confirmed for the workspace

vars == <<prof, conf, bound, call, nprof, nconf, lost, answered>>

NoValues == [k \in Keys |-> 0]
NoProf   == [session |-> None, source |-> None, sig |-> None, status |-> None,
             open |-> {}, value |-> NoValues]
NoConf   == [prof |-> 0, session |-> None, sig |-> None, scope |-> None, keys |-> {}, live |-> FALSE]
Idle     == [pc |-> "idle", prof |-> 0, session |-> None, scope |-> None, keys |-> {},
             open |-> {}, value |-> NoValues]

Init ==
    /\ prof = [p \in Profiles |-> NoProf] /\ conf = [c \in Confirms |-> NoConf]
    /\ bound = [s \in Sessions |-> {}]
    /\ call = [w \in Callers |-> Idle]
    /\ nprof = 0 /\ nconf = 0 /\ lost = {} /\ answered = {}

\* BuildProfileFacts: several time or unit columns, or a group of like metrics.
QuestionsOf(sig) == {k \in Keys : Candidates[sig][k] > (IF k = "metric" THEN 0 ELSE 1)}

At(w, pc) == call[w].pc = pc
Ends(w)   == call' = [call EXCEPT ![w] = Idle]
ToStatus(w) == call' = [call EXCEPT ![w] = [Idle EXCEPT !.pc = "status", !.prof = call[w].prof]]
Busy(p)   == {w \in Callers : call[w].prof = p}

---------------------------------------------------------------------------
(* Merging confirmations into a profile *)

\* deepMergeOverrideIntoProfile: the override's keys replace the profile's.
DeepMerge(value, c) == [k \in Keys |-> IF k \in conf[c].keys THEN c ELSE value[k]]

\* Confirmations for the workspace that concern this schema.
WorkspaceConfirms(sig) == {c \in Confirms : conf[c].live /\ conf[c].scope = "workspace" /\ conf[c].sig = sig}

\* FindWorkspaceConfirmation: the newest.
FindWorkspaceConfirmation(sig) ==
    IF WorkspaceConfirms(sig) = {} THEN 0 ELSE Max(WorkspaceConfirms(sig))

\* Mutant: the confirmations of every session.
ListByAll(s) == {c \in Confirms : conf[c].live /\ conf[c].scope = "session"}

\* ListBySession, and the loop's condition: the profile does not matter.
ListBySession(s) ==
    {c \in Confirms : conf[c].live /\ conf[c].session = s /\ conf[c].scope = "session"}

\* Mutant: only what the workspace has confirmed.
ApplyWorkspaceOnly(value, sig, s) ==
    LET ws == FindWorkspaceConfirmation(sig)
    IN  IF ws = 0 THEN value ELSE DeepMerge(value, ws)

\* applyConfirmations: the workspace's newest, then the session's, newest first, so
\* that of two for the same key the oldest is the last to be merged.
ApplyConfirmations(value, sig, s) ==
    LET ws   == FindWorkspaceConfirmation(sig)
        base == IF ws = 0 THEN value ELSE DeepMerge(value, ws)
        mine(k) == {c \in ListBySession(s) : k \in conf[c].keys}
    IN  [k \in Keys |-> IF mine(k) = {} THEN base[k] ELSE Min(mine(k))]

\* hasKeyInProfile: the candidates that BuildProfileFacts lists count as an answer.
HasKeyInProfile(sig, k) == Candidates[sig][k] > 0

\* removeResolvedAmbiguities
RemoveResolvedAmbiguities(open, sig) == {k \in open : ~HasKeyInProfile(sig, k)}

---------------------------------------------------------------------------
(* CreateSemanticProfile, at the end of an import *)

\* UPDATE finds no row when the profile is gone; a failed one is only logged.
UpdateProfileJSON(p, open, value) ==
    prof' = IF prof[p] = NoProf THEN prof
            ELSE [prof EXCEPT ![p].open = open, ![p].value = value]

UpdateStatus(p) ==
    prof' = IF prof[p] = NoProf THEN prof ELSE [prof EXCEPT ![p].status = "confirmed"]

\* A profile's confirmations go with it; what they gave to other profiles stays there.
ProfilesWithout(gone) == [p \in Profiles |-> IF p \in gone THEN NoProf ELSE prof[p]]
ConfirmsWithout(gone) ==
    [c \in Confirms |-> IF conf[c].prof \in gone THEN [conf[c] EXCEPT !.live = FALSE] ELSE conf[c]]

\* The session's profiles of the source.
SessionProfiles(s, src) == {p \in Profiles : prof[p].session = s /\ prof[p].source = src}

\* The import has bound the source (SourceImport).  The profiles of earlier imports went
\* with their snapshots, unless deleting them failed, which is only logged.
CreateSemanticProfile(w, s, src, sig) ==
    /\ At(w, "idle") /\ nprof < MaxProfiles
    /\ bound' = [bound EXCEPT ![s] = @ \cup {src}]
    /\ nprof' = nprof + 1
    /\ \E gone \in {{}, SessionProfiles(s, src)} :
          /\ prof' = [ProfilesWithout(gone) EXCEPT ![nprof + 1] =
                         [session |-> s, source |-> src, sig |-> sig, status |-> "profiled",
                          open |-> QuestionsOf(sig), value |-> NoValues]]
          /\ conf' = ConfirmsWithout(gone)
    /\ call' = [call EXCEPT ![w] = [Idle EXCEPT !.pc = "created", !.prof = nprof + 1,
                                                !.open = QuestionsOf(sig)]]
    /\ UNCHANGED <<nconf, lost, answered>>

\* What the workspace has confirmed for this schema is merged; the questions stay.
MergeWorkspace(w) ==
    LET p == call[w].prof
        c == FindWorkspaceConfirmation(prof[p].sig)
    IN  /\ At(w, "created")
        /\ IF prof[p] = NoProf \/ c = 0
           THEN Ends(w) /\ UNCHANGED <<prof, answered, lost>>
           ELSE /\ \/ UpdateProfileJSON(p, call[w].open,
                                        ApplyConfirmations(NoValues, prof[p].sig, None))
                      /\ lost' = IF Cardinality(Busy(p)) > 1 THEN lost \cup {p} ELSE lost
                   \/ prof' = prof /\ lost' = lost \cup {p}
                /\ ToStatus(w)
                /\ answered' = answered \cup {p}
        /\ UNCHANGED <<conf, bound, nprof, nconf>>

---------------------------------------------------------------------------
(* ConfirmProfile, by a user or by the agent *)

\* Mutant: an empty override confirms open questions.
AcceptEmpty(p, keys) == TRUE

\* Open questions are not confirmed by an empty override.
AcceptsOverride(p, keys) == prof[p].open # {} => keys # {}

\* A confirmation for the workspace may come without a session.
ConfirmProfile(w, p, s, scope, keys) ==
    /\ At(w, "idle") /\ prof[p] # NoProf /\ nconf < MaxConfirms
    /\ s \in {prof[p].session, None} /\ (scope = "session" => s # None)
    /\ AcceptsOverride(p, keys)
    /\ call' = [call EXCEPT ![w] = [pc |-> "insert", prof |-> p, session |-> s, scope |-> scope,
                                    keys |-> keys, open |-> prof[p].open, value |-> prof[p].value]]
    /\ lost' = IF Busy(p) = {} THEN lost ELSE lost \cup {p}
    /\ UNCHANGED <<prof, conf, bound, nprof, nconf, answered>>

CreateConfirmation(w) ==
    LET l == call[w] IN
    /\ At(w, "insert")
    /\ \/ /\ nconf < MaxConfirms /\ prof[l.prof] # NoProf
          /\ nconf' = nconf + 1
          /\ conf' = [conf EXCEPT ![nconf + 1] =
                         [prof |-> l.prof, session |-> l.session, sig |-> prof[l.prof].sig,
                          scope |-> l.scope, keys |-> l.keys, live |-> TRUE]]
          /\ call' = [call EXCEPT ![w].pc = "merge", ![w].scope = None, ![w].keys = {}]
          /\ answered' = IF l.keys = {} THEN answered ELSE answered \cup {l.prof}
       \/ Ends(w) /\ UNCHANGED <<conf, nconf, answered>>
    /\ UNCHANGED <<prof, bound, nprof, lost>>

\* The profile as it was read is merged with the confirmations as they are now.
MergeAndUpdate(w) ==
    LET l   == call[w]
        sig == prof[l.prof].sig
    IN  /\ At(w, "merge")
        /\ \/ /\ IF prof[l.prof] = NoProf THEN prof' = prof
                 ELSE UpdateProfileJSON(l.prof, RemoveResolvedAmbiguities(l.open, sig),
                                        ApplyConfirmations(l.value, sig, l.session))
              /\ lost' = lost
           \/ prof' = prof /\ lost' = lost \cup {l.prof}
        /\ ToStatus(w)
        /\ UNCHANGED <<conf, bound, nprof, nconf, answered>>

SetConfirmed(w) ==
    /\ At(w, "status")
    /\ UpdateStatus(call[w].prof) \/ prof' = prof
    /\ Ends(w)
    /\ UNCHANGED <<conf, bound, nprof, nconf, lost, answered>>

---------------------------------------------------------------------------
(* Removing and deleting a source *)

DeleteProfiles(gone) == prof' = ProfilesWithout(gone) /\ conf' = ConfirmsWithout(gone)

RemoveSessionSource(s, src) ==
    /\ src \in bound[s]
    /\ bound' = [bound EXCEPT ![s] = @ \ {src}]
    /\ DeleteProfiles(SessionProfiles(s, src))
    /\ UNCHANGED <<call, nprof, nconf, lost, answered>>

DeleteWorkspaceSource(src) ==
    /\ \E s \in Sessions : src \in bound[s]
    /\ bound' = [s \in Sessions |-> bound[s] \ {src}]
    /\ DeleteProfiles({p \in Profiles : prof[p].source = src})
    /\ UNCHANGED <<call, nprof, nconf, lost, answered>>

Next ==
    \/ \E w \in Callers :
          \/ MergeWorkspace(w) \/ CreateConfirmation(w) \/ MergeAndUpdate(w) \/ SetConfirmed(w)
          \/ \E s \in Sessions, src \in Sources, sig \in Signatures : CreateSemanticProfile(w, s, src, sig)
          \/ \E p \in Profiles, s \in Sessions \cup {None}, scope \in {"session", "workspace"},
                keys \in Overrides : ConfirmProfile(w, p, s, scope, keys)
    \/ \E s \in Sessions, src \in Sources : RemoveSessionSource(s, src)
    \/ \E src \in Sources : DeleteWorkspaceSource(src)

Spec == Init /\ [][Next]_vars

---------------------------------------------------------------------------
(* The check before a report is finalized *)

ProfilesOf(src) == {p \in Profiles : prof[p].source = src}

\* GetSessionSources: the newest profile of the source, whatever session made it.
Shown(src) == Max(ProfilesOf(src))

ConfirmsOf(p) == {c \in Confirms : conf[c].live /\ conf[c].prof = p}

\* reportSemanticFinalizeIssues
Unresolved(src) ==
    /\ ProfilesOf(src) # {}
    /\ prof[Shown(src)].open # {}
    /\ prof[Shown(src)].status # "confirmed"
    /\ Cardinality(ConfirmsOf(Shown(src))) < Cardinality(prof[Shown(src)].open)

MayFinalize(s) == \A src \in bound[s] : ~Unresolved(src)

---------------------------------------------------------------------------
(* What profiles, confirmations and calls know of each other *)

ProfileRow == [session : Sessions \cup {None}, source : Sources \cup {None},
               sig : Signatures \cup {None}, status : {None, "profiled", "confirmed"},
               open : SUBSET Keys, value : [Keys -> 0..MaxConfirms]]
ConfirmRow == [prof : 0..MaxProfiles, session : Sessions \cup {None}, sig : Signatures \cup {None},
               scope : {None, "session", "workspace"}, keys : SUBSET Keys, live : BOOLEAN]
Locals     == [pc : {"idle", "created", "insert", "merge", "status"}, prof : 0..MaxProfiles,
               session : Sessions \cup {None}, scope : {None, "session", "workspace"},
               keys : SUBSET Keys, open : SUBSET Keys, value : [Keys -> 0..MaxConfirms]]

TypeOK ==
    /\ prof \in [Profiles -> ProfileRow] /\ conf \in [Confirms -> ConfirmRow]
    /\ bound \in [Sessions -> SUBSET Sources] /\ call \in [Callers -> Locals]
    /\ nprof \in 0..MaxProfiles /\ nconf \in 0..MaxConfirms
    /\ lost \subseteq 1..nprof /\ answered \subseteq 1..nprof

\* Rows have numbers of their own, and a profile's live confirmations go with it.
RowsNumbered ==
    /\ \A p \in Profiles : prof[p] # NoProf =>
          p <= nprof /\ prof[p].session # None
    /\ \A c \in Confirms : IF c > nconf THEN conf[c] = NoConf
          ELSE /\ conf[c].prof \in 1..nprof /\ conf[c].scope # None
               /\ conf[c].scope = "session" => conf[c].session # None
               /\ conf[c].live => prof[conf[c].prof] # NoProf

\* What gave the keys of profile p the values in value was meant for p.
InScope(p, value) ==
    \A k \in Keys : value[k] # 0 =>
        LET c == conf[value[k]]
        IN  /\ k \in c.keys
            /\ IF c.scope = "session" THEN c.session = prof[p].session ELSE c.sig = prof[p].sig

\* A call has a profile, and what it has read of it is in scope while the profile lasts.
CallsFit ==
    \A w \in Callers :
        LET l == call[w] IN
        /\ l.pc = "idle" => l = Idle
        /\ l.pc # "idle" => l.prof \in 1..nprof
        /\ l.pc = "insert" => l.scope # None /\ (l.scope = "session" => l.session # None)
        /\ l.pc \in {"insert", "merge"} /\ prof[l.prof] # NoProf =>
               l.session \in {prof[l.prof].session, None} /\ InScope(l.prof, l.value)

\* As long as nothing of a profile is lost one call works on it, has read its values as
\* they are, and has still to merge the confirmations whose keys have no value.
InStep ==
    \A p \in Profiles \ lost :
        /\ \A v, w \in Busy(p) : v = w
        /\ \A w \in Busy(p) :
              /\ call[w].pc \in {"insert", "merge"} /\ prof[p] # NoProf => call[w].value = prof[p].value
              /\ call[w].pc = "created" => \A c \in Confirms : conf[c].prof # p
        /\ \A c \in Confirms : conf[c].live /\ conf[c].scope = "session" /\ conf[c].prof = p =>
              \/ \A k \in conf[c].keys : prof[p].value[k] # 0
              \/ \E w \in Busy(p) : call[w].pc = "merge" /\ call[w].session = conf[c].session

\* A profile that nobody has answered has its questions, and no confirmation to count.
Unanswered ==
    \A p \in Profiles \ answered : prof[p] # NoProf /\ QuestionsOf(prof[p].sig) # {} =>
        /\ prof[p].open = QuestionsOf(prof[p].sig) /\ prof[p].status # "confirmed"
        /\ \A c \in Confirms : conf[c].live => conf[c].prof # p
        /\ \A w \in Busy(p) : \/ call[w].pc = "created"
                              \/ call[w].pc = "insert" /\ call[w].keys # {}

ScopeInv == \A p \in Profiles : InScope(p, prof[p].value)

IInv == TypeOK /\ RowsNumbered /\ CallsFit /\ ScopeInv /\ InStep /\ Unanswered

---------------------------------------------------------------------------
(* Properties *)

\* A report is not finalized over a profile with questions unless somebody answered
\* some of them for this profile, or confirmed another of this schema for the workspace
\* (ConfirmProfile, CreateSemanticProfile and reportSemanticFinalizeIssues together).
GateNeedsAnswer ==
    \A s \in Sessions : MayFinalize(s) =>
        \A src \in bound[s] : ProfilesOf(src) # {} =>
            LET p == Shown(src) IN QuestionsOf(prof[p].sig) = {} \/ p \in answered

\* What one session confirms for itself reaches no profile of another session, and
\* what was confirmed for the workspace reaches only profiles of the same schema,
\* whatever was created, confirmed and removed in between (applyConfirmations).
OverridesStayInScope ==
    \A p \in Profiles, k \in Keys : prof[p].value[k] # 0 =>
        LET c == conf[prof[p].value[k]]
        IN  /\ k \in c.keys
            /\ IF c.scope = "session" THEN c.session = prof[p].session ELSE c.sig = prof[p].sig

\* The calls that have still to write their merge.
Pending(p) == \E w \in Busy(p) : call[w].pc \in {"created", "insert", "merge"}

\* Every key that was confirmed for a profile has a value there, unless calls for it
\* overlapped or a write failed, which is only logged (ConfirmProfile).
ConfirmedKeysHaveValue ==
    \A c \in Confirms :
        LET p == conf[c].prof IN
        conf[c].live /\ conf[c].scope = "session" /\ p \notin lost /\ ~Pending(p) =>
            \A k \in conf[c].keys : prof[p].value[k] # 0

\* A confirmation for the session takes effect at once: with no other call for the
\* profile under way, its keys have the value that was confirmed last.
TakesEffect ==
    \A c \in Confirms :
        LET p == conf[c].prof IN
        /\ conf[c].live /\ conf[c].scope = "session" /\ c = nconf
        /\ p \notin lost /\ Busy(p) = {}
        => \A k \in conf[c].keys : prof[p].value[k] = c
=============================================================================
