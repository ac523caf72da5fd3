----------------------- MODULE IdpProvisioningProofs -----------------------
(***************************************************************************)
(* Theorems about making and removing clients at the identity provider,    *)
(* for any number of creations, deletions, scopes and repetitions, with    *)
(* either provider; among them that the adapter keeps its promise.         *)
(***************************************************************************)
EXTENDS IdpProvisioning, TLAPS

----------------------------------------------------------------------------
(* The invariant                                                           *)

(* A client is made once its creation has looked up its scopes, and is     *)
(* there until it is rolled back or somebody sets out to remove it; with a *)
(* failed creation it stays only where nobody could roll it back.          *)
Existence(c) ==
  /\ job[c].at \in Looking \cup {"idle"} => c \notin made
  /\ c \in exists => c \in made
  /\ job[c].at \in Building \cup {"grant", "rollback"} => c \in exists
  /\ job[c].at = "created" => c \in made /\ (c \in exists \/ c \in asked)
  /\ job[c].at = "failed" /\ c \in exists => c \in abandoned
  /\ c \in asked => job[c].at = "created"

(* What has been granted and what is still to be assigned are together     *)
(* what was asked for.                                                     *)
Entitled(c) ==
  /\ job[c].at = "create" => job[c].wants \subseteq Values(job[c].knows)
  /\ job[c].at \in Looking \cup {"idle"} => granted[c] = {}
  /\ job[c].at \in Building =>
       granted[c] \cup Values(job[c].todo) = job[c].wants
  /\ job[c].at = "secret" => job[c].todo = {}
  /\ job[c].at = "created" => granted[c] = job[c].wants

(* A deletion is of a client somebody was asked to remove.                 *)
Removing(d) == removal[d].at # "idle" => removal[d].client \in asked

Inv ==
  /\ TypeOK
  /\ \A c \in Creations : Existence(c) /\ Entitled(c)
  /\ \A d \in Deletions : Removing(d)

----------------------------------------------------------------------------
(* How the actions change a creation                                       *)

(* What a creation has become: where it stands, what it wants, knows and   *)
(* has still to do.  The others are as they were.                          *)
Became(c, at, wants, knows, todo) ==
  /\ job' \in [Creations -> Jobs]
  /\ \A b \in Creations \ {c} : job'[b] = job[b]
  /\ job'[c].at = at
  /\ job'[c].wants = wants
  /\ job'[c].knows = knows
  /\ job'[c].todo = todo

(* An update of one creation is that.                                      *)
LEMMA UpdateLemma ==
  ASSUME job \in [Creations -> Jobs], NEW c \in Creations, NEW new \in Jobs,
         job' = [job EXCEPT ![c] = new]
  PROVE  Became(c, new.at, new.wants, new.knows, new.todo)
BY DEF Became

(* Goto moves it and nothing else.                                         *)
LEMMA GotoLemma ==
  ASSUME job \in [Creations -> Jobs], NEW c \in Creations, NEW to,
         to \in InFlight \cup {"created", "failed"}, Goto(c, to)
  PROVE  Became(c, to, job[c].wants, job[c].knows, job[c].todo)
<1> DEFINE new == [job[c] EXCEPT !.at = to, !.attempts = 0]
<1>1. job[c] \in Jobs
  OBVIOUS
<1>4. 0 \in 0..RetryLimit
  BY ProvisioningAssumption
<1>2. /\ new \in Jobs
      /\ new.at = to /\ new.wants = job[c].wants
      /\ new.knows = job[c].knows /\ new.todo = job[c].todo
  BY <1>1, <1>4 DEF Jobs
<1>3. job' = [job EXCEPT ![c] = new]
  BY DEF Goto
<1> HIDE DEF new
<1> QED
  BY <1>2, <1>3 DEF Became

(* Begin gives it its scopes.                                              *)
LEMMA BeginLemma ==
  ASSUME job \in [Creations -> Jobs], NEW c \in Creations,
         NEW scopes \in SUBSET Scopes,
         job' = [job EXCEPT ![c] = [@ EXCEPT !.at = "readRoles", !.wants = scopes]]
  PROVE  Became(c, "readRoles", scopes, job[c].knows, job[c].todo)
<1> DEFINE new == [job[c] EXCEPT !.at = "readRoles", !.wants = scopes]
<1>1. job[c] \in Jobs
  OBVIOUS
<1>2. /\ new \in Jobs
      /\ new.at = "readRoles" /\ new.wants = scopes
      /\ new.knows = job[c].knows /\ new.todo = job[c].todo
  BY <1>1 DEF Jobs, InFlight, Looking, Building
<1>3. job' = [job EXCEPT ![c] = new]
  OBVIOUS
<1> HIDE DEF new
<1> QED
  BY <1>2, <1>3 DEF Became

(* ReadRoles lets it know what is declared.                                *)
LEMMA ReadRolesLemma ==
  ASSUME job \in [Creations -> Jobs], NEW c \in Creations, declared \subseteq Roles,
         NEW next, next = IF job[c].wants \subseteq Values(declared)
                          THEN "create" ELSE "patch",
         ReadRoles(c)
  PROVE  Became(c, next, job[c].wants, declared, job[c].todo)
<1> DEFINE new == [job[c] EXCEPT !.knows = declared,
                         !.at = next]
<1>1. job[c] \in Jobs
  OBVIOUS
<1>2. /\ new \in Jobs
      /\ new.at = next /\ new.wants = job[c].wants
      /\ new.knows = declared /\ new.todo = job[c].todo
  BY <1>1 DEF Jobs, InFlight, Looking, Building
<1>3. job' = [job EXCEPT ![c] = new]
  BY DEF ReadRoles
<1> HIDE DEF new
<1> QED
  BY <1>2, <1>3 DEF Became

(* A patch that is heard lets it know what it wrote.                       *)
LEMMA PatchLemma ==
  ASSUME job \in [Creations -> Jobs], NEW c \in Creations,
         Updated(c) \subseteq Roles, Patch(c)
  PROVE  Became(c, "create", job[c].wants, Updated(c), job[c].todo)
<1> DEFINE new == [job[c] EXCEPT !.at = "create", !.knows = Updated(c)]
<1>1. job[c] \in Jobs
  OBVIOUS
<1>2. /\ new \in Jobs
      /\ new.at = "create" /\ new.wants = job[c].wants
      /\ new.knows = Updated(c) /\ new.todo = job[c].todo
  BY <1>1 DEF Jobs, InFlight, Looking, Building
<1>3. job' = [job EXCEPT ![c] = new]
  BY DEF Patch
<1> HIDE DEF new
<1> QED
  BY <1>2, <1>3 DEF Became

(* Create notes what there is to assign.                                   *)
LEMMA CreateLemma ==
  ASSUME job \in [Creations -> Jobs], NEW c \in Creations,
         NEW next, next = IF provider = "auth0" THEN "grant" ELSE "principal",
         NEW roles, roles = {r \in job[c].knows : r.scope \in job[c].wants},
         Create(c)
  PROVE  Became(c, next, job[c].wants, job[c].knows, roles)
<1> DEFINE new == [job[c] EXCEPT !.at = next, !.todo = roles]
<1>1. job[c] \in Jobs
  OBVIOUS
<1>2. /\ new \in Jobs
      /\ new.at = next /\ new.wants = job[c].wants
      /\ new.knows = job[c].knows /\ new.todo = roles
  BY <1>1 DEF Jobs, InFlight, Looking, Building
<1>3. job' = [job EXCEPT ![c] = new]
  BY DEF Create
<1> HIDE DEF new
<1> QED
  BY <1>2, <1>3 DEF Became

(* A repetition is only counted.                                           *)
LEMMA LagsLemma ==
  ASSUME job \in [Creations -> Jobs], NEW c \in Creations, Lags(c)
  PROVE  Became(c, job[c].at, job[c].wants, job[c].knows, job[c].todo)
<1> DEFINE new == [job[c] EXCEPT !.attempts = @ + 1]
<1>1. job[c] \in Jobs
  OBVIOUS
<1>4. /\ job[c].attempts + 1 \in 0..RetryLimit
      /\ job[c].at \in InFlight
  <2>1. job[c].attempts \in 0..RetryLimit /\ job[c].attempts < RetryLimit
    BY <1>1 DEF Jobs, Lags
  <2> QED
    BY <2>1, ProvisioningAssumption DEF Lags, InFlight
<1>2. /\ new \in Jobs
      /\ new.at = job[c].at /\ new.wants = job[c].wants
      /\ new.knows = job[c].knows /\ new.todo = job[c].todo
  BY <1>1, <1>4 DEF Jobs
<1>3. job' = [job EXCEPT ![c] = new]
  BY DEF Lags
<1> HIDE DEF new
<1> QED
  BY <1>2, <1>3 DEF Became

(* An assignment that is made is no longer to be made.                     *)
LEMMA AssignLemma ==
  ASSUME job \in [Creations -> Jobs], NEW c \in Creations, NEW left,
         left \subseteq job[c].todo,
         job' = [job EXCEPT ![c] = [@ EXCEPT !.todo = left,
                                             !.attempts = 0,
                                             !.at = AfterAssignments(left)]]
  PROVE  Became(c, AfterAssignments(left), job[c].wants, job[c].knows, left)
<1> DEFINE new == [job[c] EXCEPT !.todo = left, !.attempts = 0,
                                 !.at = AfterAssignments(left)]
<1>1. job[c] \in Jobs
  OBVIOUS
<1>4. 0 \in 0..RetryLimit /\ AfterAssignments(left) \in InFlight
  BY ProvisioningAssumption DEF AfterAssignments, InFlight, Building
<1>2. /\ new \in Jobs
      /\ new.at = AfterAssignments(left) /\ new.wants = job[c].wants
      /\ new.knows = job[c].knows /\ new.todo = left
  BY <1>1, <1>4 DEF Jobs
<1>3. job' = [job EXCEPT ![c] = new]
  BY Zenon
<1> HIDE DEF new
<1> QED
  <2>1. Became(c, new.at, new.wants, new.knows, new.todo)
    BY <1>2, <1>3, UpdateLemma, Zenon
  <2> QED
    BY <1>2, <2>1, Zenon

----------------------------------------------------------------------------
(* The invariant holds                                                     *)

(* In the initial state.                                                   *)
LEMMA InvInit == Init => Inv
<1> SUFFICES ASSUME Init PROVE Inv
  OBVIOUS
<1>1. 0 \in 0..RetryLimit
  BY ProvisioningAssumption
<1>2. [at |-> "idle", wants |-> {}, knows |-> {}, attempts |-> 0, todo |-> {}]
        \in Jobs
  BY <1>1 DEF Jobs
<1>3. TypeOK
  BY <1>2, ProvisioningAssumption DEF Init, TypeOK, Removals, Roles
<1> QED
  BY <1>3 DEF Init, Inv, Existence, Entitled, Removing, Looking, Building

(* Nothing changes for a creation that nothing has happened to.            *)
LEMMA OthersKept ==
  ASSUME NEW b \in Creations, Existence(b), Entitled(b),
         job'[b] = job[b], granted'[b] = granted[b],
         b \in exists' <=> b \in exists,
         abandoned \subseteq abandoned', UNCHANGED <<made, asked>>
  PROVE  Existence(b)' /\ Entitled(b)'
BY DEF Existence, Entitled

(* Until the client exists: what is known of the API covers what is wanted *)
(* before the client is made.                                              *)
LEMMA LookingStep ==
  ASSUME Inv, NEW c \in Creations,
         \/ Begin(c) \/ ReadRoles(c) \/ Patch(c) \/ PatchUnheard(c)
         \/ LookupFails(c) \/ Create(c) \/ CreateUnheard(c)
  PROVE  Inv'
<1> USE DEF Inv, TypeOK, Existence, Entitled, Removing, Looking, Building,
            InFlight, idpVars, observations
<1>0. /\ Updated(c) \subseteq Roles
      /\ job[c].wants \subseteq Values(Updated(c))
  <2>1. job[c].wants \subseteq Scopes /\ job[c].knows \subseteq Roles
    BY DEF Jobs
  <2>2. Updated(c) \subseteq Roles
    BY <2>1 DEF Updated, Roles
  <2>3. ASSUME NEW s \in job[c].wants
        PROVE  s \in Values(Updated(c))
    <3>1. CASE s \in Values(job[c].knows)
      BY <3>1 DEF Values, Updated
    <3>2. CASE s \notin Values(job[c].knows)
      <4>1. [scope |-> s, id |-> c] \in Updated(c)
        BY <2>3, <3>2 DEF Updated
      <4> QED
        BY <4>1 DEF Values
    <3> QED
      BY <3>1, <3>2
  <2> QED
    BY <2>2, <2>3
<1>1. CASE Begin(c)
  <2>1. PICK scopes \in SUBSET Scopes :
          Became(c, "readRoles", scopes, job[c].knows, job[c].todo)
    BY <1>1, BeginLemma DEF Begin
  <2>2. TypeOK'
    BY <1>1, <2>1 DEF Begin, Became
  <2>3. Existence(c)' /\ Entitled(c)'
    BY <1>1, <2>1 DEF Begin, Became
  <2>4. ASSUME NEW b \in Creations \ {c}
        PROVE  Existence(b)' /\ Entitled(b)'
    <3>1. /\ job'[b] = job[b] /\ granted'[b] = granted[b]
          /\ UNCHANGED <<exists, made, asked, abandoned>>
      BY <1>1, <2>1 DEF Begin, Became
    <3>2. Existence(b) /\ Entitled(b)
      OBVIOUS
    <3> HIDE DEF Existence, Entitled
    <3> QED
      BY <3>1, <3>2, OthersKept
  <2>5. \A d \in Deletions : Removing(d)'
    BY <1>1, <2>1 DEF Begin, Became
  <2> QED
    BY <2>2, <2>3, <2>4, <2>5
<1>2. CASE ReadRoles(c)
  <2>1. CASE job[c].wants \subseteq Values(declared)
    <3>1. Became(c, "create", job[c].wants, declared, job[c].todo)
      BY <1>2, <2>1, ReadRolesLemma
    <3> QED
      BY <1>2, <2>1, <3>1 DEF ReadRoles, Became
  <2>2. CASE ~(job[c].wants \subseteq Values(declared))
    <3>1. Became(c, "patch", job[c].wants, declared, job[c].todo)
      BY <1>2, <2>2, ReadRolesLemma
    <3> QED
      BY <1>2, <3>1 DEF ReadRoles, Became
  <2> QED
    BY <2>1, <2>2
<1>3. CASE Patch(c)
  <2>1. Became(c, "create", job[c].wants, Updated(c), job[c].todo)
    BY <1>0, <1>3, PatchLemma
  <2> QED
    BY <1>0, <1>3, <2>1 DEF Patch, Became
<1>4. CASE PatchUnheard(c)
  <2>1. Became(c, "failed", job[c].wants, job[c].knows, job[c].todo)
    BY <1>4, GotoLemma DEF PatchUnheard
  <2> QED
    BY <1>0, <1>4, <2>1 DEF PatchUnheard, Became
<1>5. CASE LookupFails(c)
  <2>1. Became(c, "failed", job[c].wants, job[c].knows, job[c].todo)
    BY <1>5, GotoLemma DEF LookupFails, Proceed
  <2> QED
    BY <1>5, <2>1 DEF LookupFails, Proceed, Became
<1>6. CASE Create(c)
  <2> DEFINE roles == {r \in job[c].knows : r.scope \in job[c].wants}
  <2>1. PICK next \in {"grant", "principal"} :
          Became(c, next, job[c].wants, job[c].knows, roles)
    BY <1>6, CreateLemma
  <2>2. Values(roles) = job[c].wants
    <3>1. job[c].wants \subseteq Values(job[c].knows)
      BY <1>6 DEF Create
    <3> QED
      BY <3>1 DEF Values
  <2> HIDE DEF roles
  <2>3. TypeOK'
    BY <1>6, <2>1, <2>2 DEF Create, Make, Became
  <2>4. Existence(c)' /\ Entitled(c)'
    <3>1. /\ job[c].at = "create" /\ granted[c] = {} /\ c \notin asked
          /\ granted' = granted /\ asked' = asked
          /\ c \in exists' /\ c \in made'
      BY <1>6 DEF Create, Make
    <3>2. /\ job'[c].at \in {"grant", "principal"}
          /\ job'[c].wants = job[c].wants /\ job'[c].todo = roles
      BY <2>1 DEF Became
    <3>3. Values(job'[c].todo) = job'[c].wants
      BY <2>2, <3>2
    <3> QED
      BY <3>1, <3>2, <3>3
  <2>5. \A b \in Creations \ {c} : Existence(b)' /\ Entitled(b)'
    BY <1>6, <2>1, <2>2 DEF Create, Make, Became
  <2>6. \A d \in Deletions : Removing(d)'
    BY <1>6, <2>1, <2>2 DEF Create, Became
  <2> QED
    BY <2>3, <2>4, <2>5, <2>6
<1>7. CASE CreateUnheard(c)
  <2>1. Became(c, "failed", job[c].wants, job[c].knows, job[c].todo)
    BY <1>7, GotoLemma DEF CreateUnheard
  <2> QED
    BY <1>7, <2>1 DEF CreateUnheard, Make, Became
<1> QED
  BY <1>1, <1>2, <1>3, <1>4, <1>5, <1>6, <1>7

(* While the client is being completed, or rolled back.                    *)
LEMMA BuildingStep ==
  ASSUME Inv, NEW c \in Creations,
         \/ Grant(c) \/ GrantRefused(c) \/ GrantThrows(c) \/ Principal(c)
         \/ Assign(c) \/ Secret(c) \/ Lags(c) \/ BuildFails(c)
         \/ Rollback(c) \/ RollbackFails(c)
  PROVE  Inv'
<1> USE DEF Inv, TypeOK, Existence, Entitled, Removing, Looking, Building,
            InFlight, idpVars, observations
<1>0. /\ job[c].wants \subseteq Scopes /\ job[c].todo \subseteq Roles
      /\ Values({}) = {}
  BY DEF Jobs, Values
<1>1. CASE Grant(c)
  <2>1. Became(c, "created", job[c].wants, job[c].knows, job[c].todo)
    BY <1>1, GotoLemma DEF Grant
  <2>2. TypeOK'
    BY <1>0, <1>1, <2>1 DEF Grant, Became
  <2>3. Existence(c)' /\ Entitled(c)'
    BY <1>0, <1>1, <2>1 DEF Grant, Became
  <2>4. \A b \in Creations \ {c} : Existence(b)' /\ Entitled(b)'
    BY <1>0, <1>1, <2>1 DEF Grant, Became
  <2>5. \A d \in Deletions : Removing(d)'
    BY <1>0, <1>1, <2>1 DEF Grant, Became
  <2> QED
    BY <2>2, <2>3, <2>4, <2>5
<1>2. CASE GrantRefused(c)
  <2>1. Became(c, "rollback", job[c].wants, job[c].knows, job[c].todo)
    BY <1>2, GotoLemma DEF GrantRefused, Proceed
  <2> QED
    BY <1>2, <2>1 DEF GrantRefused, Proceed, Became
<1>3. CASE GrantThrows(c)
  <2>1. Became(c, "failed", job[c].wants, job[c].knows, job[c].todo)
    BY <1>3, GotoLemma DEF GrantThrows
  <2> QED
    BY <1>3, <2>1 DEF GrantThrows, Became
<1>4. CASE Principal(c)
  <2>1. PICK next \in {"secret", "assign"} :
          /\ Became(c, next, job[c].wants, job[c].knows, job[c].todo)
          /\ next = "secret" => job[c].todo = {}
    BY <1>4, GotoLemma DEF Principal, Proceed, AfterAssignments
  <2> QED
    BY <1>4, <2>1 DEF Principal, Proceed, Became
<1>5. CASE Assign(c)
  <2>1. PICK role \in job[c].todo \cap declared :
          /\ granted' = [granted EXCEPT ![c] = @ \cup {role.scope}]
          /\ job' = [job EXCEPT
                ![c] = [@ EXCEPT
                  !.todo = job[c].todo \ {role},
                  !.attempts = 0,
                  !.at = AfterAssignments(job[c].todo \ {role})]]
    BY <1>5 DEF Assign
  <2> DEFINE left == job[c].todo \ {role}
  <2>2. Became(c, AfterAssignments(left), job[c].wants, job[c].knows, left)
    BY <2>1, AssignLemma
  <2>3. /\ role.scope \in Scopes
        /\ {role.scope} \cup Values(left) = Values(job[c].todo)
    BY <1>0 DEF Values, Roles
  <2>4. /\ AfterAssignments(left) \in {"secret", "assign"}
        /\ AfterAssignments(left) = "secret" => left = {}
    BY DEF AfterAssignments
  <2>5. granted'[c] \cup Values(left) = job[c].wants
    BY <1>5, <2>1, <2>3 DEF Assign
  <2>6. granted' \in [Creations -> SUBSET Scopes]
    BY <2>1, <2>3
  <2> HIDE DEF left
  <2>7. TypeOK'
    BY <1>5, <2>1, <2>2, <2>4, <2>5, <2>6, <1>0 DEF Assign, Became
  <2>8. Existence(c)' /\ Entitled(c)'
    BY <1>5, <2>1, <2>2, <2>4, <2>5, <2>6, <1>0 DEF Assign, Became
  <2>9. ASSUME NEW b \in Creations \ {c}
        PROVE  Existence(b)' /\ Entitled(b)'
    <3>1. /\ job'[b] = job[b] /\ granted'[b] = granted[b]
          /\ UNCHANGED <<exists, made, asked, abandoned>>
      BY <1>5, <2>1, <2>2, <2>4, <2>5, <2>6, <1>0 DEF Assign, Became
    <3>2. Existence(b) /\ Entitled(b)
      OBVIOUS
    <3> HIDE DEF Existence, Entitled
    <3> QED
      BY <3>1, <3>2, OthersKept
  <2>10. \A d \in Deletions : Removing(d)'
    BY <1>5, <2>1, <2>2, <2>4, <2>5, <2>6, <1>0 DEF Assign, Became
  <2> QED
    BY <2>7, <2>8, <2>9, <2>10
<1>6. CASE Secret(c)
  <2>1. Became(c, "created", job[c].wants, job[c].knows, job[c].todo)
    BY <1>6, GotoLemma DEF Secret, Proceed
  <2>2. TypeOK'
    BY <1>0, <1>6, <2>1 DEF Secret, Proceed, Became
  <2>3. Existence(c)' /\ Entitled(c)'
    <3>1. /\ job[c].at = "secret" /\ job[c].todo = {}
          /\ granted[c] \cup Values(job[c].todo) = job[c].wants
      BY <1>6 DEF Secret
    <3>2. granted[c] = job[c].wants
      BY <1>0, <3>1
    <3>3. /\ job'[c].at = "created" /\ job'[c].wants = job[c].wants
          /\ UNCHANGED <<granted, exists, made, asked>>
      BY <1>6, <2>1 DEF Secret, Proceed, Became
    <3> QED
      BY <3>1, <3>2, <3>3
  <2>4. \A b \in Creations \ {c} : Existence(b)' /\ Entitled(b)'
    BY <1>0, <1>6, <2>1 DEF Secret, Proceed, Became
  <2>5. \A d \in Deletions : Removing(d)'
    BY <1>0, <1>6, <2>1 DEF Secret, Proceed, Became
  <2> QED
    BY <2>2, <2>3, <2>4, <2>5
<1>7. CASE Lags(c)
  <2>1. Became(c, job[c].at, job[c].wants, job[c].knows, job[c].todo)
    BY <1>7, LagsLemma
  <2> QED
    BY <1>7, <2>1 DEF Lags, Became
<1>8. CASE BuildFails(c)
  <2>1. Became(c, "rollback", job[c].wants, job[c].knows, job[c].todo)
    BY <1>8, GotoLemma DEF BuildFails, Proceed
  <2> QED
    BY <1>8, <2>1 DEF BuildFails, Proceed, Became
<1>9. CASE Rollback(c)
  <2>1. Became(c, "failed", job[c].wants, job[c].knows, job[c].todo)
    BY <1>9, GotoLemma DEF Rollback
  <2> QED
    BY <1>9, <2>1 DEF Rollback, Became
<1>10. CASE RollbackFails(c)
  <2>1. Became(c, "failed", job[c].wants, job[c].knows, job[c].todo)
    BY <1>10, GotoLemma DEF RollbackFails
  <2> QED
    BY <1>10, <2>1 DEF RollbackFails, Became
<1> QED
  BY <1>1, <1>2, <1>3, <1>4, <1>5, <1>6, <1>7, <1>8, <1>9, <1>10

(* A deletion is of a creation that has returned, and nothing makes its    *)
(* client anew.                                                            *)
LEMMA DeletionStep ==
  ASSUME Inv, NEW d \in Deletions, BeginDelete(d) \/ DeleteStep(d)
  PROVE  Inv'
<1> USE DEF Inv, TypeOK, Existence, Entitled, Removing, Looking, Building,
            InFlight, idpVars, observations
<1> USE DEF Removals, Deleting
<1>0. removal[d] \in Removals
  OBVIOUS
<1>1. CASE BeginDelete(d)
  BY <1>1 DEF BeginDelete
<1>2. ASSUME NEW to \in {"delete", "deleted", "failed"}, Retire(d, to)
      PROVE  /\ removal' \in [Deletions -> Removals]
             /\ \A e \in Deletions \ {d} : removal'[e] = removal[e]
             /\ removal'[d].at = to
             /\ removal'[d].client = removal[d].client
  BY <1>0, <1>2 DEF Retire
<1>3. CASE Lookup(d)
  <2>1. PICK to \in {"delete", "deleted"} : Retire(d, to)
    BY <1>3 DEF Lookup
  <2> QED
    BY <1>2, <1>3, <2>1 DEF Lookup
<1>4. CASE Delete(d)
  BY <1>2, <1>4 DEF Delete
<1>5. CASE DeleteFails(d)
  BY <1>2, <1>5 DEF DeleteFails
<1> QED
  BY <1>1, <1>3, <1>4, <1>5 DEF DeleteStep

(* What a crash cuts off is counted as such.                               *)
LEMMA CrashStep == Inv /\ Crash => Inv'
<1> SUFFICES ASSUME Inv, Crash PROVE Inv'
  OBVIOUS
<1> USE DEF Inv, TypeOK, Existence, Entitled, Removing, Looking, Building,
            InFlight, idpVars, observations
<1> DEFINE lost(c) == [job[c] EXCEPT !.at = "failed"]
           dropped(d) == [removal[d] EXCEPT !.at = "failed"]
<1>1. ASSUME NEW c \in Creations
      PROVE  lost(c) \in Jobs /\ lost(c).at = "failed"
  <2>1. job[c] \in Jobs
    OBVIOUS
  <2> QED
    BY <2>1 DEF Jobs
<1>2. ASSUME NEW d \in Deletions
      PROVE  /\ dropped(d) \in Removals /\ dropped(d).at = "failed"
             /\ dropped(d).client = removal[d].client
  <2>1. removal[d] \in Removals
    OBVIOUS
  <2> QED
    BY <2>1 DEF Removals
<1>3. /\ job' = [c \in Creations |-> IF job[c].at \in InFlight THEN lost(c)
                                     ELSE job[c]]
      /\ removal' = [d \in Deletions |->
                       IF removal[d].at \in Deleting THEN dropped(d)
                       ELSE removal[d]]
  BY Zenon DEF Crash
<1>4. /\ abandoned' = abandoned \cup {c \in exists : job[c].at \in InFlight}
      /\ UNCHANGED <<provider, idpVars, made, asked>>
  BY DEF Crash
<1> HIDE DEF lost, dropped
<1>5. /\ job' \in [Creations -> Jobs]
      /\ \A c \in Creations :
           \/ job'[c] = job[c] /\ job[c].at \notin InFlight
           \/ job'[c].at = "failed" /\ job[c].at \in InFlight
  BY <1>1, <1>3
<1>6. /\ removal' \in [Deletions -> Removals]
      /\ \A d \in Deletions :
           \/ removal'[d] = removal[d]
           \/ /\ removal'[d].at = "failed" /\ removal[d].at \in Deleting
              /\ removal'[d].client = removal[d].client
  BY <1>2, <1>3
<1> QED
  BY <1>4, <1>5, <1>6 DEF Deleting

(* That a directory catches up changes nothing of this.                    *)
LEMMA CatchUpStep ==
  ASSUME Inv, NEW c \in Creations, CatchUp(c)
  PROVE  Inv'
BY DEF CatchUp, Inv, TypeOK, Existence, Entitled, Removing, observations

(* Every step preserves the invariant.                                     *)
LEMMA InvStep == Inv /\ [Next]_vars => Inv'
<1>1. ASSUME Inv, UNCHANGED vars
      PROVE  Inv'
  BY <1>1 DEF vars, idpVars, observations, Inv, TypeOK, Existence, Entitled,
              Removing
<1> QED
  BY <1>1, LookingStep, BuildingStep, DeletionStep, CrashStep, CatchUpStep
     DEF Next, Finished, CreateStep

(* So it holds in every reachable state.                                   *)
THEOREM Invariant == Spec => []Inv
BY InvInit, InvStep, PTL DEF Spec

(* Every variable has its type.                                            *)
THEOREM TypeCorrect == Spec => []TypeOK
<1>1. Inv => TypeOK
  BY DEF Inv
<1> QED
  BY <1>1, Invariant, PTL

(* An agent reported created exists with every scope that was asked for,   *)
(* until somebody sets out to remove it.                                   *)
THEOREM CreatedMeansComplete == Spec => []CreatedIsComplete
<1>1. Inv => CreatedIsComplete
  BY DEF Inv, Existence, Entitled, CreatedIsComplete
<1> QED
  BY <1>1, Invariant, PTL

(* A creation that fails leaves no client behind, unless a crash or a lost *)
(* call cut it off from the client.                                        *)
THEOREM FailureIsClean == Spec => []FailureLeavesNothing
<1>1. Inv => FailureLeavesNothing
  BY DEF Inv, TypeOK, Existence, FailureLeavesNothing
<1> QED
  BY <1>1, Invariant, PTL

----------------------------------------------------------------------------
(* The adapter keeps its promise                                           *)

Gone == {removal[d].client : d \in Returned}

(* The view is a function of where the creations stand and of the clients  *)
(* that exist or have existed.                                             *)
Same(b) ==
  /\ job'[b].at = job[b].at
  /\ b \in exists' <=> b \in exists
  /\ b \in made' <=> b \in made

(* Who is not running stays as he was, and who is running may go on.       *)
LEMMA ViewKept ==
  ASSUME \A b \in Creations :
           /\ \/ job'[b].at = job[b].at
              \/ job[b].at \in InFlight /\ job'[b].at \in InFlight
           /\ b \in exists' <=> b \in exists
           /\ b \in made' <=> b \in made
  PROVE  Client' = Client /\ Outcome' = Outcome
BY DEF Client, Outcome, InFlight, Looking, Building

(* A change of one creation is a change of one client.                     *)
LEMMA ClientChanged ==
  ASSUME NEW c \in Creations, \A b \in Creations \ {c} : Same(b)
  PROVE  Client' = [Client EXCEPT ![c] = Client'[c]]
BY DEF Client, Same

(* And of one outcome.                                                     *)
LEMMA OutcomeChanged ==
  ASSUME NEW c \in Creations, \A b \in Creations \ {c} : Same(b)
  PROVE  Outcome' = [Outcome EXCEPT ![c] = Outcome'[c]]
<1>1. Outcome' = [b \in Creations |-> IF job'[b].at \in InFlight THEN "running"
                                     ELSE job'[b].at]
  BY DEF Outcome
<1>2. \A b \in Creations \ {c} : Outcome'[b] = Outcome[b]
  BY <1>1 DEF Outcome, Same
<1>3. /\ Outcome = [b \in Creations |-> Outcome[b]]
      /\ Outcome' = [b \in Creations |-> Outcome'[b]]
  BY <1>1 DEF Outcome
<1> QED
  BY <1>2, <1>3

(* Deletions that do not return leave the set of the returned as it is.    *)
LEMMA GoneKept ==
  ASSUME \A d \in Deletions :
           /\ removal'[d].at = "deleted" <=> removal[d].at = "deleted"
           /\ removal[d].at = "deleted" =>
                removal'[d].client = removal[d].client
  PROVE  Gone' = Gone
<1>1. Returned' = Returned
  BY DEF Returned
<1>2. \A d \in Returned : removal'[d].client = removal[d].client
  BY DEF Returned
<1> QED
  BY <1>1, <1>2 DEF Gone

(* One that returns adds its client.                                       *)
LEMMA GoneGrows ==
  ASSUME NEW d \in Deletions, removal'[d].at = "deleted",
         removal'[d].client = removal[d].client,
         \A e \in Deletions \ {d} : removal'[e] = removal[e]
  PROVE  Gone' = Gone \cup {removal[d].client}
<1>1. Returned' = Returned \cup {d}
  BY DEF Returned
<1>2. \A e \in Returned' : removal'[e].client = removal[e].client
  BY DEF Returned
<1> QED
  BY <1>1, <1>2 DEF Gone

(* The initial states are those of the promise.                            *)
LEMMA PromiseInit == Init => Promise!PromiseInit
<1> SUFFICES ASSUME Init PROVE Promise!PromiseInit
  OBVIOUS
<1>1. Client = [c \in Creations |-> "none"]
  BY DEF Init, Client
<1>2. Outcome = [c \in Creations |-> "idle"]
  BY DEF Init, Outcome, InFlight, Looking, Building
<1>3. Gone = {}
  BY DEF Init, Gone, Returned
<1> QED
  BY <1>1, <1>2, <1>3 DEF Promise!PromiseInit, Init, Gone

(* What happens to one creation is a step of the promise, or goes unseen.  *)
LEMMA CreationRefines ==
  ASSUME Inv, NEW c \in Creations, Begin(c) \/ CreateStep(c)
  PROVE  Promise!PromiseNext \/ UNCHANGED Promise!promiseVars
<1> USE DEF Goto, Proceed, idpVars, observations
<1>1. /\ \A b \in Creations \ {c} : job'[b] = job[b]
      /\ UNCHANGED <<removal, asked>>
  BY DEF Begin, CreateStep, ReadRoles, Patch, PatchUnheard, LookupFails,
         Create, CreateUnheard, Grant, GrantRefused, GrantThrows, Principal,
         Assign, Secret, Lags, BuildFails, Rollback, RollbackFails, Inv, TypeOK
<1>2. Gone' = Gone
  BY <1>1, GoneKept
<1>3. job \in [Creations -> Jobs] /\ job[c] \in Jobs
  BY DEF Inv, TypeOK
<1>4. /\ Client[c] = IF c \notin made THEN "none"
                    ELSE IF c \notin exists THEN "gone"
                    ELSE IF job[c].at = "created" THEN "usable"
                    ELSE "unfinished"
      /\ Client'[c] = IF c \notin made' THEN "none"
                     ELSE IF c \notin exists' THEN "gone"
                     ELSE IF job'[c].at = "created" THEN "usable"
                     ELSE "unfinished"
      /\ Outcome[c] = IF job[c].at \in InFlight THEN "running" ELSE job[c].at
      /\ Outcome'[c] = IF job'[c].at \in InFlight THEN "running"
                      ELSE job'[c].at
  BY DEF Client, Outcome
<1> USE DEF InFlight, Looking, Building
(* The steps that are seen.                                                *)
<1>5. CASE Begin(c)
  <2>1. job[c].at = "idle" /\ job'[c].at = "readRoles"
    BY <1>3, <1>5, BeginLemma DEF Begin, Became
  <2>2. UNCHANGED <<exists, made, visible>>
    BY <1>5 DEF Begin
  <2>3. Client' = Client
    BY <1>1, <2>1, <2>2 DEF Client
  <2>4. Outcome' = [Outcome EXCEPT ![c] = "running"]
    BY <1>1, <1>4, <2>1, <2>2, OutcomeChanged DEF Same
  <2>5. Promise!Start(c)
    BY <1>1, <1>2, <1>4, <2>1, <2>2, <2>3, <2>4 DEF Promise!Start, Gone
  <2> QED
    BY <2>5 DEF Promise!PromiseNext
<1>6. CASE Create(c)
  <2>1. job[c].at = "create" /\ job'[c].at \in {"grant", "principal"}
    BY <1>3, <1>6, CreateLemma DEF Create, Became
  <2>2. /\ exists' = exists \cup {c} /\ made' = made \cup {c}
        /\ c \notin made /\ visible' \in {visible, visible \cup {c}}
    BY <1>6, <2>1 DEF Create, Make, Inv, Existence
  <2>3. Client' = [Client EXCEPT ![c] = "unfinished"]
    BY <1>1, <1>4, <2>1, <2>2, ClientChanged DEF Same
  <2>4. Outcome' = Outcome
    BY <1>1, <2>1 DEF Outcome
  <2>5. Promise!Appear(c)
    BY <1>1, <1>2, <1>4, <2>1, <2>2, <2>3, <2>4 DEF Promise!Appear,
       Promise!Made, Gone
  <2> QED
    BY <2>5 DEF Promise!PromiseNext
<1>7. CASE Grant(c) \/ Secret(c)
  <2>1. job[c].at \in {"grant", "secret"} /\ job'[c].at = "created"
    BY <1>3, <1>7, GotoLemma DEF Grant, Secret, Became
  <2>2. UNCHANGED <<exists, made, visible>> /\ c \in exists /\ c \in made
    BY <1>7, <2>1 DEF Grant, Secret, Inv, Existence
  <2>3. Client' = [Client EXCEPT ![c] = "usable"]
    BY <1>1, <1>4, <2>1, <2>2, ClientChanged DEF Same
  <2>4. Outcome' = [Outcome EXCEPT ![c] = "created"]
    BY <1>1, <1>4, <2>1, <2>2, OutcomeChanged DEF Same
  <2>5. Promise!Succeed(c)
    BY <1>1, <1>2, <1>4, <2>1, <2>2, <2>3, <2>4 DEF Promise!Succeed, Gone
  <2> QED
    BY <2>5 DEF Promise!PromiseNext
(* The creation fails, with or without a client left behind.               *)
<1>8. CASE \/ LookupFails(c) \/ PatchUnheard(c) \/ GrantThrows(c)
           \/ RollbackFails(c) \/ CreateUnheard(c) \/ Rollback(c)
  <2>1. job[c].at \in InFlight /\ job'[c].at = "failed"
    BY <1>3, <1>8, GotoLemma DEF LookupFails, PatchUnheard, GrantThrows,
       RollbackFails, CreateUnheard, Rollback, Became
  <2>2. \A b \in Creations \ {c} : Same(b)
    BY <1>1, <1>8 DEF LookupFails, PatchUnheard, GrantThrows, RollbackFails,
       Make, CreateUnheard, Rollback, Same
  <2>3. Outcome' = [Outcome EXCEPT ![c] = "failed"] /\ Outcome[c] = "running"
    BY <1>4, <2>1, <2>2, OutcomeChanged
  <2>4. \/ Client' = Client /\ visible' = visible
        \/ Promise!Made(c)
        \/ /\ Client[c] = "unfinished" /\ Client' = [Client EXCEPT ![c] = "gone"]
           /\ visible' = visible
    <3>1. CASE LookupFails(c) \/ PatchUnheard(c) \/ GrantThrows(c)
               \/ RollbackFails(c)
      <4>1. UNCHANGED <<exists, made, visible>>
        BY <3>1 DEF LookupFails, PatchUnheard, GrantThrows, RollbackFails
      <4> QED
        BY <1>1, <2>1, <4>1 DEF Client
    <3>2. CASE CreateUnheard(c)
      <4>1. /\ exists' = exists \cup {c} /\ made' = made \cup {c}
            /\ c \notin made /\ visible' \in {visible, visible \cup {c}}
        BY <3>2 DEF CreateUnheard, Make, Inv, Existence
      <4>2. Client[c] = "none" /\ Client' = [Client EXCEPT ![c] = "unfinished"]
        BY <1>4, <2>1, <2>2, <4>1, ClientChanged
      <4> QED
        BY <4>1, <4>2 DEF Promise!Made
    <3>3. CASE Rollback(c)
      <4>1. /\ exists' = exists \ {c} /\ made' = made /\ visible' = visible
            /\ c \in made /\ c \in exists
        BY <3>3 DEF Rollback, Inv, Existence
      <4> QED
        BY <1>4, <2>1, <2>2, <4>1, ClientChanged
    <3> QED
      BY <1>8, <3>1, <3>2, <3>3
  <2>5. Promise!GiveUp(c)
    BY <1>1, <1>2, <2>3, <2>4 DEF Promise!GiveUp, Gone
  <2> QED
    BY <2>5 DEF Promise!PromiseNext
(* The others are the adapter's own business.                              *)
<1>9. CASE \/ ReadRoles(c) \/ Patch(c) \/ GrantRefused(c) \/ Principal(c)
           \/ Assign(c) \/ Lags(c) \/ BuildFails(c)
  <2>1. job[c].at \in InFlight /\ job'[c].at \in InFlight
    <3>1. CASE GrantRefused(c) \/ BuildFails(c)
      BY <1>3, <3>1, GotoLemma DEF GrantRefused, BuildFails, Became
    <3>2. CASE Principal(c)
      BY <1>3, <3>2, GotoLemma DEF Principal, AfterAssignments, Became
    <3>3. CASE Lags(c)
      BY <1>3, <3>3, LagsLemma DEF Lags, Became
    <3>4. CASE ReadRoles(c)
      BY <1>3, <3>4 DEF ReadRoles, Jobs
    <3>5. CASE Patch(c)
      BY <1>3, <3>5 DEF Patch, Jobs
    <3>6. CASE Assign(c)
      <4>1. PICK role \in job[c].todo :
              job' = [job EXCEPT
                ![c] = [@ EXCEPT
                  !.todo = job[c].todo \ {role},
                  !.attempts = 0,
                  !.at = AfterAssignments(job[c].todo \ {role})]]
        BY <3>6 DEF Assign
      <4>2. job'[c].at = AfterAssignments(job[c].todo \ {role})
        BY <1>3, <4>1, AssignLemma DEF Became
      <4> QED
        BY <3>6, <4>2 DEF Assign, AfterAssignments
    <3> QED
      BY <1>9, <3>1, <3>2, <3>3, <3>4, <3>5, <3>6
  <2>2. UNCHANGED <<exists, made, visible>>
    BY <1>9 DEF ReadRoles, Patch, GrantRefused, Principal, Assign, Lags,
       BuildFails
  <2>3. Client' = Client /\ Outcome' = Outcome
    BY <1>1, <2>1, <2>2, ViewKept
  <2> QED
    BY <1>1, <1>2, <2>2, <2>3 DEF Promise!promiseVars, Gone
<1> QED
  BY <1>5, <1>6, <1>7, <1>8, <1>9 DEF CreateStep

(* So is what happens to a deletion.                                       *)
LEMMA DeletionRefines ==
  ASSUME Inv, NEW d \in Deletions, BeginDelete(d) \/ DeleteStep(d)
  PROVE  Promise!PromiseNext \/ UNCHANGED Promise!promiseVars
<1> USE DEF idpVars, observations
<1>1. /\ \A e \in Deletions \ {d} : removal'[e] = removal[e]
      /\ UNCHANGED <<job, made, visible>>
  BY DEF BeginDelete, DeleteStep, Lookup, Delete, DeleteFails, Retire, Inv,
         TypeOK
<1>2. /\ removal \in [Deletions -> Removals] /\ removal[d] \in Removals
  BY DEF Inv, TypeOK
<1>3. Outcome' = Outcome
  BY <1>1 DEF Outcome
<1>4. CASE BeginDelete(d)
  <2>1. PICK c \in Creations :
          /\ removal[d].at = "idle" /\ removal'[d].at \in {"delete", "lookup"}
          /\ job[c].at = "created"
          /\ asked' = asked \cup {c} /\ exists' = exists
    BY <1>2, <1>4 DEF BeginDelete
  <2>2. Gone' = Gone
    BY <1>1, <2>1, GoneKept
  <2>3. Client' = Client
    BY <1>1, <2>1 DEF Client
  <2>4. Promise!AskDelete(c)
    BY <1>1, <1>3, <2>1, <2>2, <2>3
       DEF Promise!AskDelete, Gone, Outcome, InFlight, Looking, Building
  <2> QED
    BY <2>4 DEF Promise!PromiseNext
<1>5. ASSUME removal[d].at \in Deleting, removal'[d].at \notin {"deleted"},
             UNCHANGED <<exists, asked>>
      PROVE  UNCHANGED Promise!promiseVars
  <2>1. Gone' = Gone
    BY <1>1, <1>5, GoneKept DEF Deleting
  <2>2. Client' = Client
    BY <1>1, <1>5 DEF Client
  <2> QED
    BY <1>1, <1>3, <1>5, <2>1, <2>2 DEF Promise!promiseVars, Gone
<1> DEFINE x == removal[d].client
<1>6. ASSUME removal[d].at \in Deleting
      PROVE  /\ x \in Creations /\ x \in asked /\ x \in made
             /\ job[x].at = "created"
  BY <1>6 DEF Inv, TypeOK, Removing, Existence, Deleting
<1>7. ASSUME removal[d].at \in Deleting, exists' = exists \ {x}
      PROVE  Client' = [Client EXCEPT ![x] = "gone"]
  <2>1. \A b \in Creations \ {x} : Same(b)
    BY <1>1, <1>7 DEF Same
  <2>2. Client'[x] = "gone"
    BY <1>1, <1>6, <1>7 DEF Client
  <2> QED
    BY <1>6, <1>7, <2>1, <2>2, ClientChanged
<1>8. ASSUME removal[d].at \in Deleting, removal'[d].at = "deleted",
             removal'[d].client = x, asked' = asked,
             \/ exists' = exists \ {x}
             \/ exists' = exists /\ x \notin visible
      PROVE  Promise!PromiseNext
  <2>1. Gone' = Gone \cup {x}
    BY <1>1, <1>8, GoneGrows
  <2>2. PICK c \in Creations : c = x
    BY <1>6, <1>8
  <2>3. Promise!Confirm(c)
    <3>1. exists' = exists => Client' = Client
      BY <1>1 DEF Client
    <3>2. \/ Client' = [Client EXCEPT ![c] = "gone"]
          \/ c \notin visible /\ Client' = Client
      BY <1>7, <1>8, <2>2, <3>1
    <3> QED
      BY <1>1, <1>3, <1>6, <1>8, <2>1, <2>2, <3>2 DEF Promise!Confirm, Gone
  <2> QED
    BY <2>3 DEF Promise!PromiseNext
<1>9. CASE Lookup(d)
  <2>1. /\ removal[d].at \in Deleting /\ removal'[d].client = x
        /\ \/ removal'[d].at = "delete"
           \/ removal'[d].at = "deleted" /\ x \notin exists \cap visible
        /\ UNCHANGED <<exists, asked>>
    <3>1. /\ removal[d].at = "lookup" /\ UNCHANGED <<exists, asked>>
          /\ \/ Retire(d, "delete")
             \/ x \notin exists \cap visible /\ Retire(d, "deleted")
      BY <1>9 DEF Lookup
    <3>2. ASSUME NEW to, Retire(d, to)
          PROVE  removal'[d].at = to /\ removal'[d].client = x
      BY <1>2, <3>2 DEF Retire, Removals
    <3> QED
      BY <3>1, <3>2 DEF Deleting
  <2>2. CASE removal'[d].at = "delete"
    BY <1>5, <2>1, <2>2
  <2>3. CASE removal'[d].at = "deleted" /\ x \notin exists \cap visible
    <3>1. \/ exists' = exists \ {x}
          \/ exists' = exists /\ x \notin visible
      BY <2>1, <2>3
    <3> QED
      BY <1>8, <2>1, <2>3, <3>1
  <2> QED
    BY <2>1, <2>2, <2>3
<1>10. CASE Delete(d)
  <2>1. /\ removal[d].at \in Deleting /\ removal'[d].client = x
        /\ removal'[d].at = "deleted" /\ asked' = asked
        /\ \/ exists' = exists \ {x}
           \/ exists' = exists /\ x \notin visible
    BY <1>2, <1>10 DEF Delete, Retire, Deleting
  <2> QED
    BY <1>8, <2>1
<1>11. CASE DeleteFails(d)
  <2>1. /\ removal[d].at \in Deleting /\ removal'[d].at = "failed"
        /\ exists' = exists \/ exists' = exists \ {x}
        /\ asked' = asked
    BY <1>2, <1>11 DEF DeleteFails, Retire
  <2>2. CASE exists' = exists
    BY <1>5, <2>1, <2>2
  <2>3. CASE exists' = exists \ {x} /\ x \in exists
    <3>1. Gone' = Gone
      BY <1>1, <2>1, GoneKept DEF Deleting
    <3>2. Client[x] = "usable"
      BY <1>6, <2>1, <2>3 DEF Client
    <3>3. Promise!Vanish(x)
      BY <1>1, <1>3, <1>6, <1>7, <2>1, <2>3, <3>1, <3>2 DEF Promise!Vanish, Gone
    <3> QED
      BY <1>6, <2>1, <3>3 DEF Promise!PromiseNext
  <2> QED
    BY <2>1, <2>2, <2>3
<1> QED
  BY <1>4, <1>9, <1>10, <1>11 DEF DeleteStep

(* A crash is the death of a proxy with the creations under way.           *)
LEMMA CrashRefines == Inv /\ Crash => Promise!PromiseNext
<1> SUFFICES ASSUME Inv, Crash PROVE Promise!PromiseNext
  OBVIOUS
<1> DEFINE dying == {c \in Creations : job[c].at \in InFlight}
<1>1. /\ \A c \in Creations :
           \/ job'[c] = job[c] /\ c \notin dying
           \/ job'[c].at = "failed" /\ c \in dying
      /\ UNCHANGED <<exists, made, asked, visible>>
  <2>1. \A c \in Creations : job[c] \in Jobs
    BY DEF Inv, TypeOK
  <2> QED
    BY <2>1 DEF Crash, idpVars, Jobs
<1>2. \A d \in Deletions :
        \/ removal'[d] = removal[d]
        \/ removal[d].at \in Deleting /\ removal'[d].at = "failed"
  <2>1. \A d \in Deletions : removal[d] \in Removals
    BY DEF Inv, TypeOK
  <2> QED
    BY <2>1 DEF Crash, Removals
<1>3. Gone' = Gone
  BY <1>2, GoneKept DEF Deleting
<1>4. Client' = Client
  BY <1>1 DEF Client, InFlight, Looking, Building
<1>5. Outcome' = [c \in Creations |->
                    IF c \in dying /\ Outcome[c] = "running" THEN "failed"
                                                            ELSE Outcome[c]]
  BY <1>1 DEF Outcome, InFlight, Looking, Building
<1>6. Promise!Die(dying)
  BY <1>1, <1>3, <1>4, <1>5 DEF Promise!Die, Gone
<1> QED
  BY <1>6 DEF Promise!PromiseNext

(* The directory's catching up is part of the promise too.                 *)
LEMMA CatchUpRefines ==
  ASSUME Inv, NEW c \in Creations, CatchUp(c)
  PROVE  Promise!PromiseNext
<1>1. /\ UNCHANGED <<job, removal, exists, made, asked>>
      /\ c \in exists /\ c \in made /\ c \notin visible
      /\ visible' = visible \cup {c}
  BY DEF CatchUp, observations, Inv, Existence
<1>2. Client' = Client /\ Outcome' = Outcome
  BY <1>1 DEF Client, Outcome
<1>3. Gone' = Gone
  BY <1>1, GoneKept
<1>4. Client[c] \in {"unfinished", "usable"}
  BY <1>1 DEF Client
<1>5. Promise!CatchUp(c)
  BY <1>1, <1>2, <1>3, <1>4 DEF Promise!CatchUp, Gone
<1> QED
  BY <1>5 DEF Promise!PromiseNext

(* Every step is a step of the promise or leaves its variables alone.      *)
LEMMA StepRefines ==
  Inv /\ [Next]_vars => [Promise!PromiseNext]_(Promise!promiseVars)
<1>1. ASSUME UNCHANGED vars
      PROVE  UNCHANGED Promise!promiseVars
  <2>1. UNCHANGED <<job, removal, exists, made, asked, visible>>
    BY <1>1 DEF vars, idpVars, observations
  <2>2. Client' = Client /\ Outcome' = Outcome
    BY <2>1 DEF Client, Outcome
  <2>3. Gone' = Gone
    BY <2>1, GoneKept
  <2> QED
    BY <2>1, <2>2, <2>3 DEF Promise!promiseVars, Gone
<1> QED
  BY <1>1, CreationRefines, DeletionRefines, CrashRefines, CatchUpRefines
     DEF Next, Finished

(* The adapter keeps the promise the agents' life relies on, whichever     *)
(* provider is behind it, however far its directory lags behind and        *)
(* however its requests fail.                                              *)
THEOREM PromiseKept == Spec => KeepsIdpPromise
BY PromiseInit, StepRefines, Invariant, PTL
   DEF Spec, KeepsIdpPromise, Promise!PromiseSpec
=============================================================================
