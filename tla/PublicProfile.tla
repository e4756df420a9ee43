---------------------------- MODULE PublicProfile ----------------------------
(***************************************************************************)
(* ProfileService (modules/profile/profile.service.ts): the profile of a   *)
(* tenant is created when its agency or the tenant first asks for it, the  *)
(* tenant sets its switches, and anybody who has the slug views it.        *)
(*                                                                         *)
(* A view reads the profile and then, one query after another, the rows    *)
(* behind each section that is switched on.  What is in those rows is left *)
(* out; whether the query finds the tenant's rows at all is not.           *)
(***************************************************************************)
EXTENDS Naturals, FiniteSets, Scoping

CONSTANTS
    Client,       \* requests in flight together
    Subject,      \* the tenants whose profiles are considered
    Residence,    \* the agency of each
    MaxVersions   \* bound on the different settings a profile ever has

ASSUME ResidenceAssumption == Residence \in [Subject -> Agency]
ASSUME UnprofiledAssumption == None \notin Agency \cup Subject

Section == {"showBadges", "showScore", "showReviews", "showName"}
Switch == {"isPublic"} \cup Section
Default == {"showScore", "showBadges"}  \* the schema's defaults

VARIABLES
    profile,  \* tenant_public_profiles: the switches that are on; None without a row
    was,      \* history: every setting each profile has had
    stage,    \* the clients' requests: next call
    view      \* ... and their locals

profileVars == <<profile, was, stage, view>>

Stage == {"idle", "find", "create", "update", "show", "answer"}

(* writes: will the request set switches?  seen: the switches as read;     *)
(* shown: sections queried; bare: those whose query found no row.          *)
View == [subject : Subject \cup {None}, writes : BOOLEAN, ctx : AnyToken,
         seen : SUBSET Switch, shown : SUBSET Section, bare : SUBSET Section]

NoView == [subject |-> None, writes |-> FALSE, ctx |-> NoToken,
           seen |-> {}, shown |-> {}, bare |-> {}]

ProfileInit ==
    /\ profile = [t \in Subject |-> None]
    /\ was = [t \in Subject |-> {}]
    /\ stage = [c \in Client |-> "idle"]
    /\ view = [c \in Client |-> NoView]

-----------------------------------------------------------------------------
Proceed(c, label) == stage' = [stage EXCEPT ![c] = label]
Note(c, v) == view' = [view EXCEPT ![c] = v]
Leave(c) == Proceed(c, "idle") /\ Note(c, NoView)

(* getForAgency: the tenant is the agency's; any role may read tenants.    *)
GetForAgency(c, t) ==
    /\ stage[c] = "idle"
    /\ \E ctx \in UserToken : Visible(ctx, "Tenant", "findFirst", Residence[t])
    /\ Note(c, [NoView EXCEPT !.subject = t])
    /\ Proceed(c, "find")
    /\ UNCHANGED <<profile, was>>

(* updateForTenant: the tenant is the one of the token, not of the URL.    *)
UpdateForTenant(c, t) ==
    /\ stage[c] = "idle"
    /\ Note(c, [NoView EXCEPT !.subject = t, !.writes = TRUE,
                              !.ctx = [agency |-> Residence[t], role |-> None]])
    /\ Proceed(c, "find")
    /\ UNCHANGED <<profile, was>>

(* getOrCreate: look for the profile ...                                   *)
FindProfile(c) ==
    /\ stage[c] = "find"
    /\ LET v == view[c]
       IN  IF profile[v.subject] = None THEN Proceed(c, "create") /\ UNCHANGED view
           ELSE IF v.writes THEN Proceed(c, "update") /\ UNCHANGED view
           ELSE Leave(c)
    /\ UNCHANGED <<profile, was>>

Store(t, switches) ==
    /\ profile' = [profile EXCEPT ![t] = switches]
    /\ was' = [was EXCEPT ![t] = @ \cup {switches}]

CreateProfileAnew(c) ==  \* mutant: upserts, with the defaults
    /\ stage[c] = "create"
    /\ Store(view[c].subject, Default)
    /\ IF view[c].writes THEN Proceed(c, "update") /\ UNCHANGED view ELSE Leave(c)

(* ... and create it.  tenantId is unique: the second of two overlapping   *)
(* requests fails here.                                                    *)
CreateProfile(c) ==
    /\ stage[c] = "create"
    /\ LET t == view[c].subject
       IN  IF profile[t] # None THEN Leave(c) /\ UNCHANGED <<profile, was>>
           ELSE /\ Store(t, Default)
                /\ IF view[c].writes THEN Proceed(c, "update") /\ UNCHANGED view
                   ELSE Leave(c)

(* The fields that were sent, whichever they are, by the profile's id.     *)
UpdateProfile(c) ==
    /\ stage[c] = "update"
    /\ LET t == view[c].subject
       IN  \E switches \in SUBSET Switch :
              /\ switches \in was[t] \/ Cardinality(was[t]) < MaxVersions
              /\ Store(t, switches)
    /\ Leave(c)

(* getPublic reads the profile by its slug, once.                          *)
OpenView(c, t, ctx) ==
    /\ stage[c] = "idle"
    /\ profile[t] # None
    /\ "isPublic" \in profile[t]
    /\ Note(c, [NoView EXCEPT !.subject = t, !.ctx = ctx, !.seen = profile[t]])
    /\ Proceed(c, IF profile[t] \cap Section = {} THEN "answer" ELSE "show")
    /\ UNCHANGED <<profile, was>>

(* The query behind each section, and their order.                         *)
ModelOf == [showBadges |-> "TenantBadge", showScore |-> "TenantScoreCycle",
            showReviews |-> "LeaseReview", showName |-> "Tenant"]
ActionOf == [showBadges |-> "findMany", showScore |-> "findMany",
             showReviews |-> "findMany", showName |-> "findUnique"]
Order == [showBadges |-> 1, showScore |-> 2, showReviews |-> 3, showName |-> 4]

Due(v) == (v.seen \cap Section) \ v.shown

ShowSectionOf(c, switches) ==
    /\ stage[c] = "show"
    /\ LET v == view[c]
           due == (switches \cap Section) \ v.shown
       IN  \E s \in due :
              /\ \A u \in due : Order[s] <= Order[u]
              /\ Note(c, [v EXCEPT
                    !.shown = @ \cup {s},
                    !.bare = IF Visible(v.ctx, ModelOf[s], ActionOf[s], Residence[v.subject])
                             THEN @ ELSE @ \cup {s}])
              /\ Proceed(c, IF due = {s} THEN "answer" ELSE "show")
    /\ UNCHANGED <<profile, was>>

ShowCurrentSection(c) == ShowSectionOf(c, profile[view[c].subject])  \* mutant: re-reads

ShowSection(c) == ShowSectionOf(c, view[c].seen)

Answer(c) ==
    /\ stage[c] = "answer"
    /\ Leave(c)
    /\ UNCHANGED <<profile, was>>

(* A look-up finds nothing, a call throws, or the process stops.           *)
AbortProfile(c) ==
    /\ stage[c] # "idle"
    /\ Leave(c)
    /\ UNCHANGED <<profile, was>>

ProfileControllers(c) ==
    \E t \in Subject : \/ GetForAgency(c, t) \/ UpdateForTenant(c, t)
                       \/ \E ctx \in AnyToken : OpenView(c, t, ctx)

ProfileNext ==
    \E c \in Client : \/ ProfileControllers(c) \/ FindProfile(c) \/ CreateProfile(c)
                      \/ UpdateProfile(c) \/ ShowSection(c) \/ Answer(c) \/ AbortProfile(c)

-----------------------------------------------------------------------------
(* Properties                                                              *)

ProfileTypeOK ==
    /\ profile \in [Subject -> (SUBSET Switch) \cup {None}]
    /\ was \in [Subject -> SUBSET SUBSET Switch]
    /\ stage \in [Client -> Stage]
    /\ view \in [Client -> View]

(* A finished view has exactly the sections of one setting the profile had *)
(* while public, however the tenant has changed it between the queries     *)
(* (profile.service.ts:57-114).                                            *)
ViewsKeepToChoices ==
    \A c \in Client : stage[c] = "answer" =>
        \E switches \in was[view[c].subject] :
            "isPublic" \in switches /\ view[c].shown = switches \cap Section

(* What the route should do: a view is the same whoever asks, because the  *)
(* middleware injects nothing on public routes (tenant-prisma.service.ts:  *)
(* 33-34) and a token sent to one serves "keying/bypass only"              *)
(* (rate-limit.guard.ts:81).  Not so: the token of another agency empties  *)
(* the score and the reviews.                                              *)
PublicViewsUnscoped == \A c \in Client : stage[c] = "answer" => view[c].bare = {}

(* What does hold: a view is emptied of nothing but the score and the      *)
(* reviews, whose queries are the two of scoped models, and only for a     *)
(* visitor who sends the token of another agency and is no SYSTEM_ADMIN.   *)
OnlyForeignTokensScope ==
    \A c \in Client : stage[c] = "answer" /\ view[c].bare # {} =>
        /\ view[c].bare \subseteq {"showScore", "showReviews"}
        /\ view[c].ctx.agency \notin {None, Residence[view[c].subject]}
        /\ view[c].ctx.role # "SYSTEM_ADMIN"

(* Once there, a profile changes only by a request of its tenant: the      *)
(* creations that overlap, the agency's among them, all start from having  *)
(* seen no profile, and only the unique index keeps the later ones from    *)
(* putting the defaults back (profile.service.ts:20-29, 41-53).            *)
OnlyTenantsSetSwitches ==
    [][\A t \in Subject : profile[t] # None /\ profile'[t] # profile[t] =>
          \E c \in Client : /\ stage[c] = "update" /\ stage'[c] = "idle"
                            /\ view[c].subject = t /\ view[c].writes
                            /\ view[c].ctx.agency = Residence[t]]_profileVars
=============================================================================
