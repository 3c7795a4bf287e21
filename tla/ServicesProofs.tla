---------------------------- MODULE ServicesProofs ----------------------------
(***************************************************************************)
(* Proofs about the other parts of Services (requests to act, snapshots,   *)
(* configuration, the Chrome launcher and the logger), and the type        *)
(* invariant of the whole composition.                                     *)
(***************************************************************************)
EXTENDS BrowserSupplyProofs, ControlProofs, SequenceTheorems

-----------------------------------------------------------------------------
(* Act: requests to act *)

\* What passed the gate and the schema, however far the request came.
ActInv ==
  /\ Act!TypeOK /\ given \in Act!Given(kind)
  /\ place \in {"gated", "handed"} => Act!GatePasses(kind, given) /\ ~Act!Refused(kind, given)
  /\ place = "handed" => Act!SchemaPasses(kind, given) /\ (kind = "evaluate" => evaluateEnabled)

\* A step of the composition is a step of the request, or not this part.
LEMMA ActPart ==
  [Next]_vars => part' = part /\ (part = "act" => [Act!Next]_(Act!vars))
  BY DEF Next, Rest, vars, OfAct, Act!vars

LEMMA ActInit ==
  ASSUME Act!Init
  PROVE  ActInv
  BY DEF Act!Init, ActInv, Act!TypeOK

LEMMA ActStep ==
  ASSUME ActInv, [Act!Next]_(Act!vars)
  PROVE  ActInv'
<1>1. UNCHANGED <<kind, given, runGiven, selectorGiven, evaluateEnabled>>
  BY DEF Act!Next, Act!Gate, Act!HandleSimple, Act!HandleForm, Act!HandleAdvanced, Act!Handle, Act!vars
<1>2. /\ kind' \in Act!Kinds /\ {runGiven', selectorGiven', evaluateEnabled'} \subseteq BOOLEAN
      /\ given' \in Act!Given(kind')
  BY <1>1, Zenon DEF ActInv, Act!TypeOK
<1>3. ASSUME place' \in {"arrived", "gated", "handed", "400", "403", "exited"},
             place' \in {"gated", "handed"} => Act!GatePasses(kind, given) /\ ~Act!Refused(kind, given),
             place' = "handed" => Act!SchemaPasses(kind, given) /\ (kind = "evaluate" => evaluateEnabled)
      PROVE  ActInv'
  <2>1. Act!GatePasses(kind, given)' = Act!GatePasses(kind, given)
        /\ Act!SchemaPasses(kind, given)' = Act!SchemaPasses(kind, given)
    BY <1>1, Zenon
  <2>2. Act!Refused(kind, given)' = Act!Refused(kind, given)
    BY <1>1 DEF Act!Refused
  <2>3. Act!TypeOK' /\ (given \in Act!Given(kind))'
    BY <1>2, <1>3 DEF Act!TypeOK
  <2> QED
    BY <1>1, <1>3, <2>1, <2>2, <2>3 DEF ActInv
<1>4. CASE Act!Gate
  BY <1>3, <1>4 DEF Act!Gate
<1>5. CASE Act!HandleSimple \/ Act!HandleForm \/ Act!HandleAdvanced
  <2>1. /\ place = "gated" /\ place' \in {"handed", "400", "403", "exited"}
        /\ place' = "handed" => Act!SchemaPasses(kind, given) /\ (kind = "evaluate" => evaluateEnabled)
    BY <1>5 DEF Act!HandleSimple, Act!HandleForm, Act!HandleAdvanced, Act!Handle
  <2> QED
    BY <1>3, <2>1 DEF ActInv
<1>6. CASE UNCHANGED Act!vars
  BY <1>3, <1>6 DEF ActInv, Act!TypeOK, Act!vars
<1> QED
  BY <1>4, <1>5, <1>6 DEF Act!Next

\* The fields of a request are those of its kind.
LEMMA ActFields ==
  ASSUME ActInv
  PROVE  DOMAIN given = Act!TextFields[kind] \cup Act!NumberFields(kind) \cup Act!ListFields(kind)
  BY DEF ActInv, Act!Given

LEMMA ActUsable ==
  ASSUME ActInv
  PROVE  Act!HandedIsUsable
<1> SUFFICES ASSUME place = "handed"
             PROVE  Act!HandedIsUsable
  BY DEF Act!HandedIsUsable
<1>1. Act!GatePasses(kind, given) /\ Act!SchemaPasses(kind, given) /\ kind \in Act!Kinds
  BY DEF ActInv, Act!TypeOK
<1>2. ASSUME NEW f \in DOMAIN given \cap {"startRef", "endRef", "targetRef", "key", "url"}
      PROVE  Act!NonBlank(given[f])
  <2>1. f \in Act!Required[kind]
    BY <1>1, ActFields DEF Act!Required, Act!Kinds, Act!TextFields, Act!NumberFields, Act!ListFields
  <2> QED
    BY <1>1, <2>1 DEF Act!GatePasses
<1>3. ASSUME kind \notin {"wait", "query_state", "evaluate"}, "ref" \in DOMAIN given
      PROVE  Act!NonBlank(given["ref"])
  <2>1. "ref" \in Act!Required[kind]
    BY <1>1, <1>3, ActFields DEF Act!Required, Act!Kinds, Act!TextFields, Act!NumberFields, Act!ListFields
  <2> QED
    BY <1>1, <2>1 DEF Act!GatePasses
<1>4. ASSUME NEW f \in DOMAIN given \cap {"values", "refs", "modifiers"}, kind # "fill"
      PROVE  given[f] \notin {"mixed", "other"}
  <2>1. \/ f = "values" /\ kind = "select"
        \/ f = "refs" /\ kind = "query_state"
        \/ f = "modifiers" /\ kind = "click"
    BY <1>1, <1>4, ActFields DEF Act!Kinds, Act!TextFields, Act!NumberFields, Act!ListFields
  <2> QED
    BY <1>1, <2>1 DEF Act!SchemaPasses
<1>5. kind = "click" => given.button # "padded"
  BY <1>1 DEF Act!SchemaPasses
<1> QED
  BY <1>2, <1>3, <1>4, <1>5 DEF Act!HandedIsUsable

LEMMA ActNoCode ==
  ASSUME ActInv
  PROVE  Act!NoCodeWhenDisabled
  BY ActFields DEF ActInv, Act!TypeOK, Act!NoCodeWhenDisabled, Act!Refused, Act!Kinds, Act!TextFields,
     Act!NumberFields, Act!ListFields

\* What reaches the page can be carried out as the caller meant it, and with
\* evaluation off nothing of it runs the caller's code, although neither the gate
\* of POST /act nor the schemas behind it check all of that.
THEOREM UsableIsHanded == Spec => []OnlyUsableHanded
<1> DEFINE Held == part = "act" => ActInv
<1>1. Init => Held
  BY ActInit DEF Init
<1>2. Held /\ [Next]_vars => Held'
  BY ActPart, ActStep
<1>3. Held => OnlyUsableHanded
  BY ActUsable, ActNoCode DEF OnlyUsableHanded
<1> HIDE DEF Held
<1> QED
  BY <1>1, <1>2, <1>3, PTL DEF Spec

-----------------------------------------------------------------------------
(* Settings: the configuration and the logger's limits *)

\* The configuration is what the environment says, and valid; the logger writes
\* with a level it knows, and with the configuration's once it is initialised.
SettingsInv ==
  /\ Settings!TypeOK /\ env \in Settings!Envs
  /\ config # Settings!NoConfig => config = Settings!Raw /\ Settings!Valid(config)
  /\ phase = "logging" => logging = Settings!FromConfig

\* A step of the composition is a step of the start of the service, or not this part.
LEMMA SettingsPart ==
  [Next]_vars => part' = part /\ (part = "settings" => [Settings!Next]_(Settings!vars))
  BY DEF Next, Rest, vars, OfSettings, Settings!vars

LEMMA SettingsInit ==
  ASSUME Settings!Init
  PROVE  SettingsInv
  BY DEF Settings!Init, SettingsInv, Settings!TypeOK, Settings!ImportedLogging, Settings!ParseLevel,
     Settings!Effective, Settings!Weight, Settings!Envs

LEMMA SettingsStep ==
  ASSUME SettingsInv, [Settings!Next]_(Settings!vars)
  PROVE  SettingsInv'
<1>1. CASE Settings!LoadConfig
  <2>1. UNCHANGED <<env, logging>> /\ Settings!Raw' = Settings!Raw
    BY <1>1 DEF Settings!LoadConfig, Settings!Raw, Settings!Provider
  <2>2. CASE Settings!Valid(Settings!Raw)
    <3>1. config' = Settings!Raw /\ phase' = "loaded"
      BY <1>1, <2>2 DEF Settings!LoadConfig
    <3>2. Settings!Raw # Settings!NoConfig
      BY <2>2 DEF Settings!Valid, Settings!ProfileValid, Settings!NoConfig
    <3> QED
      BY <2>1, <2>2, <3>1, <3>2 DEF SettingsInv, Settings!TypeOK, Settings!NoConfig, Settings!Valid,
         Settings!ProfileValid, Settings!Envs, Settings!Weight
  <2>3. CASE ~Settings!Valid(Settings!Raw)
    BY <1>1, <2>1, <2>3 DEF Settings!LoadConfig, SettingsInv, Settings!TypeOK, Settings!NoConfig,
       Settings!Weight
  <2> QED
    BY <2>2, <2>3
<1>2. CASE Settings!InitializeLogging
  <2>1. UNCHANGED <<env, config>> /\ Settings!Raw' = Settings!Raw /\ phase' = "logging" /\ phase = "loaded"
        /\ logging' = Settings!FromConfig /\ Settings!FromConfig' = Settings!FromConfig
    BY <1>2 DEF Settings!InitializeLogging, Settings!Raw, Settings!Provider, Settings!FromConfig
  <2>2. Settings!Valid(config)
    BY <2>1 DEF SettingsInv, Settings!TypeOK
  <2>3. Settings!FromConfig.level \in DOMAIN Settings!Weight
    BY <2>2 DEF Settings!Valid, Settings!FromConfig, Settings!Effective, Settings!Weight
  <2> QED
    BY <2>1, <2>2, <2>3 DEF SettingsInv, Settings!TypeOK
<1>3. CASE UNCHANGED Settings!vars
  BY <1>3 DEF SettingsInv, Settings!vars, Settings!TypeOK, Settings!Raw, Settings!Provider, Settings!FromConfig
<1> QED
  BY <1>1, <1>2, <1>3 DEF Settings!Next

LEMMA SettingsTakeEffect ==
  ASSUME SettingsInv
  PROVE  Settings!EndpointResolved /\ Settings!LoggerFollowsConfig
<1>1. Settings!EndpointResolved
  BY DEF SettingsInv, Settings!EndpointResolved, Settings!BrowserEndpoint, Settings!Valid, Settings!ProfileValid
<1>2. Settings!LoggerFollowsConfig
  <2> SUFFICES ASSUME phase = "logging"
               PROVE  /\ logging.maxBytes = "valid"
                      /\ env.nodeEnv = "production" => Settings!Weight[logging.level] >= Settings!Weight.warn
    BY DEF Settings!LoggerFollowsConfig
  <2>1. logging = Settings!FromConfig /\ Settings!Valid(config) /\ config = Settings!Raw
    BY DEF SettingsInv, Settings!TypeOK
  <2>2. logging.maxBytes = "valid"
    BY <2>1 DEF Settings!FromConfig, Settings!Valid
  <2>3. ASSUME env.nodeEnv = "production"
        PROVE  Settings!Weight[logging.level] >= Settings!Weight.warn
    <3>1. config.nodeEnv = "production"
      BY <2>1, <2>3 DEF Settings!Raw
    <3>2. logging.level \in {"warn", "error"}
      BY <2>1, <3>1 DEF Settings!FromConfig, Settings!Effective, Settings!Valid, Settings!Weight
    <3> QED
      BY <3>2 DEF Settings!Weight
  <2> QED
    BY <2>2, <2>3
<1> QED
  BY <1>1, <1>2

\* For every environment: a service that goes on has an address for its browser,
\* and logs with the validated limits whatever it read when it was imported.
THEOREM ConfigurationTakesEffect == Spec => []ConfigTakesEffect
<1> DEFINE Held == part = "settings" => SettingsInv
<1>1. Init => Held
  BY SettingsInit DEF Init
<1>2. Held /\ [Next]_vars => Held'
  BY SettingsPart, SettingsStep
<1>3. Held => ConfigTakesEffect
  BY SettingsTakeEffect DEF ConfigTakesEffect
<1> HIDE DEF Held
<1> QED
  BY <1>1, <1>2, <1>3, PTL DEF Spec

-----------------------------------------------------------------------------
(* Roles: snapshots of a page *)

\* Nothing is cut from a text the service numbers itself, nor after the last line.
CutInside ==
  /\ from = "aria" => cut.lines = Len(page)
  /\ cut.lines = Len(page) => cut.rest = "none"

RolesInv ==
  /\ Roles!TypeOK /\ CutInside
  /\ Roles!RefsAreShown /\ Roles!RefsFollowOptions /\ Roles!RoleRefsAreDistinct

\* A step of the composition is a step of the snapshot, or not this part.
LEMMA RolesPart ==
  [Next]_vars => part' = part /\ (part = "roles" => [Roles!Next]_(Roles!vars))
  BY DEF Next, Rest, vars, OfRoles, Roles!vars

\* A page is a sequence of lines.
LEMMA RolesPage ==
  ASSUME RolesConstants, page \in UNION {[1..n -> Roles!Lines] : n \in 1..MaxLines}
  PROVE  page \in Seq(Roles!Lines) /\ Len(page) \in Nat /\ \A i \in 1..Len(page) : page[i].role \in Roles!Roles
<1>1. PICK n \in 1..MaxLines : page \in [1..n -> Roles!Lines]
  OBVIOUS
<1>2. n \in Nat
  BY DEF RolesConstants
<1>3. page \in Seq(Roles!Lines)
  BY <1>1, <1>2
<1>4. \A i \in 1..Len(page) : page[i] \in Roles!Lines
  BY <1>3, LenProperties
<1> QED
  BY <1>3, <1>4, LenProperties DEF Roles!Lines

LEMMA RolesInit ==
  ASSUME RolesConstants, Roles!Init
  PROVE  RolesInv
<1>1. page \in Seq(Roles!Lines) /\ Len(page) \in Nat
  BY RolesPage DEF Roles!Init
<1> QED
  BY <1>1 DEF Roles!Init, RolesInv, Roles!TypeOK, CutInside, Roles!RefsAreShown, Roles!RefsFollowOptions,
     Roles!RoleRefsAreDistinct

\* getNextIndex counts strictly upwards along the lines with one role and name.
LEMMA RolesIndex ==
  ASSUME RolesConstants, Roles!TypeOK, NEW i \in Roles!Numbered
  PROVE  /\ Roles!NextIndex(i) \in 0..Len(page)
         /\ \A j \in Roles!Numbered : i < j /\ Roles!SameKey(i, j) => Roles!NextIndex(i) < Roles!NextIndex(j)
<1> DEFINE Before(k) == {j \in Roles!Numbered : j < k /\ Roles!SameKey(k, j)}
<1>1. \A S : Roles!Cardinality(S) = Cardinality(S)
  BY DEF Roles!Cardinality, Roles!IsFiniteSet, Cardinality, IsFiniteSet
<1>2. \A k : Roles!NextIndex(k) = Cardinality(Before(k))
  BY <1>1 DEF Roles!NextIndex
<1>3. Len(page) \in Nat /\ Roles!Numbered \subseteq 1..Len(page)
  BY RolesPage DEF Roles!TypeOK, Roles!Numbered
<1>4. IsFiniteSet(1..Len(page)) /\ Cardinality(1..Len(page)) = Len(page)
  <2> DEFINE n == Len(page)
  <2>1. n \in Int /\ n >= 0
    BY <1>3
  <2> HIDE DEF n
  <2>2. IsFiniteSet(1..n) /\ Cardinality(1..n) = n
    BY <2>1, FS_Interval
  <2> QED
    BY <2>2 DEF n
<1>5. \A k : IsFiniteSet(Before(k)) /\ Cardinality(Before(k)) <= Len(page) /\ Cardinality(Before(k)) \in Nat
  <2> TAKE k
  <2>1. Before(k) \in SUBSET (1..Len(page))
    BY <1>3
  <2> HIDE DEF Before
  <2> QED
    BY <2>1, <1>4, FS_Subset, FS_CardinalityType
<1>6. ASSUME NEW j \in Roles!Numbered, i < j, Roles!SameKey(i, j)
      PROVE  Cardinality(Before(i)) < Cardinality(Before(j))
  <2>1. Before(i) \cup {i} \in SUBSET Before(j)
    <3>1. i \in Before(j)
      BY <1>6 DEF Roles!SameKey
    <3>2. ASSUME NEW k \in Before(i)
          PROVE  k \in Before(j)
      <4>1. k \in Roles!Numbered /\ k < i /\ Roles!SameKey(i, k)
        OBVIOUS
      <4>2. k < j
        BY <1>3, <1>6, <4>1
      <4> QED
        BY <4>1, <4>2, <1>6 DEF Roles!SameKey
    <3> QED
      BY <3>1, <3>2
  <2>2. i \notin Before(i)
    BY <1>3
  <2> HIDE DEF Before
  <2>3. Cardinality(Before(i) \cup {i}) = Cardinality(Before(i)) + 1
    BY <2>2, <1>5, FS_AddElement
  <2>4. Cardinality(Before(i) \cup {i}) <= Cardinality(Before(j))
    BY <2>1, <1>5, FS_Subset
  <2> QED
    BY <2>3, <2>4, <1>5
<1> HIDE DEF Before
<1> QED
  BY <1>2, <1>3, <1>5, <1>6

LEMMA RolesStep ==
  ASSUME RolesConstants, RolesInv, [Roles!Next]_(Roles!vars)
  PROVE  RolesInv'
<1> USE DEF RolesInv, CutInside
<1>0. page \in Seq(Roles!Lines) /\ Len(page) \in Nat /\ \A i \in 1..Len(page) : page[i].role \in Roles!Roles
  BY RolesPage DEF Roles!TypeOK
<1>1. CASE Roles!CaptureSnapshot
  <2>1. /\ from = "ai" /\ done' = TRUE /\ UNCHANGED <<page, options, from, cut>>
        /\ text' = 1..(cut.lines + (IF cut.rest = "none" THEN 0 ELSE 1))
        /\ refs' = {Roles!RefOf(i, 0) : i \in {j \in Roles!ShownRefs : Roles!Kept(page[j])}}
    BY <1>1 DEF Roles!CaptureSnapshot
  <2>2. \A r \in refs' : r.line \in Roles!ShownRefs /\ Roles!Kept(page[r.line])
                        /\ r.role = page[r.line].role /\ r.nth = 0
    BY <2>1 DEF Roles!RefOf
  <2>3. \A i \in Roles!ShownRefs : i \in 1..Len(page) /\ (i <= cut.lines \/ (i = cut.lines + 1 /\ cut.rest = "whole"))
    BY DEF Roles!ShownRefs
  <2>4. cut.lines \in 0..Len(page) /\ (cut.rest # "none" => cut.lines < Len(page))
    BY <1>0 DEF Roles!TypeOK
  <2>5. text' \subseteq 1..Len(page)
    BY <1>0, <2>1, <2>4
  <2>6. \A r \in refs' : r.line \in 1..Len(page) /\ r.role \in Roles!Roles /\ r.nth \in 0..Len(page)
    BY <1>0, <2>2, <2>3
  <2>7. Roles!TypeOK'
    BY <2>1, <2>5, <2>6 DEF Roles!TypeOK
  <2>8. Roles!RefsAreShown'
    BY <1>0, <2>1, <2>2, <2>3, <2>4 DEF Roles!RefsAreShown
  <2>9. Roles!RefsFollowOptions'
    BY <2>1, <2>2 DEF Roles!RefsFollowOptions, Roles!Kept
  <2> QED
    BY <2>1, <2>7, <2>8, <2>9 DEF Roles!RoleRefsAreDistinct
<1>2. CASE Roles!BuildFromAria
  <2>1. /\ from = "aria" /\ done' = TRUE /\ UNCHANGED <<page, options, from, cut>>
        /\ text' = Roles!AriaText
        /\ refs' = {Roles!RefOf(i, Roles!NextIndex(i)) : i \in Roles!Numbered}
    BY <1>2 DEF Roles!BuildFromAria
  <2>2. \A r \in refs' : /\ r.line \in Roles!Numbered /\ r.nth = Roles!NextIndex(r.line)
                        /\ r.role = page[r.line].role /\ r.name = page[r.line].name
                        /\ r = Roles!RefOf(r.line, r.nth)
    BY <2>1 DEF Roles!RefOf
  <2>3. Roles!Numbered \subseteq 1..Len(page)
    BY DEF Roles!Numbered
  <2>4. Roles!Numbered \subseteq Roles!AriaText
    BY DEF Roles!Numbered, Roles!HasRef, Roles!AriaText, Roles!Processed, Roles!Relevant,
       Roles!INTERACTIVE_ROLES, Roles!CONTENT_ROLES, Roles!STRUCTURAL_ROLES
  <2>5. Roles!AriaText \subseteq 1..Len(page)
    BY DEF Roles!AriaText, Roles!Processed
  <2>6. \A r \in refs' : r.line \in 1..Len(page) /\ r.role \in Roles!Roles /\ r.nth \in 0..Len(page)
    BY <1>0, <2>2, <2>3, RolesIndex
  <2>7. Roles!TypeOK'
    BY <2>1, <2>5, <2>6 DEF Roles!TypeOK
  <2>8. Roles!RefsAreShown'
    BY <1>0, <2>1, <2>2, <2>3, <2>4 DEF Roles!RefsAreShown
  <2>9. Roles!RefsFollowOptions'
    BY <2>1, <2>2 DEF Roles!RefsFollowOptions, Roles!Numbered, Roles!HasRef
  <2>10. ASSUME NEW r \in refs', NEW s \in refs', [r EXCEPT !.line = 0] = [s EXCEPT !.line = 0]
         PROVE  r = s
    <3>1. r.role = s.role /\ r.name = s.name /\ r.nth = s.nth
      BY <2>2, <2>10 DEF Roles!RefOf
    <3>2. r.line = s.line
      <4> DEFINE i == r.line
                 j == s.line
      <4>0. i \in Roles!Numbered /\ j \in Roles!Numbered
        BY <2>2, <2>10
      <4>1. i \in Roles!Numbered /\ j \in Roles!Numbered /\ i \in Int /\ j \in Int
        <5>1. \A n \in Roles!Numbered : n \in Int
          BY <1>0, <2>3
        <5> HIDE DEF i, j
        <5> QED
          BY <4>0, <5>1
      <4>2. Roles!SameKey(i, j) /\ Roles!SameKey(j, i)
        BY <2>2, <3>1 DEF Roles!SameKey
      <4>3. Roles!NextIndex(i) = Roles!NextIndex(j) /\ Roles!NextIndex(i) \in Int
        BY <2>2, <3>1, <4>1, <1>0, RolesIndex
      <4> HIDE DEF i, j
      <4>4. ~(i < j) /\ ~(j < i)
        BY <4>1, <4>2, <4>3, RolesIndex
      <4>5. i = j
        BY <4>1, <4>4
      <4> QED
        BY <4>5 DEF i, j
    <3> QED
      BY <2>2, <3>1, <3>2
  <2> QED
    BY <2>1, <2>7, <2>8, <2>9, <2>10 DEF Roles!RoleRefsAreDistinct
<1>3. CASE UNCHANGED Roles!vars
  BY <1>3 DEF Roles!vars, Roles!TypeOK, Roles!RefsAreShown, Roles!RefsFollowOptions, Roles!RoleRefsAreDistinct
<1> QED
  BY <1>1, <1>2, <1>3 DEF Roles!Next

\* For pages of any length: every ref of a snapshot can be read in its text,
\* answers the options of the request, and role, name and nth tell elements apart.
THEOREM SnapshotsUsable == Spec => []SnapshotRefsUsable
<1> USE ServicesAssumption
<1> DEFINE Held == part = "roles" => RolesInv
<1>1. Init => Held
  BY RolesInit DEF Init
<1>2. Held /\ [Next]_vars => Held'
  BY RolesPart, RolesStep
<1>3. Held => SnapshotRefsUsable
  BY DEF RolesInv, SnapshotRefsUsable
<1> HIDE DEF Held
<1> QED
  BY <1>1, <1>2, <1>3, PTL DEF Spec

-----------------------------------------------------------------------------
(* Launcher: local Chromes *)

\* The port's entry was spawned, and a stop is about a Chrome that got a signal
\* or had ended before it.
StopsSignalled ==
  /\ running # None => proc[running] # "none"
  /\ \A u \in Launchers : at[u] = "stopping" =>
       chrome[u] \in Chromes /\ proc[chrome[u]] # "none"
       /\ (chrome[u] \in killed \/ proc[chrome[u]] = "dead")

LauncherInv == Launcher!TypeOK /\ StopsSignalled

\* A step of the composition is a step of the launcher, or not this part.
LEMMA LauncherPart ==
  [Next]_vars => part' = part /\ (part = "launcher" => [Launcher!Next]_(Launcher!vars))
  BY DEF Next, Rest, vars, OfLauncher, Launcher!vars

LEMMA LauncherInit ==
  ASSUME LauncherConstants, Launcher!Init
  PROVE  LauncherInv
  BY DEF LauncherConstants, Launcher!Init, LauncherInv, Launcher!TypeOK, StopsSignalled

\* What a step does to the processes keeps a stop about a signalled Chrome.
LEMMA LauncherStep ==
  ASSUME LauncherConstants, LauncherInv, [Launcher!Next]_(Launcher!vars)
  PROVE  LauncherInv'
<1> USE DEF LauncherConstants, LauncherInv, Launcher!TypeOK, StopsSignalled
<1>1. ASSUME NEW u \in Launchers, NEW c \in Chromes, Launcher!Launch(u, c)
      PROVE  LauncherInv'
  BY <1>1 DEF Launcher!Launch
<1>2. ASSUME NEW u \in Launchers, Launcher!Attempt(u)
      PROVE  LauncherInv'
  BY <1>2 DEF Launcher!Attempt, Launcher!OutOfAttempts
<1>3. ASSUME NEW u \in Launchers, Launcher!GivesUp(u) \/ Launcher!Relaunch(u)
      PROVE  LauncherInv'
  BY <1>3 DEF Launcher!GivesUp, Launcher!Relaunch
<1>4. ASSUME NEW u \in Launchers, Launcher!Release(u)
      PROVE  LauncherInv'
  BY <1>4 DEF Launcher!Release, Launcher!Terminated, Launcher!Alive
<1>5. ASSUME NEW u \in Launchers, Launcher!StopWaits(u)
      PROVE  LauncherInv'
  BY <1>5 DEF Launcher!StopWaits, Launcher!StopGoesOn
<1>6. ASSUME NEW u \in Launchers, Launcher!StopEnds(u)
      PROVE  LauncherInv'
  BY <1>6 DEF Launcher!StopEnds, Launcher!Alive
<1>7. ASSUME NEW c \in Chromes, Launcher!ChromeStarts(c) \/ Launcher!ChromeFails(c)
      PROVE  LauncherInv'
  BY <1>7 DEF Launcher!ChromeStarts, Launcher!ChromeFails
<1>8. CASE UNCHANGED Launcher!vars
  BY <1>8 DEF Launcher!vars
<1> QED
  BY <1>1, <1>2, <1>3, <1>4, <1>5, <1>6, <1>7, <1>8 DEF Launcher!Next, Launcher!CallerStep

\* A caller comes back from a stop only by StopEnds, which leaves its Chrome dead.
LEMMA LauncherStopLeaves ==
  ASSUME LauncherConstants, LauncherInv, [Launcher!Next]_(Launcher!vars)
  PROVE  Launcher!StopLeaves
<1> USE DEF LauncherConstants, LauncherInv, Launcher!TypeOK, StopsSignalled
<1> SUFFICES ASSUME NEW u \in Launchers, at[u] = "stopping", at'[u] = "idle"
             PROVE  proc'[chrome[u]] = "dead"
  BY DEF Launcher!StopLeaves
<1>1. Launcher!StopEnds(u)
  BY DEF Launcher!Next, Launcher!CallerStep, Launcher!vars, Launcher!Launch, Launcher!Attempt,
     Launcher!GivesUp, Launcher!Relaunch, Launcher!Release, Launcher!StopWaits, Launcher!StopEnds,
     Launcher!ChromeStarts, Launcher!ChromeFails
<1> QED
  BY <1>1 DEF Launcher!StopEnds, Launcher!Forced, Launcher!Alive

\* A stop returns only when its Chrome is gone: the safety half of StopsEndChrome.
THEOREM StopsLeaveChromesDead == Spec => [][part = "launcher" => Launcher!StopLeaves]_vars
<1> USE ServicesAssumption
<1> DEFINE Held == part = "launcher" => LauncherInv
           Leaves == part = "launcher" => Launcher!StopLeaves
<1>1. Init => Held
  BY LauncherInit DEF Init
<1>2. Held /\ [Next]_vars => Held'
  BY LauncherPart, LauncherStep
<1>3. Held /\ [Next]_vars => [Leaves]_vars
  BY LauncherPart, LauncherStopLeaves
<1> HIDE DEF Held, Leaves
<1>4. Spec => [][Leaves]_vars
  BY <1>1, <1>2, <1>3, PTL DEF Spec
<1> QED
  BY <1>4 DEF Leaves

-----------------------------------------------------------------------------
(* Log: the logger *)

\* A line that is being written was logged and not yet appended, a rotation renames
\* only files below the oldest that is kept, and ends with room in the log.
LogCounts ==
  /\ logged \in 0..MaxLogged /\ appended \in Nat /\ backupCount \in 0..MaxBackups
  /\ appended <= logged
  /\ rotating # Log!NoBackup => appended < logged
  /\ rotating \in 1..MaxBackups => rotating < backupCount
  /\ rotating = Log!Writing => Len(files[0]) < LineBudget

\* The flag of a flush that is under way and its callback go together.
FlushPending == flushing = immediate /\ Log!QueueDrains

\* The oldest backup that a rotation keeps.
OldestBackup == IF backupCount > 1 THEN backupCount ELSE 1

\* A rotation is under way.
Rotates == rotating \in 0..MaxBackups

\* The backup whose lines this rotation has just moved on.
Emptied(j) == Rotates /\ j = rotating + 1 /\ j < OldestBackup

\* The number that file j had before this rotation.
Before(j) == IF Rotates /\ j > rotating + 1 THEN j - 1 ELSE j

\* The next newer file that this rotation has not emptied.
Newer(j) == IF Emptied(j - 1) THEN j - 2 ELSE j - 1

\* While no rotation has failed every backup is full and follows its next
\* newer one without a break, so that a line is where its number says; and
\* nothing has been dropped before the oldest backup is there.
Back(j) == LineBudget * j
Positions ==
  \A j \in 0..OldestBackup : \A k \in DOMAIN files[j] :
    files[j][k] = appended - Len(files[0]) - Back(Before(j)) + k
FullBackups == \A j \in 1..OldestBackup : files[j] # <<>> => Len(files[j]) = LineBudget
NewerFilled == \A j \in 2..OldestBackup : files[j] # <<>> => files[Newer(j)] # <<>>
NothingDropped ==
  appended > 0 => /\ rotating # Log!Writing => files[0] # <<>>
                  /\ files[OldestBackup] = <<>> => Log!Held(1)

RotationInv ==
  /\ Rotates => Len(files[0]) >= LineBudget
  /\ \A j \in 1..OldestBackup : Emptied(j) => files[j] = <<>>

CleanInv == Positions /\ FullBackups /\ NewerFilled /\ NothingDropped

FilesInv ==
  /\ Log!InOrder /\ Log!NoGap /\ RotationInv
  /\ clean => CleanInv /\ (alive \/ rotating = Log!NoBackup)

LogInv == Log!TypeOK /\ LogCounts /\ FlushPending

\* A step of the composition is a step of the logger, or not this part.
LEMMA LogPart ==
  [Next]_vars => part' = part /\ (part = "log" => [Log!Next]_(Log!vars))
  BY DEF Next, Rest, vars, OfLog, Log!vars

LEMMA LogInit ==
  ASSUME LogConstants, Log!Init
  PROVE  LogInv
<1>1. level \in Log!Levels
  BY DEF Log!Init, Log!Levels, Log!Effective
<1> QED
  BY <1>1, EmptySeq DEF LogConstants, Log!Init, LogInv, Log!TypeOK, LogCounts, FlushPending, Log!QueueDrains,
     Log!NoBackup

\* The queue keeps its limit: a full one gives up its oldest line.
LEMMA LogPushed ==
  ASSUME LogConstants, Log!TypeOK, NEW l \in Log!Levels
  PROVE  Log!Pushed(l) \in Seq(Log!Levels) /\ Len(Log!Pushed(l)) <= MaxSize
<1> USE DEF LogConstants, Log!TypeOK
<1>1. CASE Len(queue) >= MaxSize
  <2>1. queue # <<>>
    BY <1>1, EmptySeq
  <2>2. Tail(queue) \in Seq(Log!Levels) /\ Len(Tail(queue)) = Len(queue) - 1
    BY <2>1, HeadTailProperties
  <2> QED
    BY <1>1, <2>2, AppendProperties, LenProperties DEF Log!Pushed
<1>2. CASE ~(Len(queue) >= MaxSize)
  BY <1>2, AppendProperties, LenProperties DEF Log!Pushed
<1> QED
  BY <1>1, <1>2

LEMMA LogStep ==
  ASSUME LogConstants, LogInv, [Log!Next]_(Log!vars)
  PROVE  LogInv'
<1> USE DEF LogConstants, LogInv, Log!TypeOK, LogCounts, Log!NoBackup, Log!Writing
<1>1. ASSUME NEW l \in Log!Levels, Log!Log(l)
      PROVE  LogInv'
  <2>1. queue' \in Seq(Log!Levels) /\ Len(queue') <= MaxSize
    BY <1>1, LogPushed DEF Log!Log
  <2>2. flushing' = TRUE /\ immediate' = TRUE
    BY <1>1, Zenon DEF Log!Log, Log!ScheduleFlush, FlushPending
  <2>3. LogCounts'
    BY <1>1 DEF Log!Log
  <2>4. Log!TypeOK'
    BY <1>1, <2>1, <2>2, <2>3 DEF Log!Log
  <2> QED
    BY <2>2, <2>3, <2>4 DEF FlushPending, Log!QueueDrains
<1>2. CASE Log!RenameBackup
  <2>1. /\ rotating \in 0..MaxBackups /\ (rotating = 0 \/ rotating < backupCount)
        /\ rotating' = IF rotating = 0 THEN MaxBackups + 2 ELSE rotating - 1
        /\ UNCHANGED <<level, logged, queue, flushing, immediate, backupCount, appended, alive, clean>>
    BY <1>2 DEF Log!RenameBackup, Log!After
  <2>2. files' = IF files[rotating] = <<>> THEN files
                 ELSE [files EXCEPT ![rotating + 1] = files[rotating], ![rotating] = <<>>]
    BY <1>2 DEF Log!RenameBackup
  <2>3. \A i \in 0..MaxBackups + 1 :
          files'[i] = IF files[rotating] # <<>> /\ i = rotating + 1 THEN files[rotating]
                      ELSE IF i = rotating THEN <<>> ELSE files[i]
    BY <2>1, <2>2
  <2>4. <<>> \in Seq(1..MaxLogged) /\ Len(<<>>) = 0
    BY EmptySeq
  <2>5. \A i \in 0..MaxBackups + 1 : files[i] \in Seq(1..MaxLogged) /\ Len(files[i]) <= LineBudget
    OBVIOUS
  <2>6. ASSUME NEW i \in 0..MaxBackups + 1
        PROVE  files'[i] \in Seq(1..MaxLogged) /\ Len(files'[i]) <= LineBudget
    <3>1. rotating \in 0..MaxBackups + 1
      BY <2>1
    <3>2. files'[i] = files[rotating] \/ files'[i] = <<>> \/ files'[i] = files[i]
      BY <2>3
    <3>3. files[rotating] \in Seq(1..MaxLogged) /\ Len(files[rotating]) <= LineBudget
      BY <3>1, <2>5
    <3>4. CASE files'[i] = files[rotating]
      BY <3>3, <3>4
    <3>5. CASE files'[i] = <<>>
      BY <2>4, <3>5
    <3>6. CASE files'[i] = files[i]
      BY <2>5, <3>6
    <3> QED
      BY <3>2, <3>4, <3>5, <3>6
  <2>7. \A i \in 0..MaxBackups + 1 : i > backupCount /\ i > 1 => files'[i] = <<>>
    BY <2>1, <2>3
  <2>8. files' \in [0..MaxBackups + 1 -> Seq(1..MaxLogged)]
    <3>1. rotating \in 0..MaxBackups + 1 /\ rotating + 1 \in 0..MaxBackups + 1
      BY <2>1
    <3>2. files[rotating] \in Seq(1..MaxLogged)
      BY <3>1, <2>5
    <3>3. CASE files[rotating] = <<>>
      BY <2>2, <3>3
    <3>4. CASE files[rotating] # <<>>
      <4>1. files' = [files EXCEPT ![rotating + 1] = files[rotating], ![rotating] = <<>>]
        BY <2>2, <3>4
      <4> QED
        BY <3>1, <3>2, <4>1, <2>4
    <3> QED
      BY <3>3, <3>4, Zenon
  <2>9. Log!TypeOK'
    <3>1. DOMAIN files' = 0..MaxBackups + 1
      BY <2>8
    <3>2. rotating' \in 0..MaxBackups + 2
      BY <2>1
    <3>3. \A i \in DOMAIN files' : Len(files'[i]) <= LineBudget
      BY <2>6, <3>1
    <3>4. \A i \in DOMAIN files' : i > backupCount' /\ i > 1 => files'[i] = <<>>
      BY <2>1, <2>7, <3>1
    <3> QED
      BY <2>1, <2>8, <3>2, <3>3, <3>4
  <2>10. rotating = 0 => files'[0] = <<>>
    BY <2>3
  <2>11. LogCounts'
    BY <2>1, <2>4, <2>10
  <2> QED
    BY <2>1, <2>9, <2>11 DEF FlushPending, Log!QueueDrains
<1>3. CASE Log!AppendLine
  <2>1. /\ rotating = MaxBackups + 2 /\ appended' = appended + 1 /\ rotating' = MaxBackups + 1
        /\ files' = [files EXCEPT ![0] = Append(files[0], appended + 1)]
        /\ UNCHANGED <<level, logged, queue, flushing, immediate, backupCount, alive, clean>>
    BY <1>3 DEF Log!AppendLine
  <2>2. appended + 1 \in 1..MaxLogged /\ LogCounts'
    BY <2>1
  <2>3. files[0] \in Seq(1..MaxLogged) /\ Len(files[0]) \in Nat /\ Len(files[0]) < LineBudget
    BY <2>1, LenProperties
  <2>4. Append(files[0], appended + 1) \in Seq(1..MaxLogged)
        /\ Len(Append(files[0], appended + 1)) <= LineBudget
    BY <2>2, <2>3, AppendProperties
  <2>5. Log!TypeOK'
    BY <2>1, <2>4
  <2> QED
    BY <2>1, <2>2, <2>5 DEF FlushPending, Log!QueueDrains
<1>4. CASE Log!FileFails
  <2>1. UNCHANGED <<level, logged, queue, flushing, immediate, files, backupCount, appended, alive>>
        /\ rotating' = MaxBackups + 1
    BY <1>4 DEF Log!FileFails
  <2>2. FlushPending'
    BY <2>1, Zenon DEF FlushPending, Log!QueueDrains
  <2>3. Log!TypeOK' /\ LogCounts'
    BY <2>1
  <2> QED
    BY <2>2, <2>3
<1>5. CASE Log!Flush
  <2>1. /\ queue' = <<>> /\ flushing' = FALSE /\ immediate' = FALSE
        /\ UNCHANGED <<level, logged, files, backupCount, appended, rotating, alive>>
    BY <1>5 DEF Log!Flush, Log!FlushingAfter
  <2>2. FlushPending'
    BY <2>1 DEF FlushPending, Log!QueueDrains
  <2>3. queue' \in Seq(Log!Levels) /\ Len(queue') <= MaxSize
    BY <2>1, EmptySeq
  <2>4. LogCounts'
    BY <2>1
  <2>5. flushing' \in BOOLEAN /\ immediate' \in BOOLEAN /\ alive' \in BOOLEAN
    BY <2>1, Zenon
  <2>6. rotating' \in 0..MaxBackups + 2
    BY <2>1
  <2>7. Log!TypeOK'
    BY <2>1, <2>3, <2>5, <2>6
  <2> QED
    BY <2>2, <2>4, <2>7
<1>6. ASSUME NEW k \in 1..MaxSize, Log!FlushFails(k)
      PROVE  LogInv'
  <2>1. queue' = SubSeq(queue, k + 1, Len(queue)) /\ k \in 1..Len(queue) /\ Len(queue) \in Nat
    BY <1>6, LenProperties DEF Log!FlushFails
  <2>2. \A i \in k + 1 .. Len(queue) : queue[i] \in Log!Levels
    BY <2>1, ElementOfSeq
  <2>3. queue' \in Seq(Log!Levels) /\ Len(queue') <= MaxSize
    <3>1. queue \in Seq(Log!Levels) /\ k + 1 \in 1..Len(queue) + 1 /\ Len(queue) <= MaxSize
      BY <2>1
    <3>2. /\ SubSeq(queue, k + 1, Len(queue)) \in Seq(Log!Levels)
          /\ Len(SubSeq(queue, k + 1, Len(queue))) = IF k + 1 <= Len(queue) THEN Len(queue) - (k + 1) + 1 ELSE 0
      BY <2>1, <2>2, <3>1, SubSeqProperties
    <3> QED
      BY <2>1, <3>1, <3>2
  <2>4. flushing' \in BOOLEAN /\ immediate' = flushing' /\ alive' = FALSE
    BY <1>6 DEF Log!FlushFails, Log!FlushingAfter
  <2>5. UNCHANGED <<level, logged, files, backupCount, appended, rotating>>
    BY <1>6 DEF Log!FlushFails
  <2>6. FlushPending'
    BY <2>4, Zenon DEF FlushPending, Log!QueueDrains
  <2>7. LogCounts'
    BY <2>5
  <2>8. Log!TypeOK'
    <3>1. immediate' \in BOOLEAN /\ alive' \in BOOLEAN
      BY <2>4, Zenon
    <3> QED
      BY <2>3, <2>4, <2>5, <3>1
  <2> QED
    BY <2>6, <2>7, <2>8
<1>7. CASE Log!Dies
  <2>1. UNCHANGED <<level, logged, queue, flushing, immediate, files, backupCount, appended, rotating>>
        /\ alive' = FALSE
    BY <1>7 DEF Log!Dies
  <2>2. FlushPending'
    BY <2>1, Zenon DEF FlushPending, Log!QueueDrains
  <2>3. Log!TypeOK' /\ LogCounts'
    BY <2>1
  <2> QED
    BY <2>2, <2>3
<1>8. CASE Log!Restart
  <2>1. /\ queue' = <<>> /\ flushing' = FALSE /\ immediate' = FALSE /\ alive' = TRUE
        /\ rotating' = MaxBackups + 1
        /\ UNCHANGED <<level, logged, files, backupCount, appended>>
    BY <1>8 DEF Log!Restart
  <2>2. FlushPending'
    BY <2>1 DEF FlushPending, Log!QueueDrains
  <2>3. queue' \in Seq(Log!Levels) /\ Len(queue') <= MaxSize
    BY <2>1, EmptySeq
  <2>4. LogCounts'
    BY <2>1
  <2>5. flushing' \in BOOLEAN /\ immediate' \in BOOLEAN /\ alive' \in BOOLEAN
    BY <2>1, Zenon
  <2>6. rotating' \in 0..MaxBackups + 2
    BY <2>1
  <2>7. Log!TypeOK'
    BY <2>1, <2>3, <2>5, <2>6
  <2> QED
    BY <2>2, <2>4, <2>7
<1>9. CASE UNCHANGED Log!vars
  BY <1>9 DEF Log!vars, FlushPending, Log!QueueDrains
<1> QED
  BY <1>1, <1>2, <1>3, <1>4, <1>5, <1>6, <1>7, <1>8, <1>9 DEF Log!Next

\* What the order and the completeness of the lines say of any files f.
Files == [0..MaxBackups + 1 -> Seq(1..MaxLogged)]
Holds(f, n) == \E i \in DOMAIN f : \E k \in DOMAIN f[i] : f[i][k] = n
Ordered(f) ==
  \A i, j \in DOMAIN f : \A k \in DOMAIN f[i], m \in DOMAIN f[j] :
    i > j \/ (i = j /\ k < m) => f[i][k] < f[j][m]
Gapless(f, last) == \A n \in 1..MaxLogged : Holds(f, n) => n <= last /\ \A m \in n..last : Holds(f, m)

\* File r moves to the next number; the next line is appended to the log.
Shifted(f, r) == [f EXCEPT ![r + 1] = f[r], ![r] = <<>>]
Appended(f, n) == [f EXCEPT ![0] = Append(f[0], n)]

\* Moving a file to the next number, over an empty or the oldest one, keeps both.
LEMMA Shifting ==
  ASSUME LogConstants, NEW f \in Files, NEW r \in 0..MaxBackups, NEW last \in Nat,
         Ordered(f), Gapless(f, last),
         f[r + 1] # <<>> => \A i \in r + 2 .. MaxBackups + 1 : f[i] = <<>>
  PROVE  /\ Shifted(f, r) \in Files /\ Ordered(Shifted(f, r)) /\ Gapless(Shifted(f, r), last)
         /\ f[r + 1] = <<>> => \A n : Holds(f, n) => Holds(Shifted(f, r), n)
<1> SUFFICES ASSUME NEW g, g = Shifted(f, r)
             PROVE  /\ g \in Files /\ Ordered(g) /\ Gapless(g, last)
                    /\ f[r + 1] = <<>> => \A n : Holds(f, n) => Holds(g, n)
  OBVIOUS
<1> USE DEF LogConstants
<1> DEFINE N == 0..MaxBackups + 1
           src(i) == IF i = r + 1 THEN r ELSE i
<1>1. /\ DOMAIN f = N /\ DOMAIN g = N /\ r \in N /\ r + 1 \in N
      /\ g[r] = <<>> /\ g[r + 1] = f[r]
      /\ \A i \in N : i # r /\ i # r + 1 => g[i] = f[i]
  BY DEF Files, Shifted
<1>2. \A i \in N : f[i] \in Seq(1..MaxLogged) /\ DOMAIN f[i] = 1..Len(f[i]) /\ Len(f[i]) \in Nat
  BY LenProperties DEF Files
<1>3. <<>> \in Seq(1..MaxLogged) /\ DOMAIN <<>> = {}
  BY EmptySeq
<1>4. g \in Files
  <2>1. \A i \in N : g[i] \in Seq(1..MaxLogged)
    BY <1>1, <1>2, <1>3
  <2> QED
    BY <2>1, <1>1 DEF Files, Shifted
<1>5. ASSUME NEW i \in N, NEW k \in DOMAIN g[i]
      PROVE  i # r /\ src(i) \in N /\ src(i) # r + 1 /\ g[i] = f[src(i)]
  <2>1. i # r
    BY <1>1, <1>3
  <2> QED
    BY <2>1, <1>1
<1>6. Ordered(g)
  <2> SUFFICES ASSUME NEW i \in N, NEW j \in N, NEW k \in DOMAIN g[i], NEW m \in DOMAIN g[j],
                      i > j \/ (i = j /\ k < m)
               PROVE  g[i][k] < g[j][m]
    BY <1>1 DEF Ordered
  <2>1. i # r /\ j # r /\ src(i) \in N /\ src(j) \in N /\ g[i] = f[src(i)] /\ g[j] = f[src(j)]
    BY <1>5
  <2>2. src(i) > src(j) \/ (src(i) = src(j) /\ k < m)
    BY <2>1
  <2> HIDE DEF src
  <2> QED
    BY <2>1, <2>2, <1>1 DEF Ordered
<1>7. ASSUME NEW n, NEW i \in N, NEW k \in DOMAIN f[i], f[i][k] = n, i # r + 1
      PROVE  Holds(g, n)
  <2>1. CASE i = r
    <3>1. k \in DOMAIN g[r + 1] /\ g[r + 1][k] = n
      BY <2>1, <1>7, <1>1
    <3> QED
      BY <3>1, <1>1 DEF Holds
  <2>2. CASE i # r
    <3>1. k \in DOMAIN g[i] /\ g[i][k] = n
      BY <2>2, <1>7, <1>1
    <3> QED
      BY <3>1, <1>1 DEF Holds
  <2> QED
    BY <2>1, <2>2
<1>8. ASSUME f[r + 1] = <<>>, NEW n, Holds(f, n)
      PROVE  Holds(g, n)
  <2>1. PICK i \in N : \E k \in DOMAIN f[i] : f[i][k] = n
    BY <1>8, <1>1 DEF Holds
  <2>2. i # r + 1
    BY <2>1, <1>8, <1>3
  <2> QED
    BY <2>1, <2>2, <1>7
<1>9. ASSUME NEW n \in 1..MaxLogged, Holds(g, n)
      PROVE  n <= last /\ \A m \in n..last : Holds(g, m)
  <2>1. PICK i \in N : \E k \in DOMAIN g[i] : g[i][k] = n
    BY <1>9, <1>1 DEF Holds
  <2>2. PICK k \in DOMAIN g[i] : g[i][k] = n
    BY <2>1
  <2>3. src(i) \in N /\ src(i) # r + 1 /\ k \in DOMAIN f[src(i)] /\ f[src(i)][k] = n
    BY <1>5, <2>2
  <2> HIDE DEF src
  <2>4. Holds(f, n)
    BY <2>3, <1>1 DEF Holds
  <2>5. n <= last /\ \A m \in n..last : Holds(f, m)
    BY <2>4 DEF Gapless
  <2>6. ASSUME NEW m \in n..last
        PROVE  Holds(g, m)
    <3>1. PICK j \in N : \E h \in DOMAIN f[j] : f[j][h] = m
      BY <2>5, <1>1 DEF Holds
    <3>2. PICK h \in DOMAIN f[j] : f[j][h] = m
      BY <3>1
    <3>3. j # r + 1
      <4> SUFFICES ASSUME j = r + 1 PROVE FALSE
        OBVIOUS
      <4>1. f[r + 1] # <<>>
        BY <3>2, <1>3
      <4>2. src(i) < r + 1
        <5>1. ~(src(i) \in r + 2 .. MaxBackups + 1)
          BY <4>1, <2>3, <1>3
        <5> QED
          BY <5>1, <2>3
      <4>3. f[j][h] < f[src(i)][k]
        BY <4>2, <3>2, <2>3, <1>1 DEF Ordered
      <4> QED
        BY <4>3, <3>2, <2>3, <2>6
    <3> QED
      BY <3>2, <3>3, <1>7
  <2> QED
    BY <2>5, <2>6
<1> QED
  BY <1>4, <1>6, <1>8, <1>9 DEF Gapless

\* So does appending the next line to the log.
LEMMA Appending ==
  ASSUME LogConstants, NEW f \in Files, NEW last \in 0..MaxLogged - 1,
         Ordered(f), Gapless(f, last)
  PROVE  /\ Appended(f, last + 1) \in Files
         /\ Ordered(Appended(f, last + 1)) /\ Gapless(Appended(f, last + 1), last + 1)
         /\ \A n : Holds(Appended(f, last + 1), n) <=> Holds(f, n) \/ n = last + 1
<1> SUFFICES ASSUME NEW g, g = [f EXCEPT ![0] = Append(f[0], last + 1)]
             PROVE  /\ g \in Files /\ Ordered(g) /\ Gapless(g, last + 1)
                    /\ \A n : Holds(g, n) <=> Holds(f, n) \/ n = last + 1
  BY DEF Appended
<1> USE DEF LogConstants
<1> DEFINE N == 0..MaxBackups + 1
           len == Len(f[0])
<1>1. /\ DOMAIN f = N /\ DOMAIN g = N /\ 0 \in N /\ g[0] = Append(f[0], last + 1)
      /\ \A i \in N : i # 0 => g[i] = f[i]
      /\ \A i \in N : f[i] \in Seq(1..MaxLogged)
  BY DEF Files
<1>2. last + 1 \in 1..MaxLogged
  OBVIOUS
<1>3. /\ len \in Nat /\ DOMAIN f[0] = 1..len /\ DOMAIN g[0] = 1..len + 1
      /\ g[0][len + 1] = last + 1 /\ \A k \in 1..len : g[0][k] = f[0][k]
      /\ g[0] \in Seq(1..MaxLogged)
  BY <1>1, <1>2, AppendProperties, LenProperties
<1>4. g \in Files
  BY <1>1, <1>3 DEF Files
<1>5. ASSUME NEW i \in N, NEW k \in DOMAIN f[i]
      PROVE  k \in DOMAIN g[i] /\ g[i][k] = f[i][k] /\ f[i][k] \in 1..last
  <2>1. f[i][k] \in 1..MaxLogged
    BY <1>1, ElementOfSeq, LenProperties
  <2>2. Holds(f, f[i][k])
    BY <1>1 DEF Holds
  <2>3. f[i][k] <= last
    BY <2>1, <2>2 DEF Gapless
  <2>4. k \in DOMAIN g[i] /\ g[i][k] = f[i][k]
    BY <1>1, <1>3
  <2> QED
    BY <2>1, <2>3, <2>4
<1>6. ASSUME NEW i \in N, NEW k \in DOMAIN g[i]
      PROVE  (k \in DOMAIN f[i] /\ g[i][k] = f[i][k]) \/ (i = 0 /\ k = len + 1 /\ g[i][k] = last + 1)
  BY <1>1, <1>3
<1>7. Ordered(g)
  <2> SUFFICES ASSUME NEW i \in DOMAIN g, NEW j \in DOMAIN g,
                      NEW k \in DOMAIN g[i], NEW m \in DOMAIN g[j],
                      i > j \/ (i = j /\ k < m)
               PROVE  g[i][k] < g[j][m]
    BY Zenon DEF Ordered
  <2> i \in N /\ j \in N
    BY <1>1
  <2>1. k \in DOMAIN f[i] /\ g[i][k] = f[i][k]
    <3>1. ~(i = 0 /\ k = len + 1)
      <4> SUFFICES ASSUME i = 0, k = len + 1 PROVE FALSE
        OBVIOUS
      <4>1. j = 0 /\ k < m
        OBVIOUS
      <4>2. m \in 1..len + 1
        BY <4>1, <1>3
      <4> QED
        BY <4>1, <4>2, <1>3
    <3> QED
      BY <3>1, <1>6
  <2>2. CASE m \in DOMAIN f[j] /\ g[j][m] = f[j][m]
    BY <2>1, <2>2, <1>1 DEF Ordered
  <2>3. CASE g[j][m] = last + 1
    BY <2>1, <2>3, <1>5
  <2> QED
    BY <2>2, <2>3, <1>6
<1>8. ASSUME NEW n
      PROVE  Holds(g, n) <=> Holds(f, n) \/ n = last + 1
  <2>1. Holds(g, n) => Holds(f, n) \/ n = last + 1
    BY <1>1, <1>6 DEF Holds
  <2>2. Holds(f, n) => Holds(g, n)
    BY <1>1, <1>5 DEF Holds
  <2>3. len + 1 \in DOMAIN g[0]
    BY <1>3
  <2>4. Holds(g, last + 1)
    BY <2>3, <1>1, <1>3 DEF Holds
  <2> QED
    BY <2>1, <2>2, <2>4
<1>9. Gapless(g, last + 1)
  <2> SUFFICES ASSUME NEW n \in 1..MaxLogged, Holds(g, n)
               PROVE  n <= last + 1 /\ \A m \in n..last + 1 : Holds(g, m)
    BY DEF Gapless
  <2>1. CASE n = last + 1
    <3>1. \A m \in n..last + 1 : m = last + 1
      BY <2>1
    <3> QED
      BY <2>1, <3>1, <1>8
  <2>2. CASE Holds(f, n)
    <3>1. n <= last /\ \A m \in n..last : Holds(f, m)
      BY <2>2 DEF Gapless
    <3>2. ASSUME NEW m \in n..last + 1
          PROVE  Holds(g, m)
      <4>1. m \in n..last \/ m = last + 1
        BY <1>2
      <4> QED
        BY <4>1, <3>1, <1>8
    <3>3. n <= last + 1
      BY <3>1, <1>2
    <3> QED
      BY <3>2, <3>3
  <2> QED
    BY <2>1, <2>2, <1>8
<1> QED
  BY <1>4, <1>7, <1>8, <1>9

\* The shape of the files.
FilesShape ==
  /\ files \in Files /\ appended \in 0..MaxLogged /\ MaxLogged \in Nat /\ MaxBackups \in Nat
  /\ LineBudget \in Nat \ {0}
  /\ OldestBackup \in 1..MaxBackups + 1
  /\ \A i \in OldestBackup + 1 .. MaxBackups + 1 : files[i] = <<>>
  /\ \A i \in 0..MaxBackups + 1 :
       /\ DOMAIN files[i] = 1..Len(files[i]) /\ Len(files[i]) \in 0..LineBudget
       /\ files[i] = <<>> <=> Len(files[i]) = 0

LEMMA FilesFacts ==
  ASSUME LogConstants, LogInv
  PROVE  FilesShape
<1> USE DEF LogConstants, LogInv, Log!TypeOK, LogCounts
<1>1. files \in Files
  BY DEF Files
<1>2. appended \in 0..MaxLogged /\ OldestBackup \in 1..MaxBackups + 1
  BY DEF OldestBackup
<1>3. \A i \in OldestBackup + 1 .. MaxBackups + 1 : files[i] = <<>>
  BY DEF OldestBackup
<1>4. ASSUME NEW i \in 0..MaxBackups + 1
      PROVE  /\ DOMAIN files[i] = 1..Len(files[i]) /\ Len(files[i]) \in 0..LineBudget
             /\ files[i] = <<>> <=> Len(files[i]) = 0
  <2>1. files[i] \in Seq(1..MaxLogged) /\ Len(files[i]) <= LineBudget
    OBVIOUS
  <2> QED
    BY <2>1, LenProperties, EmptySeq
<1> QED
  BY <1>1, <1>2, <1>3, <1>4 DEF FilesShape

LEMMA FilesInit ==
  ASSUME LogConstants, Log!Init
  PROVE  FilesInv
<1>1. /\ \A i \in 0..MaxBackups + 1 : files[i] = <<>> /\ DOMAIN files[i] = {}
      /\ DOMAIN files = 0..MaxBackups + 1 /\ Len(<<>>) = 0
      /\ appended = 0 /\ rotating = Log!NoBackup /\ backupCount \in 0..MaxBackups
  BY DEF LogConstants, Log!Init
<1>2. OldestBackup \in 1..MaxBackups + 1 /\ MaxBackups \in Nat
  BY <1>1 DEF LogConstants, OldestBackup
<1>3. Log!InOrder /\ Log!NoGap
  BY <1>1 DEF Log!InOrder, Log!NoGap, Log!Held
<1>4. RotationInv
  BY <1>1, <1>2 DEF RotationInv, Emptied, Rotates, Log!NoBackup
<1>5. CleanInv
  BY <1>1, <1>2 DEF CleanInv, Positions, FullBackups, NewerFilled, NothingDropped
<1> QED
  BY <1>1, <1>3, <1>4, <1>5 DEF FilesInv

\* The definitions of the logger and those of any files.
LEMMA OfFiles ==
  /\ Log!InOrder <=> Ordered(files)
  /\ Log!NoGap <=> Gapless(files, appended)
  /\ \A n : Log!Held(n) <=> Holds(files, n)
  BY DEF Log!InOrder, Ordered, Log!NoGap, Gapless, Log!Held, Holds

LEMMA OfFilesPrimed ==
  /\ Log!InOrder' <=> Ordered(files')
  /\ Log!NoGap' <=> Gapless(files', appended')
  /\ Log!Held(1)' <=> Holds(files', 1)
  BY DEF Log!InOrder, Ordered, Log!NoGap, Gapless, Log!Held, Holds

\* Renaming a backup.
LEMMA FilesRenamed ==
  ASSUME LogConstants, LogInv, FilesInv, Log!RenameBackup, rotating # 0
  PROVE  FilesInv'
<1> DEFINE r == rotating
           M == OldestBackup
           moved == files[r] # <<>>
<1>1. /\ r \in 1..MaxBackups /\ r < backupCount /\ backupCount <= MaxBackups /\ rotating' = r - 1
      /\ UNCHANGED <<backupCount, appended, alive, clean>>
      /\ M = backupCount /\ OldestBackup' = M
  BY DEF LogConstants, LogInv, LogCounts, Log!RenameBackup, Log!After, OldestBackup
<1>2. files' = IF moved THEN [files EXCEPT ![r + 1] = files[r], ![r] = <<>>] ELSE files
  BY DEF Log!RenameBackup
<1> HIDE DEF M
<1> FilesShape
  BY FilesFacts
<1> USE DEF FilesShape
<1> M \in 1..MaxBackups + 1
  BY DEF M
<1>3. Len(files[0]) = LineBudget /\ files'[0] = files[0]
  <2>1. Len(files[0]) >= LineBudget
    BY <1>1 DEF FilesInv, RotationInv, Rotates
  <2>2. Len(files[0]) \in 0..LineBudget
    OBVIOUS
  <2>3. files'[0] = files[0]
    BY <1>1, <1>2 DEF Files
  <2> QED
    BY <2>1, <2>2, <2>3
<1>4. Rotates /\ Rotates'
  BY <1>1 DEF Rotates
<1>5. /\ \A j \in 0..M : Emptied(j) <=> (j = r + 1 /\ j < M)
      /\ \A j \in 0..M : Emptied(j)' <=> j = r
      /\ \A j \in 0..M : Before(j) = IF j > r + 1 THEN j - 1 ELSE j
      /\ \A j \in 0..M : Before(j)' = IF j > r THEN j - 1 ELSE j
  <2>1. \A j \in 0..M : Emptied(j) <=> (j = r + 1 /\ j < M)
    BY <1>1, <1>4 DEF Emptied, M
  <2>2. \A j \in 0..M : Emptied(j)' <=> j = r
    BY <1>1, <1>4 DEF Emptied, M
  <2>3. \A j \in 0..M : Before(j) = IF j > r + 1 THEN j - 1 ELSE j
    BY <1>4 DEF Before
  <2>4. \A j \in 0..M : Before(j)' = IF j > r THEN j - 1 ELSE j
    BY <1>1, <1>4 DEF Before
  <2> QED
    BY <2>1, <2>2, <2>3, <2>4
<1>6. /\ files[r + 1] # <<>> => r + 1 = M
      /\ files[r + 1] # <<>> => \A i \in r + 2 .. MaxBackups + 1 : files[i] = <<>>
  BY <1>1, <1>5 DEF FilesInv, RotationInv, M
<1>7. /\ DOMAIN files' = 0..MaxBackups + 1
      /\ files'[r] = <<>>
      /\ files'[r + 1] = IF moved THEN files[r] ELSE files[r + 1]
      /\ \A i \in 0..MaxBackups + 1 : i # r /\ i # r + 1 => files'[i] = files[i]
  BY <1>1, <1>2 DEF Files
<1>8. Ordered(files) /\ Gapless(files, appended)
  BY OfFiles DEF FilesInv
<1>9. /\ Ordered(files') /\ Gapless(files', appended)
      /\ (~moved \/ files[r + 1] = <<>>) => \A n : Holds(files, n) => Holds(files', n)
  <2>1. CASE moved
    <3>1. r \in 0..MaxBackups /\ appended \in Nat
      BY <1>1
    <3>2. files' = Shifted(files, r)
      BY <2>1, <1>2 DEF Shifted
    <3>3. files[r + 1] # <<>> => \A i \in r + 2 .. MaxBackups + 1 : files[i] = <<>>
      BY <1>6
    <3> QED
      BY <2>1, <3>1, <3>2, <3>3, <1>8, Shifting
  <2>2. CASE ~moved
    BY <2>2, <1>2, <1>8
  <2> QED
    BY <2>1, <2>2
<1>10. Log!InOrder' /\ Log!NoGap'
  BY <1>1, <1>9, OfFilesPrimed
<1>11. RotationInv'
  BY <1>1, <1>3, <1>5, <1>7 DEF RotationInv, M
<1>12. ASSUME clean
       PROVE  CleanInv'
  <2>1. Positions /\ FullBackups /\ NewerFilled /\ NothingDropped
    BY <1>12 DEF FilesInv, CleanInv
  <2>2. ASSUME NEW j \in 2..M, files[j] # <<>>
        PROVE  /\ j = r + 2 => files[r] # <<>>
               /\ j # r + 2 => files[j - 1] # <<>>
    <3>1. M \in Nat /\ j - 1 \in 0..M
      BY DEF M
    <3>2. Emptied(j - 1) <=> j = r + 2
      BY <3>1, <1>1, <1>5
    <3>3. files[Newer(j)] # <<>>
      BY <2>1, <2>2 DEF NewerFilled, M
    <3>4. j - 2 = r <=> j = r + 2
      BY <1>1, <3>1
    <3> QED
      BY <3>2, <3>3, <3>4 DEF Newer
  <2>3. ASSUME ~moved
        PROVE  files[r + 1] = <<>>
    <3> SUFFICES ASSUME files[r + 1] # <<>> PROVE FALSE
      OBVIOUS
    <3>1. r + 1 = M /\ r + 1 \in 2..M /\ r + 1 # r + 2 /\ (r + 1) - 1 = r
      BY <1>1, <1>6
    <3> QED
      BY <3>1, <2>2, <2>3
  <2>4. Positions'
    <3> SUFFICES ASSUME NEW j \in 0..M, NEW k \in DOMAIN files'[j]
                 PROVE  files'[j][k] = appended - Len(files[0]) - Back(Before(j)') + k
      BY <1>1, <1>3 DEF Positions, M
    <3>1. M \in Nat /\ j \in 0..MaxBackups + 1 /\ j \in 0..M /\ DOMAIN <<>> = {} /\ r \in 0..M
      BY <1>1 DEF M
    <3>2. j # r
      BY <3>1, <1>7
    <3>3. CASE j = r + 1
      <4>1. files'[j] = files[r] /\ moved
        BY <3>1, <3>3, <1>7, <2>3
      <4>2. Before(j)' = r /\ Before(r) = r
        BY <3>1, <3>3, <1>1, <1>5
      <4> QED
        BY <3>1, <4>1, <4>2, <2>1 DEF Positions, M
    <3>4. CASE j # r + 1
      <4>1. files'[j] = files[j]
        BY <3>1, <3>2, <3>4, <1>7
      <4>2. Before(j)' = Before(j)
        BY <3>1, <3>2, <3>4, <1>1, <1>5
      <4> QED
        BY <3>1, <4>1, <4>2, <2>1 DEF Positions, M
    <3> QED
      BY <3>3, <3>4
  <2>5. FullBackups'
    <3> SUFFICES ASSUME NEW j \in 1..M, files'[j] # <<>>
                 PROVE  Len(files'[j]) = LineBudget
      BY <1>1 DEF FullBackups, M
    <3>1. CASE j = r + 1
      BY <3>1, <1>1, <1>7, <2>1, <2>3 DEF FullBackups, M
    <3>2. CASE j # r + 1
      <4>1. files'[j] = files[j]
        BY <3>2, <1>7
      <4> QED
        BY <4>1, <2>1 DEF FullBackups, M
    <3> QED
      BY <3>1, <3>2
  <2>6. NewerFilled'
    <3>1. ASSUME NEW j \in 2..M
          PROVE  Newer(j)' = IF j = r + 1 THEN r - 1 ELSE j - 1
      <4>1. M \in Nat /\ j - 1 \in 0..M
        BY DEF M
      <4>2. Emptied(j - 1)' <=> j - 1 = r
        BY <4>1, <1>5
      <4> QED
        BY <4>1, <4>2, <1>1 DEF Newer
    <3>2. ASSUME NEW j \in 2..M, files'[j] # <<>>
          PROVE  /\ j = r + 1 => files'[r - 1] # <<>>
                 /\ j # r + 1 => files'[j - 1] # <<>>
      <4>1. CASE j = r + 1
        <5>1. moved
          BY <4>1, <3>2, <1>7, <2>3
        <5>2. CASE r = 1
          BY <5>2, <4>1, <1>3
        <5>3. CASE r # 1
          <6>1. r \in 2..M /\ r # r + 2 /\ r - 1 \in 0..MaxBackups + 1 /\ r - 1 # r /\ r - 1 # r + 1
            BY <5>3, <1>1
          <6>2. files[r - 1] # <<>>
            BY <5>1, <6>1, <2>2
          <6> QED
            BY <4>1, <6>1, <6>2, <1>7
        <5> QED
          BY <5>2, <5>3
      <4>2. CASE j = r + 2
        <5>1. moved
          <6>1. r + 2 \in 0..MaxBackups + 1 /\ r + 2 # r /\ r + 2 # r + 1
            BY <4>2, <1>1
          <6>2. files[j] # <<>>
            BY <4>2, <6>1, <3>2, <1>7
          <6> QED
            BY <4>2, <6>2, <2>2
        <5> QED
          BY <4>2, <5>1, <1>1, <1>7
      <4>3. CASE j # r + 1 /\ j # r + 2
        <5>1. M \in Nat /\ j \in 0..MaxBackups + 1 /\ j - 1 \in 0..MaxBackups + 1
          BY DEF M
        <5>2. j # r /\ files'[j] = files[j]
          BY <4>3, <3>2, <5>1, <1>7
        <5>3. files'[j - 1] = files[j - 1]
          BY <4>3, <5>1, <5>2, <1>1, <1>7
        <5> QED
          BY <4>3, <5>2, <5>3, <3>2, <2>2
      <4> QED
        BY <4>1, <4>2, <4>3
    <3> QED
      BY <3>1, <3>2, <1>1 DEF NewerFilled, M
  <2>7. NothingDropped'
    <3> SUFFICES ASSUME appended > 0
                 PROVE  files'[0] # <<>> /\ (files'[M] = <<>> => Log!Held(1)')
      BY <1>1 DEF NothingDropped, M
    <3>1. files'[0] # <<>>
      BY <1>3
    <3>2. ASSUME files'[M] = <<>>
          PROVE  Log!Held(1)'
      <4>1. files[M] = <<>> /\ (~moved \/ files[r + 1] = <<>>)
        <5>1. M \in 0..MaxBackups + 1 /\ M # r
          BY <1>1
        <5>2. CASE M = r + 1
          BY <5>2, <3>2, <1>7, <2>3
        <5>3. CASE M # r + 1
          BY <5>1, <5>3, <3>2, <1>6, <1>7
        <5> QED
          BY <5>2, <5>3
      <4>2. Holds(files, 1)
        BY <4>1, <2>1, OfFiles DEF NothingDropped, M
      <4> QED
        BY <4>1, <4>2, <1>9, OfFilesPrimed
    <3> QED
      BY <3>1, <3>2
  <2> QED
    BY <2>4, <2>5, <2>6, <2>7 DEF CleanInv
<1>13. alive /\ alive'
  BY <1>1 DEF Log!RenameBackup
<1> QED
  BY <1>1, <1>10, <1>11, <1>12, <1>13 DEF FilesInv

\* Renaming the log itself, the last of a rotation.
LEMMA FilesMoved ==
  ASSUME LogConstants, LogInv, FilesInv, Log!RenameBackup, rotating = 0
  PROVE  FilesInv'
<1> DEFINE M == OldestBackup
<1> FilesShape
  BY FilesFacts
<1> M \in 1..MaxBackups + 1
  BY DEF FilesShape
<1>1. /\ rotating' = Log!Writing /\ alive /\ alive' = alive
      /\ UNCHANGED <<backupCount, appended, clean>> /\ OldestBackup' = M
  BY DEF Log!RenameBackup, Log!After, OldestBackup
<1>2. Rotates /\ Len(files[0]) = LineBudget /\ files[0] # <<>>
  BY DEF FilesShape, FilesInv, RotationInv, Rotates
<1>3. files' = [files EXCEPT ![1] = files[0], ![0] = <<>>]
  BY <1>2 DEF Log!RenameBackup
<1> HIDE DEF M
<1>4. /\ DOMAIN files' = 0..MaxBackups + 1 /\ files'[0] = <<>> /\ files'[1] = files[0]
      /\ \A i \in 2..MaxBackups + 1 : files'[i] = files[i]
  BY <1>3 DEF FilesShape, Files
<1>5. files[1] # <<>> => M = 1 /\ \A i \in 2..MaxBackups + 1 : files[i] = <<>>
  <2>1. 1 < M => files[1] = <<>>
    BY <1>2 DEF FilesInv, RotationInv, Emptied, M
  <2> QED
    BY <2>1 DEF FilesShape, M
<1>6. /\ Ordered(files') /\ Gapless(files', appended)
      /\ files[1] = <<>> => \A n : Holds(files, n) => Holds(files', n)
  <2>1. 0 \in 0..MaxBackups /\ appended \in Nat /\ 0 + 1 = 1 /\ 0 + 2 = 2
    BY DEF FilesShape
  <2>2. Ordered(files) /\ Gapless(files, appended)
    BY OfFiles DEF FilesInv
  <2>3. files' = Shifted(files, 0)
    BY <2>1, <1>3 DEF Shifted
  <2> QED
    BY <2>1, <2>2, <2>3, <1>5, Shifting DEF FilesShape
<1>7. Log!InOrder' /\ Log!NoGap'
  BY <1>1, <1>6, OfFilesPrimed
<1>8. ~Rotates' /\ \A j : ~Emptied(j)' /\ Before(j)' = j /\ Newer(j)' = j - 1
  BY <1>1 DEF Rotates, Emptied, Before, Newer, Log!Writing, FilesShape
<1>9. RotationInv'
  BY <1>8 DEF RotationInv
<1>10. ASSUME clean
       PROVE  CleanInv'
  <2>1. Positions /\ FullBackups /\ NewerFilled /\ NothingDropped
    BY <1>10 DEF FilesInv, CleanInv
  <2>2. Before(0) = 0 /\ \A j \in 2..M : Before(j) = j - 1
    BY <1>2 DEF Before, FilesShape
  <2>3. \A j \in 3..M : Newer(j) = j - 1
    BY DEF Newer, Emptied, FilesShape
  <2>4. Positions'
    <3>1. /\ Back(0) = 0 /\ Back(1) = LineBudget
          /\ \A j \in 0..M : Back(j) \in Int
          /\ \A j \in 2..M : Back(j - 1) = Back(j) - LineBudget
      BY DEF FilesShape, Back
    <3> SUFFICES ASSUME NEW j \in 0..M, NEW k \in DOMAIN files'[j]
                 PROVE  files'[j][k] = appended - Len(files'[0]) - Back(j) + k
      <4>1. ASSUME NEW j \in 0..M, NEW k \in DOMAIN files'[j],
                   files'[j][k] = appended - Len(files'[0]) - Back(j) + k
            PROVE  files'[j][k] = appended' - Len(files'[0]) - Back(Before(j)') + k
        <5>1. appended' = appended /\ Before(j)' = j
          BY <1>1, <1>8
        <5> QED
          BY <4>1, <5>1
      <4> QED
        BY <4>1, <1>1 DEF Positions, M
    <3>2. /\ LineBudget \in Nat /\ appended \in Nat /\ Len(files'[0]) = 0 /\ M \in Nat
          /\ j \in 0..MaxBackups + 1 /\ DOMAIN files[j] = 1..Len(files[j]) /\ Len(files[j]) \in Nat
      BY <1>4, EmptySeq DEF FilesShape
    <3>3. j # 0
      BY <1>4, <3>2
    <3>4. CASE j = 1
      <4>1. files'[j] = files[0] /\ k \in 1..LineBudget
        BY <3>4, <1>2, <1>4 DEF FilesShape
      <4>2. files[0][k] = appended - LineBudget - Back(0) + k
        BY <4>1, <1>2, <2>1, <2>2 DEF Positions, M, FilesShape
      <4> QED
        BY <3>1, <3>2, <3>4, <4>1, <4>2
    <3>5. CASE j \in 2..M
      <4>1. files'[j] = files[j] /\ k \in Nat
        BY <3>2, <3>5, <1>4 DEF FilesShape
      <4>2. files[j][k] = appended - LineBudget - Back(j - 1) + k
        BY <3>5, <4>1, <1>2, <2>1, <2>2 DEF Positions, M
      <4>3. Back(j - 1) = Back(j) - LineBudget /\ Back(j) \in Int
        BY <3>1, <3>5
      <4> QED
        BY <3>2, <4>1, <4>2, <4>3
    <3> QED
      BY <3>2, <3>3, <3>4, <3>5
  <2>5. FullBackups'
    <3> SUFFICES ASSUME NEW j \in 1..M, files'[j] # <<>>
                 PROVE  Len(files'[j]) = LineBudget
      BY <1>1 DEF FullBackups, M
    <3>1. CASE j = 1
      BY <3>1, <1>2, <1>4
    <3>2. CASE j # 1
      BY <3>2, <1>4, <2>1 DEF FullBackups, M, FilesShape
    <3> QED
      BY <3>1, <3>2
  <2>6. NewerFilled'
    <3> SUFFICES ASSUME NEW j \in 2..M, files'[j] # <<>>
                 PROVE  files'[j - 1] # <<>>
      BY <1>1, <1>8 DEF NewerFilled, M
    <3>1. CASE j = 2
      BY <3>1, <1>2, <1>4
    <3>2. CASE j # 2
      BY <3>2, <1>4, <2>1, <2>3 DEF NewerFilled, M, FilesShape
    <3> QED
      BY <3>1, <3>2
  <2>7. NothingDropped'
    <3> SUFFICES ASSUME appended > 0, files'[M] = <<>>
                 PROVE  Holds(files', 1)
      BY <1>1, OfFilesPrimed DEF NothingDropped, M
    <3>1. M # 1
      BY <1>2, <1>4
    <3>2. files[M] = <<>> /\ files[1] = <<>>
      BY <3>1, <1>4, <1>5 DEF FilesShape
    <3> QED
      BY <3>2, <2>1, <1>6, OfFiles DEF NothingDropped, M
  <2> QED
    BY <2>4, <2>5, <2>6, <2>7 DEF CleanInv
<1> QED
  BY <1>1, <1>7, <1>9, <1>10 DEF FilesInv

\* Appending the line.
LEMMA FilesAppended ==
  ASSUME LogConstants, LogInv, FilesInv, Log!AppendLine
  PROVE  FilesInv'
<1> DEFINE M == OldestBackup
<1> FilesShape
  BY FilesFacts
<1> M \in 1..MaxBackups + 1
  BY DEF FilesShape
<1>1. /\ rotating = Log!Writing /\ rotating' = Log!NoBackup /\ appended' = appended + 1
      /\ UNCHANGED <<backupCount, alive, clean>> /\ alive
      /\ OldestBackup' = M /\ appended \in 0..MaxLogged - 1
  BY DEF LogConstants, LogInv, LogCounts, Log!NoBackup, Log!Writing, Log!AppendLine, OldestBackup
<1>2. files' = [files EXCEPT ![0] = Append(files[0], appended + 1)]
  BY DEF Log!AppendLine
<1> HIDE DEF M
<1>3. /\ DOMAIN files' = 0..MaxBackups + 1 /\ files'[0] = Append(files[0], appended + 1)
      /\ \A i \in 1..MaxBackups + 1 : files'[i] = files[i]
  BY <1>2 DEF FilesShape, Files
<1>4. /\ Ordered(files') /\ Gapless(files', appended + 1) /\ Holds(files', appended + 1)
      /\ \A n : Holds(files, n) => Holds(files', n)
  <2>1. files' = Appended(files, appended + 1)
    BY <1>2 DEF Appended
  <2>2. Ordered(files) /\ Gapless(files, appended)
    BY OfFiles DEF FilesInv
  <2> QED
    BY <2>1, <2>2, <1>1, Appending DEF FilesShape
<1>5. Log!InOrder' /\ Log!NoGap'
  BY <1>1, <1>4, OfFilesPrimed
<1>6. /\ ~Rotates /\ \A j : ~Emptied(j) /\ Before(j) = j /\ Newer(j) = j - 1
      /\ ~Rotates' /\ \A j : ~Emptied(j)' /\ Before(j)' = j /\ Newer(j)' = j - 1
  BY <1>1 DEF Rotates, Emptied, Before, Newer, Log!Writing, Log!NoBackup, FilesShape
<1>7. RotationInv'
  BY <1>6 DEF RotationInv
<1>8. /\ files[0] \in Seq(1..MaxLogged) /\ appended + 1 \in 1..MaxLogged /\ Len(files[0]) \in Nat
      /\ files'[0] # <<>> /\ Len(files'[0]) = Len(files[0]) + 1
      /\ DOMAIN files[0] = 1..Len(files[0]) /\ DOMAIN files'[0] = 1..Len(files[0]) + 1
      /\ files'[0][Len(files[0]) + 1] = appended + 1
      /\ \A k \in 1..Len(files[0]) : files'[0][k] = files[0][k]
  <2>1. files[0] \in Seq(1..MaxLogged) /\ appended + 1 \in 1..MaxLogged
    BY <1>1 DEF FilesShape, Files
  <2> QED
    BY <2>1, <1>3, AppendProperties, LenProperties
<1>9. ASSUME clean
      PROVE  CleanInv'
  <2>1. Positions /\ FullBackups /\ NewerFilled /\ NothingDropped
    BY <1>9 DEF FilesInv, CleanInv
  <2>2. Positions'
    <3>1. Back(0) = 0 /\ \A j \in 0..M : Back(j) \in Int
      BY DEF FilesShape, Back
    <3> SUFFICES ASSUME NEW j \in 0..M, NEW k \in DOMAIN files'[j]
                 PROVE  files'[j][k] = appended - Len(files[0]) - Back(j) + k
      <4>1. ASSUME NEW j \in 0..M, NEW k \in DOMAIN files'[j],
                   files'[j][k] = appended - Len(files[0]) - Back(j) + k
            PROVE  files'[j][k] = appended' - Len(files'[0]) - Back(Before(j)') + k
        <5>1. appended' = appended + 1 /\ Len(files'[0]) = Len(files[0]) + 1 /\ Before(j)' = j
          BY <1>1, <1>6, <1>8
        <5>2. appended' - Len(files'[0]) = appended - Len(files[0])
          BY <5>1, <1>8 DEF FilesShape
        <5> QED
          BY <4>1, <5>1, <5>2, Zenon
      <4> QED
        BY <4>1, <1>1 DEF Positions, M
    <3>2. \A i \in 0..M : \A h \in DOMAIN files[i] :
            files[i][h] = appended - Len(files[0]) - Back(i) + h
      BY <2>1, <1>6 DEF Positions, M
    <3>3. CASE j = 0 /\ k = Len(files[0]) + 1
      <4>1. files'[j][k] = appended + 1 /\ appended \in Nat
        BY <3>3, <1>8 DEF FilesShape
      <4> QED
        BY <3>1, <3>3, <4>1, <1>8
    <3>4. CASE j = 0 /\ k # Len(files[0]) + 1
      <4>1. k \in DOMAIN files[0] /\ files'[j][k] = files[0][k]
        BY <3>4, <1>8
      <4> QED
        BY <3>2, <3>4, <4>1
    <3>5. CASE j # 0
      BY <3>2, <3>5, <1>3 DEF FilesShape
    <3> QED
      BY <3>3, <3>4, <3>5
  <2>3. FullBackups' /\ NewerFilled'
    <3>1. FullBackups'
      BY <1>1, <1>3, <2>1 DEF FullBackups, FilesShape, M
    <3>2. ASSUME NEW j \in 2..M, files'[j] # <<>>
          PROVE  files'[j - 1] # <<>>
      <4>1. files'[j] = files[j] /\ files'[j - 1] = files[j - 1] /\ Newer(j) = j - 1
        BY <1>3, <1>6 DEF FilesShape, M
      <4> QED
        BY <3>2, <4>1, <2>1 DEF NewerFilled, M
    <3> QED
      BY <3>1, <3>2, <1>1, <1>6 DEF NewerFilled, M
  <2>4. NothingDropped'
    <3> SUFFICES ASSUME files'[M] = <<>>
                 PROVE  Holds(files', 1)
      BY <1>1, <1>8, OfFilesPrimed DEF NothingDropped, M
    <3>1. CASE appended = 0
      BY <3>1, <1>4
    <3>2. CASE appended # 0
      <4>1. appended > 0 /\ files[M] = <<>>
        BY <3>2, <1>3 DEF FilesShape
      <4> QED
        BY <4>1, <2>1, <1>4, OfFiles DEF NothingDropped, M
    <3> QED
      BY <3>1, <3>2
  <2> QED
    BY <2>2, <2>3, <2>4 DEF CleanInv
<1> QED
  BY <1>1, <1>5, <1>7, <1>9 DEF FilesInv

LEMMA FilesStep ==
  ASSUME LogConstants, LogInv, FilesInv, [Log!Next]_(Log!vars)
  PROVE  FilesInv'
<1> FilesShape
  BY FilesFacts
<1>1. ASSUME UNCHANGED <<files, appended>>
      PROVE  Log!InOrder' /\ Log!NoGap'
  BY <1>1, OfFiles, OfFilesPrimed DEF FilesInv
<1>2. ASSUME UNCHANGED <<files, appended, backupCount, rotating>>, clean,
             \A j \in 1..OldestBackup : (Emptied(j)' <=> Emptied(j)) /\ Before(j)' = Before(j),
             Before(0)' = Before(0)
      PROVE  CleanInv'
  <2>1. Positions /\ FullBackups /\ NewerFilled /\ NothingDropped
    BY <1>2 DEF FilesInv, CleanInv
  <2>2. OldestBackup' = OldestBackup /\ OldestBackup \in Nat
    BY <1>2 DEF OldestBackup, FilesShape
  <2>3. \A j \in 0..OldestBackup : Before(j)' = Before(j)
    BY <1>2, <2>2
  <2>4. Positions'
    BY <1>2, <2>1, <2>2, <2>3 DEF Positions
  <2>5. \A j \in 2..OldestBackup : Newer(j)' = Newer(j)
    <3> SUFFICES ASSUME NEW j \in 2..OldestBackup
                 PROVE  Newer(j)' = Newer(j)
      OBVIOUS
    <3>1. j - 1 \in 1..OldestBackup
      BY <2>2
    <3> QED
      BY <3>1, <1>2 DEF Newer
  <2>6. NewerFilled'
    BY <1>2, <2>1, <2>2, <2>5 DEF NewerFilled
  <2>7. FullBackups'
    BY <1>2, <2>1, <2>2 DEF FullBackups
  <2>8. NothingDropped'
    BY <1>2, <2>1, <2>2, OfFiles, OfFilesPrimed DEF NothingDropped
  <2> QED
    BY <2>4, <2>6, <2>7, <2>8 DEF CleanInv
<1>3. ASSUME UNCHANGED <<files, appended, backupCount, rotating, clean>>,
             alive' \/ rotating = Log!NoBackup \/ alive' = alive
      PROVE  FilesInv'
  <2>1. /\ Rotates' <=> Rotates
        /\ \A j : (Emptied(j)' <=> Emptied(j)) /\ Before(j)' = Before(j)
        /\ OldestBackup' = OldestBackup
    BY <1>3 DEF Rotates, Emptied, Before, OldestBackup
  <2>2. RotationInv'
    BY <1>3, <2>1 DEF FilesInv, RotationInv
  <2>3. clean => CleanInv'
    BY <1>2, <1>3, <2>1
  <2>4. clean' => alive' \/ rotating' = Log!NoBackup
    BY <1>3, Zenon DEF FilesInv
  <2> QED
    BY <1>1, <1>3, <2>2, <2>3, <2>4 DEF FilesInv
<1>4. ASSUME rotating' = Log!NoBackup
      PROVE  RotationInv'
  BY <1>4 DEF RotationInv, Emptied, Rotates, Log!NoBackup, FilesShape
<1>5. ASSUME NEW l \in Log!Levels, Log!Log(l)
      PROVE  FilesInv'
  <2>1. /\ alive /\ rotating = Log!NoBackup
        /\ UNCHANGED <<files, backupCount, appended, alive, clean>>
        /\ rotating' = IF Len(files[0]) < LineBudget THEN Log!Writing
                       ELSE IF backupCount > 1 THEN backupCount - 1 ELSE 0
    BY <1>5 DEF Log!Log
  <2>2. /\ Len(files[0]) \in 0..LineBudget /\ LineBudget \in Nat \ {0} /\ MaxBackups \in Nat
        /\ backupCount \in 0..MaxBackups /\ OldestBackup' = OldestBackup /\ OldestBackup \in Nat
    BY <2>1 DEF FilesShape, LogInv, LogCounts, OldestBackup
  <2>3. /\ ~Rotates
        /\ Rotates' => rotating' + 1 = OldestBackup /\ Len(files[0]) >= LineBudget
        /\ rotating # Log!Writing
    BY <2>1, <2>2 DEF Rotates, OldestBackup, Log!NoBackup, Log!Writing
  <2>4. \A j \in 0..OldestBackup : ~Emptied(j)' /\ ~Emptied(j) /\ Before(j)' = j /\ Before(j) = j
    BY <2>2, <2>3 DEF Emptied, Before
  <2>5. RotationInv'
    BY <2>1, <2>2, <2>3, <2>4 DEF RotationInv
  <2>6. ASSUME clean
        PROVE  CleanInv'
    <3>1. Positions /\ FullBackups /\ NewerFilled /\ NothingDropped
      BY <2>6 DEF FilesInv, CleanInv
    <3>2. Positions'
      BY <2>1, <2>2, <2>4, <3>1 DEF Positions
    <3>3. \A j \in 2..OldestBackup : Newer(j)' = Newer(j)
      <4> SUFFICES ASSUME NEW j \in 2..OldestBackup
                   PROVE  Newer(j)' = Newer(j)
        OBVIOUS
      <4>1. j - 1 \in 0..OldestBackup
        BY <2>2
      <4> QED
        BY <4>1, <2>4 DEF Newer
    <3>4. NewerFilled' /\ FullBackups'
      BY <2>1, <2>2, <3>1, <3>3 DEF NewerFilled, FullBackups
    <3>5. NothingDropped'
      BY <2>1, <2>2, <2>3, <3>1, OfFiles, OfFilesPrimed DEF NothingDropped
    <3> QED
      BY <3>2, <3>4, <3>5 DEF CleanInv
  <2> QED
    BY <1>1, <2>1, <2>5, <2>6 DEF FilesInv
<1>6. CASE Log!RenameBackup
  BY <1>6, FilesRenamed, FilesMoved
<1>7. CASE Log!AppendLine
  BY <1>7, FilesAppended
<1>8. CASE Log!FileFails
  <2>1. UNCHANGED <<files, appended>> /\ rotating' = Log!NoBackup /\ clean' = FALSE
    BY <1>8 DEF Log!FileFails
  <2> QED
    BY <2>1, <1>1, <1>4 DEF FilesInv
<1>9. CASE Log!Flush
  BY <1>3, <1>9 DEF Log!Flush
<1>10. ASSUME NEW k \in 1..MaxSize, Log!FlushFails(k)
       PROVE  FilesInv'
  BY <1>3, <1>10 DEF Log!FlushFails
<1>11. CASE Log!Dies
  <2>1. /\ UNCHANGED <<files, appended, backupCount, rotating>>
        /\ clean' = (clean /\ rotating = Log!NoBackup)
    BY <1>11 DEF Log!Dies
  <2>2. CASE rotating = Log!NoBackup
    <3>1. RotationInv' /\ Log!InOrder' /\ Log!NoGap'
      BY <1>1, <1>4, <2>1, <2>2
    <3>2. /\ Rotates' <=> Rotates
          /\ \A j : (Emptied(j)' <=> Emptied(j)) /\ Before(j)' = Before(j)
      BY <2>1 DEF Rotates, Emptied, Before, OldestBackup
    <3>3. clean => CleanInv'
      BY <1>2, <2>1, <3>2
    <3> QED
      BY <2>1, <2>2, <3>1, <3>3 DEF FilesInv
  <2>3. CASE rotating # Log!NoBackup
    <3>1. RotationInv'
      BY <2>1 DEF FilesInv, RotationInv, Emptied, Rotates, OldestBackup
    <3> QED
      BY <2>1, <2>3, <3>1, <1>1 DEF FilesInv
  <2> QED
    BY <2>2, <2>3
<1>12. CASE Log!Restart
  <2>1. /\ ~alive /\ rotating' = Log!NoBackup
        /\ UNCHANGED <<files, appended, backupCount, clean>>
    BY <1>12 DEF Log!Restart
  <2>2. RotationInv' /\ Log!InOrder' /\ Log!NoGap'
    BY <1>1, <1>4, <2>1
  <2>3. ASSUME clean
        PROVE  CleanInv'
    <3>1. rotating = Log!NoBackup
      BY <2>1, <2>3 DEF FilesInv
    <3>2. /\ Rotates' <=> Rotates
          /\ \A j : (Emptied(j)' <=> Emptied(j)) /\ Before(j)' = Before(j)
      BY <2>1, <3>1 DEF Rotates, Emptied, Before, OldestBackup
    <3> QED
      BY <1>2, <2>1, <2>3, <3>1, <3>2
  <2> QED
    BY <2>1, <2>2, <2>3 DEF FilesInv
<1>13. CASE UNCHANGED Log!vars
  BY <1>3, <1>13 DEF Log!vars
<1> QED
  BY <1>5, <1>6, <1>7, <1>8, <1>9, <1>10, <1>11, <1>12, <1>13 DEF Log!Next

\* What the files hold is what is promised of them.
LEMMA FilesHold ==
  ASSUME LogConstants, LogInv, FilesInv
  PROVE  Log!FilesHoldNewest
<1> FilesShape
  BY FilesFacts
<1> DEFINE M == OldestBackup
<1>1. ASSUME clean, rotating = Log!NoBackup, NEW n \in 1..appended, appended < n + Log!Room
      PROVE  Log!Held(n)
  <2>1. Positions /\ NothingDropped /\ FullBackups
    BY <1>1 DEF FilesInv, CleanInv
  <2>2. /\ appended \in Nat \ {0} /\ n \in Nat /\ appended <= MaxLogged /\ MaxLogged \in Nat
        /\ M \in Nat \ {0} /\ M \in 0..MaxBackups + 1 /\ LineBudget \in Nat \ {0}
    BY DEF FilesShape
  <2>3. Back(M) \in Int /\ Log!Room = Back(M) + 1
    BY <2>2 DEF Back, Log!Room, OldestBackup
  <2>4. ASSUME NEW m \in 1..n, Log!Held(m)
        PROVE  Log!Held(n)
    BY <2>2, <2>4 DEF FilesInv, Log!NoGap
  <2>5. CASE files[M] = <<>>
    BY <2>1, <2>2, <2>4, <2>5 DEF NothingDropped
  <2>6. CASE files[M] # <<>>
    <3>1. 1 \in DOMAIN files[M] /\ Before(M) = M
      BY <2>2, <2>6, <1>1 DEF FilesShape, Before, Rotates, Log!NoBackup
    <3>2. files[M][1] = appended - Len(files[0]) - Back(M) + 1
      BY <2>2, <3>1, <2>1 DEF Positions
    <3>3. Len(files[0]) >= 1 /\ Len(files[0]) \in Nat
      BY <2>1, <2>2, <1>1 DEF NothingDropped, FilesShape, Log!NoBackup, Log!Writing
    <3>4. files[M][1] \in 1..MaxLogged
      BY <2>2, <3>1, ElementOfSeq DEF FilesShape, Files
    <3>5. files[M][1] \in 1..n
      BY <3>2, <3>3, <3>4, <2>2, <2>3, <1>1
    <3>6. Log!Held(files[M][1])
      BY <2>2, <3>1, OfFiles DEF Holds, FilesShape, Files
    <3> QED
      BY <3>5, <3>6, <2>4
  <2> QED
    BY <2>5, <2>6
<1> QED
  BY <1>1 DEF FilesInv, Log!FilesHoldNewest

\* The log and its backups hold the newest lines in order and without a gap,
\* also after a rotation that failed or died half way, and no line that waits
\* is left without a flush.
THEOREM LogKeepsTheNewest == Spec => []LogKeepsNewest
<1> USE ServicesAssumption
<1> DEFINE Held == part = "log" => LogInv /\ FilesInv
<1>1. Init => Held
  BY LogInit, FilesInit DEF Init
<1>2. Held /\ [Next]_vars => Held'
  BY LogPart, LogStep, FilesStep
<1>3. Held => LogKeepsNewest
  BY FilesHold DEF LogKeepsNewest, LogInv, FlushPending
<1> HIDE DEF Held
<1> QED
  BY <1>1, <1>2, <1>3, PTL DEF Spec

-----------------------------------------------------------------------------
(* The composition *)

\* The state of every part is well typed.
THEOREM ServicesTypes == Spec => []TypeOK
<1> USE ServicesAssumption
<1> DEFINE Held == /\ part = "memory" => MemoryInv
                   /\ part = "connections" => ConnectionsInv
                   /\ part = "act" => ActInv
                   /\ part = "roles" => RolesInv
                   /\ part = "live" => LiveInv
                   /\ part = "tokens" => TokensInv
                   /\ part = "log" => LogInv
                   /\ part = "start" => StartInv
                   /\ part = "settings" => SettingsInv
                   /\ part = "launcher" => LauncherInv
                   /\ part = "relay" => RelayInv
<1>1. Init => Held
  BY MemoryInit, ConnectionsInit, ActInit, RolesInit, LiveInit, TokensInit, LogInit, StartInit,
     SettingsInit, LauncherInit, RelayInit DEF Init
<1>2. Held /\ [Next]_vars => Held'
  BY MemoryPart, ConnectionsPart, ActPart, RolesPart, LivePart, TokensPart, LogPart, StartPart,
     SettingsPart, LauncherPart, RelayPart, MemoryStep, ConnectionsStep, ActStep, RolesStep,
     LiveStep, TokensStep, LogStep, StartStep, SettingsStep, LauncherStep, RelayStep
<1>3. Held => TypeOK
  BY DEF TypeOK, MemoryInv, ConnectionsInv, ActInv, RolesInv, LiveInv, TokensInv, LogInv, StartInv,
     SettingsInv, LauncherInv, RelayInv
<1> HIDE DEF Held
<1> QED
  BY <1>1, <1>2, <1>3, PTL DEF Spec

=============================================================================
