------------------------- MODULE PersistenceProofs --------------------------
(***************************************************************************)
(* What is proved of the client's state that outlives a start: the         *)
(* settings with the dialog that edits them, and the routes, rules and     *)
(* name servers of the system.                                             *)
(***************************************************************************)
EXTENDS Settings, Routes, SequenceTheorems, TLAPS

(* RemoveAt: the elements behind the removed one move up by one.           *)
LEMMA RemoveAtEffect ==
    ASSUME NEW S, NEW q \in Seq(S), NEW i \in 1..Len(q)
    PROVE  /\ RemoveAt(q, i) \in Seq(S)
           /\ Len(RemoveAt(q, i)) = Len(q) - 1
           /\ \A j \in 1..(Len(q) - 1) :
                 RemoveAt(q, i)[j] = IF j < i THEN q[j] ELSE q[j + 1]
<1> DEFINE a == SubSeq(q, 1, i - 1)
           b == SubSeq(q, i + 1, Len(q))
<1>1. Len(q) \in Nat /\ i \in Nat
  OBVIOUS
<1>2. /\ a \in Seq(S) /\ Len(a) = i - 1
      /\ \A j \in 1..(i - 1) : a[j] = q[j]
  <2>1. i - 1 \in Int /\ 1 \in Int /\ \A j \in 1..(i - 1) : q[j] \in S
    BY <1>1
  <2>2. /\ SubSeq(q, 1, i - 1) \in Seq(S)
        /\ Len(SubSeq(q, 1, i - 1)) = IF 1 <= i - 1 THEN (i - 1) - 1 + 1 ELSE 0
        /\ \A j \in 1..((i - 1) - 1 + 1) : SubSeq(q, 1, i - 1)[j] = q[1 + j - 1]
    BY <2>1, SubSeqProperties
  <2> HIDE DEF a, b
  <2> QED
    BY <1>1, <2>2 DEF a
<1>3. /\ b \in Seq(S) /\ Len(b) = Len(q) - i
      /\ \A j \in 1..(Len(q) - i) : b[j] = q[i + j]
  <2>1. i + 1 \in Int /\ Len(q) \in Int /\ \A j \in (i + 1)..Len(q) : q[j] \in S
    BY <1>1
  <2>2. /\ SubSeq(q, i + 1, Len(q)) \in Seq(S)
        /\ Len(SubSeq(q, i + 1, Len(q))) =
              IF i + 1 <= Len(q) THEN Len(q) - (i + 1) + 1 ELSE 0
        /\ \A j \in 1..(Len(q) - (i + 1) + 1) :
              SubSeq(q, i + 1, Len(q))[j] = q[i + 1 + j - 1]
    BY <2>1, SubSeqProperties
  <2> QED
    BY <1>1, <2>2
<1>4. RemoveAt(q, i) = a \o b
  BY DEF RemoveAt
<1> HIDE DEF a, b
<1>5. /\ a \o b \in Seq(S)
      /\ Len(a \o b) = Len(a) + Len(b)
      /\ \A j \in 1..(Len(a) + Len(b)) :
            (a \o b)[j] = IF j <= Len(a) THEN a[j] ELSE b[j - Len(a)]
  BY <1>2, <1>3, ConcatProperties
<1> QED
  BY <1>1, <1>2, <1>3, <1>4, <1>5

(* No service twice, as the search by name in RemoveServer assumes.        *)
Distinct(q) == \A i, j \in 1..Len(q) : q[i] = q[j] => i = j

(* RemoveAt leaves the others where they are told apart; Append of a name  *)
(* that is not there does so too.                                          *)
LEMMA RemoveAtDistinct ==
    ASSUME NEW S, NEW q \in Seq(S), NEW i \in 1..Len(q), Distinct(q)
    PROVE  /\ Distinct(RemoveAt(q, i))
           /\ \A j \in 1..Len(RemoveAt(q, i)) : RemoveAt(q, i)[j] # q[i]
<1>1. Len(q) \in Nat /\ i \in 1..Len(q)
  OBVIOUS
<1>2. /\ Len(RemoveAt(q, i)) = Len(q) - 1
      /\ \A j \in 1..(Len(q) - 1) :
            RemoveAt(q, i)[j] = IF j < i THEN q[j] ELSE q[j + 1]
  BY RemoveAtEffect
<1> DEFINE p == RemoveAt(q, i)
<1> HIDE DEF p
<1>3. /\ Len(p) = Len(q) - 1
      /\ \A j \in 1..(Len(q) - 1) : p[j] = IF j < i THEN q[j] ELSE q[j + 1]
  BY <1>2 DEF p
<1>4. \A j, k \in 1..Len(p) : p[j] = p[k] => j = k
  <2> TAKE j, k \in 1..Len(p)
  <2> HAVE p[j] = p[k]
  <2> QED
    BY <1>1, <1>3 DEF Distinct
<1>5. \A j \in 1..Len(p) : p[j] # q[i]
  BY <1>1, <1>3 DEF Distinct
<1> QED
  BY <1>4, <1>5 DEF Distinct, p

LEMMA AppendDistinct ==
    ASSUME NEW S, NEW q \in Seq(S), NEW e \in S, Distinct(q),
           \A j \in 1..Len(q) : q[j] # e
    PROVE  Append(q, e) \in Seq(S) /\ Distinct(Append(q, e))
<1> DEFINE p == Append(q, e)
<1>1. /\ p \in Seq(S) /\ Len(p) = Len(q) + 1 /\ Len(q) \in Nat
      /\ \A j \in 1..Len(q) : p[j] = q[j]
      /\ p[Len(q) + 1] = e
  OBVIOUS
<1> HIDE DEF p
<1>2. \A j, k \in 1..Len(p) : p[j] = p[k] => j = k
  BY <1>1 DEF Distinct
<1> QED
  BY <1>1, <1>2 DEF Distinct, p

(* GetExistServiceIndex finds the row of a name if there is one.           *)
LEMMA IndexFound ==
    ASSUME services \in Seq(ServiceNames), Distinct(services),
           NEW name, NEW i, i = GetExistServiceIndex(name)
    PROVE  \/ i = 0 /\ \A j \in 1..Len(services) : services[j] # name
           \/ i \in 1..Len(services) /\ services[i] = name
<1> DEFINE at == {j \in DOMAIN services : services[j] = name}
<1>1. Len(services) \in Nat /\ DOMAIN services = 1..Len(services)
  OBVIOUS
<1>2. CASE at = {}
  BY <1>1, <1>2 DEF GetExistServiceIndex
<1>3. CASE at # {}
  <2>1. PICK k \in at : TRUE
    BY <1>3
  <2>2. k \in at /\ \A j \in at : k <= j
    <3>1. \A j \in at : j = k
      BY <1>1, <2>1 DEF Distinct
    <3> QED
      BY <1>1, <3>1
  <2>3. i = CHOOSE x \in at : \A j \in at : x <= j
    BY <1>3 DEF GetExistServiceIndex
  <2> HIDE DEF at
  <2>4. i \in at
    BY <2>2, <2>3
  <2> QED
    BY <1>1, <2>4 DEF at
<1> QED
  BY <1>2, <1>3

-----------------------------------------------------------------------------
(* The inductive invariant                                                 *)

SettingsTypes ==
    /\ services \in Seq(ServiceNames)
    /\ file.services \in Seq(ServiceNames)
    /\ table \in Seq(ServiceNames)
    /\ buttons \in Seq(Nat)

(* What a start reads has no service twice either.                         *)
EachOnce == Distinct(services) /\ Distinct(file.services)

TableShows == dialog /\ ~skewed => table = services

FileMatches ==
    ~dialog /\ ~unsaved => /\ file.services = services
                           /\ LoadedMethod(file.method) = LoadedMethod(method)

SettingsInv == SettingsTypes /\ EachOnce /\ TableShows /\ FileMatches

(* RemoveServer and AddService of a token keep each service once.          *)
LEMMA WithTokenOnce ==
    ASSUME services \in Seq(ServiceNames), Distinct(services),
           NEW name \in ServiceNames
    PROVE  /\ WithToken(services, name) \in Seq(ServiceNames)
           /\ Distinct(WithToken(services, name))
<1> DEFINE i == GetExistServiceIndex(name)
           rest == IF i = 0 THEN services ELSE RemoveAt(services, i)
<1>1. /\ rest \in Seq(ServiceNames) /\ Distinct(rest)
      /\ \A j \in 1..Len(rest) : rest[j] # name
  <2>1. \/ i = 0 /\ \A j \in 1..Len(services) : services[j] # name
        \/ i \in 1..Len(services) /\ services[i] = name
    BY IndexFound
  <2> HIDE DEF i
  <2>2. CASE i = 0
    BY <2>1, <2>2
  <2>3. CASE i # 0
    <3>1. i \in 1..Len(services) /\ services[i] = name
      BY <2>1, <2>3
    <3>2. RemoveAt(services, i) \in Seq(ServiceNames)
      BY <3>1, RemoveAtEffect
    <3>3. /\ Distinct(RemoveAt(services, i))
          /\ \A j \in 1..Len(RemoveAt(services, i)) :
                RemoveAt(services, i)[j] # services[i]
      BY <3>1, RemoveAtDistinct
    <3> QED
      BY <2>3, <3>1, <3>2, <3>3
  <2> QED
    BY <2>2, <2>3
<1>2. WithToken(services, name) = Append(rest, name)
  BY DEF WithToken
<1> HIDE DEF rest
<1> QED
  BY <1>1, <1>2, AppendDistinct

(* Dropping a row keeps a list a list.                                     *)
LEMMA DropTyped ==
    ASSUME NEW S, NEW q \in Seq(S), NEW i \in Nat, i # 0
    PROVE  (IF i > Len(q) THEN q ELSE RemoveAt(q, i)) \in Seq(S)
<1>1. CASE i > Len(q)
  BY <1>1
<1>2. CASE ~(i > Len(q))
  <2>1. i \in 1..Len(q)
    BY <1>2
  <2> QED
    BY <1>2, <2>1, RemoveAtEffect
<1> QED
  BY <1>1, <1>2

LEMMA MethodLoadedOnce ==
    ASSUME NEW m
    PROVE  LoadedMethod(LoadedMethod(m)) = LoadedMethod(m)
BY DEF LoadedMethod, Methods, Deprecated, DefaultMethod

LEMMA NoFileEmpty ==
    /\ NoFile.services = << >>
    /\ << >> \in Seq(ServiceNames) /\ << >> \in Seq(Nat) /\ Distinct(<< >>)
BY DEF NoFile, Distinct

LEMMA SettingsInitially == SettingsInit => SettingsInv
BY NoFileEmpty
   DEF SettingsInit, SettingsInv, SettingsTypes, EachOnce, TableShows, FileMatches, NoFile

(* Whatever is killed in the middle of a Save starts again with nothing.   *)
LEMMA KilledKeeps == KilledInSave => SettingsInv'
BY NoFileEmpty, MethodLoadedOnce
   DEF KilledInSave, Load, CloseDialog, NoFile, SettingsInv, SettingsTypes, EachOnce,
       TableShows, FileMatches

LEMMA RestartKeeps == SettingsInv /\ Restart => SettingsInv'
BY NoFileEmpty, MethodLoadedOnce
   DEF Restart, Load, CloseDialog, SettingsInv, SettingsTypes, EachOnce, TableShows,
       FileMatches

(* What a Save leaves, written or not.                                     *)
LEMMA SaveEffect ==
    ASSUME NEW sv \in Seq(ServiceNames), Distinct(sv), NEW m, SettingsInv,
           Saved(sv, m) \/ NotSaved(sv, m)
    PROVE  /\ services' = sv /\ method' = m
           /\ file'.services \in Seq(ServiceNames) /\ Distinct(file'.services)
           /\ ~unsaved' => file'.services = sv /\ file'.method = m
<1>1. services' = sv /\ method' = m
  BY DEF Saved, NotSaved
<1>2. CASE file' = [services |-> sv, method |-> m]
  BY <1>1, <1>2
<1>3. CASE file' = NoFile /\ unsaved' = TRUE
  BY <1>1, <1>3, NoFileEmpty
<1>4. CASE file' = file /\ unsaved' = TRUE
  BY <1>1, <1>4 DEF SettingsInv, SettingsTypes, EachOnce
<1> QED
  BY <1>2, <1>3, <1>4 DEF Saved, NotSaved

(* A Save of the services as they are, while the dialog stays open or as   *)
(* it closes.                                                              *)
LEMMA SaveKeeps ==
    ASSUME NEW m, SettingsInv,
           Saved(services, m) \/ NotSaved(services, m),
           \/ dialog' /\ (~skewed' => table' = services)
           \/ ~dialog',
           table' \in Seq(ServiceNames), buttons' \in Seq(Nat)
    PROVE  SettingsInv'
<1>1. services \in Seq(ServiceNames) /\ Distinct(services)
  BY DEF SettingsInv, SettingsTypes, EachOnce
<1>2. /\ services' = services /\ method' = m
      /\ file'.services \in Seq(ServiceNames) /\ Distinct(file'.services)
      /\ ~unsaved' => file'.services = services /\ file'.method = m
  BY <1>1, SaveEffect
<1> QED
  BY <1>1, <1>2 DEF SettingsInv, SettingsTypes, EachOnce, TableShows, FileMatches

LEMMA SetupUiKeeps == SettingsInv /\ SetupUi => SettingsInv'
<1> SUFFICES ASSUME SettingsInv, SetupUi
             PROVE  SettingsInv'
  OBVIOUS
<1>1. CASE KilledInSave
  BY <1>1, KilledKeeps
<1>2. CASE ~KilledInSave
  <2>1. [i \in DOMAIN services |-> i] \in Seq(Nat)
    <3>1. Len(services) \in Nat /\ DOMAIN services = 1..Len(services)
      BY DEF SettingsInv, SettingsTypes
    <3> QED
      BY <3>1
  <2>2. /\ dialog' /\ table' = services /\ buttons' \in Seq(Nat) /\ skewed' = skewed
        /\ Saved(services, Shown(method)) \/ NotSaved(services, Shown(method))
    BY <1>2, <2>1 DEF SetupUi
  <2>3. table' \in Seq(ServiceNames)
    BY <2>2 DEF SettingsInv, SettingsTypes
  <2> QED
    BY <2>2, <2>3, SaveKeeps
<1> QED
  BY <1>1, <1>2

LEMMA MethodKeeps ==
    ASSUME NEW m, SettingsInv, OnBypassMethodChanged(m)
    PROVE  SettingsInv'
<1>1. CASE KilledInSave
  BY <1>1, KilledKeeps
<1>2. CASE ~KilledInSave
  <2>1. /\ dialog /\ dialog' = dialog /\ table' = table /\ buttons' = buttons
        /\ skewed' = skewed
        /\ Saved(services, m) \/ NotSaved(services, m)
    BY <1>2 DEF OnBypassMethodChanged
  <2>2. dialog' /\ (~skewed' => table' = services)
    BY <2>1 DEF SettingsInv, TableShows
  <2>3. table' \in Seq(ServiceNames) /\ buttons' \in Seq(Nat)
    BY <2>1 DEF SettingsInv, SettingsTypes
  <2> QED
    BY <2>1, <2>2, <2>3, SaveKeeps
<1> QED
  BY <1>1, <1>2

LEMMA LanguageKeeps == SettingsInv /\ OnLanguageChanged => SettingsInv'
<1> SUFFICES ASSUME SettingsInv, OnLanguageChanged
             PROVE  SettingsInv'
  OBVIOUS
<1>1. CASE KilledInSave
  BY <1>1, KilledKeeps
<1>2. CASE ~KilledInSave
  <2>1. /\ dialog /\ dialog' = dialog /\ table' = table /\ buttons' = buttons
        /\ skewed' = skewed
        /\ Saved(services, method) \/ NotSaved(services, method)
    BY <1>2 DEF OnLanguageChanged
  <2>2. dialog' /\ (~skewed' => table' = services)
    BY <2>1 DEF SettingsInv, TableShows
  <2>3. table' \in Seq(ServiceNames) /\ buttons' \in Seq(Nat)
    BY <2>1 DEF SettingsInv, SettingsTypes
  <2> QED
    BY <2>1, <2>2, <2>3, SaveKeeps
<1> QED
  BY <1>1, <1>2

LEMMA ExitKeeps == SettingsInv /\ OnExit => SettingsInv'
<1> SUFFICES ASSUME SettingsInv, OnExit
             PROVE  SettingsInv'
  OBVIOUS
<1>1. CASE KilledInSave
  BY <1>1, KilledKeeps
<1>2. CASE ~KilledInSave
  <2>1. /\ ~dialog' /\ table' = << >> /\ buttons' = << >>
        /\ Saved(services, combo) \/ NotSaved(services, combo)
    BY <1>2 DEF OnExit, CloseDialog
  <2>2. table' \in Seq(ServiceNames) /\ buttons' \in Seq(Nat)
    BY <2>1, NoFileEmpty
  <2> QED
    BY <2>1, <2>2, SaveKeeps
<1> QED
  BY <1>1, <1>2

(* The row that goes from the table is the row that goes from the model.   *)
LEMMA LoadConfigKeeps ==
    ASSUME NEW name \in ServiceNames, SettingsInv, OnLoadNewConfig(name)
    PROVE  SettingsInv'
<1> DEFINE i == GetExistServiceIndex(name)
           drop(seq) == IF i = 0 \/ i > Len(seq) THEN seq ELSE RemoveAt(seq, i)
<1>1. /\ WithToken(services, name) \in Seq(ServiceNames)
      /\ Distinct(WithToken(services, name))
  BY WithTokenOnce DEF SettingsInv, SettingsTypes, EachOnce
<1>2. i \in Nat /\ i <= Len(services)
  <2>1. i = 0 \/ i \in 1..Len(services)
    BY IndexFound DEF SettingsInv, SettingsTypes, EachOnce
  <2>2. Len(services) \in Nat
    BY DEF SettingsInv, SettingsTypes
  <2> HIDE DEF i
  <2> QED
    BY <2>1, <2>2
<1>3. WithToken(services, name) = Append(drop(services), name)
  <2>1. WithToken(services, name)
           = Append(IF i = 0 THEN services ELSE RemoveAt(services, i), name)
    BY DEF WithToken
  <2>2. Len(services) \in Nat
    BY DEF SettingsInv, SettingsTypes
  <2> HIDE DEF i
  <2> QED
    BY <1>2, <2>1, <2>2
<1>4. drop(table) \in Seq(ServiceNames) /\ drop(buttons) \in Seq(Nat)
  <2>1. table \in Seq(ServiceNames) /\ buttons \in Seq(Nat)
    BY DEF SettingsInv, SettingsTypes
  <2> HIDE DEF i
  <2> QED
    BY <1>2, <2>1, DropTyped
<1>5. CASE KilledInSave
  BY <1>5, KilledKeeps
<1>6. CASE /\ dialog
           /\ Saved(WithToken(services, name), method)
           /\ table' = Append(drop(table), name)
           /\ buttons' = Append(drop(buttons), 0)
           /\ UNCHANGED <<dialog, combo, translated, skewed>>
  <2>1. table' \in Seq(ServiceNames) /\ buttons' \in Seq(Nat)
    <3> HIDE DEF drop
    <3> QED
      BY <1>4, <1>6
  <2>2. ~skewed => table' = services'
    <3> SUFFICES ASSUME ~skewed
                 PROVE  table' = services'
      OBVIOUS
    <3>1. table = services
      BY <1>6 DEF SettingsInv, TableShows
    <3>2. table' = Append(drop(services), name)
      BY <1>6, <3>1
    <3> HIDE DEF drop
    <3> QED
      BY <1>3, <1>6, <3>2 DEF Saved
  <2>3. /\ services' = WithToken(services, name)
        /\ file'.services \in Seq(ServiceNames) /\ Distinct(file'.services)
    <3> HIDE DEF drop
    <3> QED
      BY <1>1, <1>6, SaveEffect
  <2> HIDE DEF drop
  <2> QED
    BY <1>1, <1>6, <2>1, <2>2, <2>3 DEF SettingsInv, SettingsTypes, EachOnce, TableShows,
                                        FileMatches
<1>7. CASE /\ dialog
           /\ NotSaved(WithToken(services, name), method)
           /\ table' = drop(table) /\ buttons' = drop(buttons) /\ skewed' = TRUE
           /\ UNCHANGED <<dialog, combo, translated>>
  <2> HIDE DEF drop
  <2>1. /\ services' = WithToken(services, name)
        /\ file'.services \in Seq(ServiceNames) /\ Distinct(file'.services)
    BY <1>1, <1>7, SaveEffect
  <2> QED
    BY <1>1, <1>4, <1>7, <2>1 DEF SettingsInv, SettingsTypes, EachOnce, TableShows,
                                  FileMatches
<1> QED
  BY <1>5, <1>6, <1>7 DEF OnLoadNewConfig

LEMMA RemoveKeeps ==
    ASSUME NEW r \in DOMAIN buttons, SettingsInv, OnRemoveServer(r)
    PROVE  SettingsInv'
<1> DEFINE row == buttons[r]
           drop(seq) == IF row > Len(seq) THEN seq ELSE RemoveAt(seq, row)
<1>1. row \in Nat /\ row # 0
  BY DEF SettingsInv, SettingsTypes, OnRemoveServer
<1>2. /\ table' = drop(table) /\ buttons' = drop(buttons)
      /\ services' = drop(services)
      /\ dialog /\ UNCHANGED <<file, method, dialog, combo, translated, unsaved, skewed>>
  BY DEF OnRemoveServer
<1> HIDE DEF row
<1>3. /\ drop(table) \in Seq(ServiceNames) /\ drop(buttons) \in Seq(Nat)
      /\ drop(services) \in Seq(ServiceNames)
  BY <1>1, DropTyped DEF SettingsInv, SettingsTypes
<1>4. Distinct(drop(services))
  <2>1. CASE row > Len(services)
    BY <2>1 DEF SettingsInv, EachOnce
  <2>2. CASE ~(row > Len(services))
    <3>1. row \in 1..Len(services)
      BY <1>1, <2>2 DEF SettingsInv, SettingsTypes
    <3>2. Distinct(RemoveAt(services, row))
      BY <3>1, RemoveAtDistinct DEF SettingsInv, SettingsTypes, EachOnce
    <3> QED
      BY <2>2, <3>2
  <2> QED
    BY <2>1, <2>2
<1>5. ~skewed => drop(table) = drop(services)
  BY <1>2 DEF SettingsInv, TableShows
<1> HIDE DEF drop
<1> QED
  BY <1>2, <1>3, <1>4, <1>5 DEF SettingsInv, SettingsTypes, EachOnce, TableShows,
                                FileMatches

LEMMA SettingsStep == SettingsInv /\ [SettingsNext]_settingsVars => SettingsInv'
<1> SUFFICES ASSUME SettingsInv, [SettingsNext]_settingsVars
             PROVE  SettingsInv'
  OBVIOUS
<1>1. CASE UNCHANGED settingsVars
  BY <1>1 DEF settingsVars, SettingsInv, SettingsTypes, EachOnce, TableShows, FileMatches
<1>2. CASE Restart
  BY <1>2, RestartKeeps
<1>3. CASE SetupUi
  BY <1>3, SetupUiKeeps
<1>4. CASE OnLanguageChanged
  BY <1>4, LanguageKeeps
<1>5. CASE OnExit
  BY <1>5, ExitKeeps
<1>6. CASE \E m \in Offered(translated) : OnBypassMethodChanged(m)
  BY <1>6, MethodKeeps
<1>7. CASE \E name \in ServiceNames : OnLoadNewConfig(name)
  BY <1>7, LoadConfigKeeps
<1>8. CASE \E r \in DOMAIN buttons : OnRemoveServer(r)
  BY <1>8, RemoveKeeps
<1> QED
  BY <1>1, <1>2, <1>3, <1>4, <1>5, <1>6, <1>7, <1>8 DEF SettingsNext

(* However tokens are added, replaced and removed while Saves fail and the *)
(* process is killed in them, table, model and file stay together as       *)
(* SettingsKept says.                                                      *)
THEOREM SettingsStayTogether == SettingsSpec => []SettingsKept
<1>1. SettingsInv => SettingsKept
  <2> SUFFICES ASSUME SettingsInv
               PROVE  SettingsKept
    OBVIOUS
  <2>1. DOMAIN services = 1..Len(services)
    BY DEF SettingsInv, SettingsTypes
  <2> QED
    BY <2>1 DEF SettingsInv, EachOnce, Distinct, TableShows, FileMatches, SettingsKept
<1> QED
  BY <1>1, SettingsInitially, SettingsStep, PTL DEF SettingsSpec

-----------------------------------------------------------------------------
(* Routes: the inductive invariant                                         *)

ApplyNames == {"setModes", "addForwardRules", "defaultToTun", "addTun6", "addServerRoute",
               "addDnsRules", "resolvectlToVpn", "backUpResolv", "nameVpnDns",
               "addCustomRules", "nameCustomDns", "addExcludes", "addIncludes"}

CleanNames == {"deleteDnsRoutes", "deleteExcludes", "deleteIncludes",
               "deleteForwardRules", "defaultToGateway", "deleteServerRoute",
               "unnameVpnDns", "deleteBackup", "deleteDnsRules", "deleteCustomRules",
               "unnameCustomDns", "deleteTun6", "resolvectlBack"}

(* Command c of the list has run.                                          *)
Ran(c) == \E i \in 1..ran : Commands[i] = c

(* What command a does may be there: command d has not undone it yet.      *)
There(a, d) == IF up THEN Ran(a) ELSE ~Ran(d)

NameServers == {"original", "vpn", "custom"}

NetType == [modes : BOOLEAN, forward : Nat, dns : Nat, customRules : Nat,
            default : {"gateway", "tun", "none"}, tun6 : BOOLEAN, server : BOOLEAN,
            link : {"own", "vpn"}, resolv : SUBSET NameServers,
            backup : SUBSET NameServers, excludes : BOOLEAN, includes : BOOLEAN,
            hosts : SUBSET RouteEntries]

RouteTypes ==
    /\ net \in NetType
    /\ up \in BOOLEAN /\ alive \in BOOLEAN /\ custom \in BOOLEAN /\ givenOut \in BOOLEAN
    /\ given6 \in BOOLEAN /\ gateway6 \in BOOLEAN /\ applied \in BOOLEAN
    /\ ran \in 0..13 /\ linkSaved \in {"own", "vpn"}
    /\ dnsRoutes \in SUBSET RouteEntries /\ adding \in SUBSET RouteEntries
    /\ kills \in Nat /\ raced \in BOOLEAN
    /\ ~alive => ~up /\ ran = 13

(* Of a process that was never killed.                                     *)
Counted ==
    kills = 0 =>
       /\ Undone("deleteForwardRules", net.forward <= 1)
       /\ There("addForwardRules", "deleteForwardRules")
             \/ Undone("deleteForwardRules", net.forward = 0)
       /\ Undone("deleteDnsRules", net.dns <= 1)
       /\ There("addDnsRules", "deleteDnsRules") \/ Undone("deleteDnsRules", net.dns = 0)
       /\ Undone("deleteCustomRules", net.customRules <= 1)
       /\ (custom /\ There("addCustomRules", "deleteCustomRules"))
             \/ Undone("deleteCustomRules", net.customRules = 0)

Switched ==
    kills = 0 =>
       /\ alive
       /\ There("defaultToTun", "defaultToGateway")
             \/ Undone("defaultToGateway", net.default = "gateway")
       /\ There("addServerRoute", "deleteServerRoute")
             \/ Undone("deleteServerRoute", ~net.server)
       /\ Undone("resolvectlBack", linkSaved = "own")
       /\ There("resolvectlToVpn", "resolvectlBack")
             \/ Undone("resolvectlBack", net.link = "own")
       /\ There("addIncludes", "deleteIncludes") \/ Undone("deleteIncludes", ~net.includes)
       /\ givenOut /\ ~up /\ Ran("deleteExcludes") => Undone("deleteExcludes", ~net.excludes)
       /\ gateway6 /\ ~up /\ Ran("deleteTun6") => Undone("deleteTun6", ~net.tun6)

Named ==
    kills = 0 =>
       /\ "original" \in net.resolv
       /\ There("nameVpnDns", "unnameVpnDns") \/ Undone("unnameVpnDns", "vpn" \notin net.resolv)
       /\ (custom /\ There("nameCustomDns", "unnameCustomDns"))
             \/ Undone("unnameCustomDns", "custom" \notin net.resolv)
       /\ ~up /\ Ran("deleteBackup") => Undone("deleteBackup", net.backup = NoBackup)

Hosted ==
    kills = 0 /\ ~raced =>
       Undone("deleteDnsRoutes", /\ Excluding(net.hosts) \subseteq dnsRoutes
                                 /\ Excluding(net.hosts) \cap adding = {})

Trouble == {"backUpResolv", "unnameVpnDns", "restoreResolv"}

(* Without a custom server the backup is there whenever resolv.conf may    *)
(* have been changed, unless one of the commands it depends on has failed. *)
BackedUp ==
    ~custom /\ failed \cap Trouble = {} =>
       /\ net.resolv \in {Orig, Orig \cup {"vpn"}}
       /\ net.backup \in {NoBackup, Orig}
       /\ net.resolv = Orig \/ net.backup = Orig
       /\ up => IF Ran("backUpResolv") THEN net.backup = Orig ELSE net.resolv = Orig
       /\ alive /\ ~up => IF Ran("unnameVpnDns") THEN net.resolv = Orig
                          ELSE net.backup = Orig

RouteInv == RouteTypes /\ Counted /\ Switched /\ Named /\ Hosted /\ BackedUp

(* The lists of commands: 13 each, without repetition, and in this order.  *)
LEMMA Lists ==
    /\ Len(ApplyCommands) = 13 /\ Len(CleanCommands) = 13
    /\ \A i \in 1..13 : ApplyCommands[i] \in ApplyNames /\ CleanCommands[i] \in CleanNames
    /\ \A i, j \in 1..13 : ApplyCommands[i] = ApplyCommands[j] => i = j
    /\ \A i, j \in 1..13 : CleanCommands[i] = CleanCommands[j] => i = j
    /\ \A c \in ApplyNames : \E i \in 1..13 : ApplyCommands[i] = c
    /\ \A c \in CleanNames : \E i \in 1..13 : CleanCommands[i] = c
    /\ ApplyCommands[8] = "backUpResolv" /\ ApplyCommands[9] = "nameVpnDns"
    /\ CleanCommands[7] = "unnameVpnDns" /\ CleanCommands[8] = "deleteBackup"
<1>1. Len(ApplyCommands) = 13 /\ Len(CleanCommands) = 13
  BY DEF ApplyCommands, CleanCommands
<1>2. \A i \in 1..13 : ApplyCommands[i] \in ApplyNames /\ CleanCommands[i] \in CleanNames
  BY DEF ApplyCommands, CleanCommands, ApplyNames, CleanNames
<1>3. \A i, j \in 1..13 : ApplyCommands[i] = ApplyCommands[j] => i = j
  BY SMTT(60) DEF ApplyCommands
<1>4. \A i, j \in 1..13 : CleanCommands[i] = CleanCommands[j] => i = j
  BY SMTT(60) DEF CleanCommands
<1>5. \A c \in ApplyNames : \E i \in 1..13 : ApplyCommands[i] = c
  BY SMTT(60) DEF ApplyCommands, ApplyNames
<1>6. \A c \in CleanNames : \E i \in 1..13 : CleanCommands[i] = c
  BY SMTT(60) DEF CleanCommands, CleanNames
<1> QED
  BY <1>1, <1>2, <1>3, <1>4, <1>5, <1>6 DEF ApplyCommands, CleanCommands

LEMMA Names ==
    /\ ApplyNames \cap CleanNames = {}
    /\ Orig \cup {"vpn"} # Orig /\ NoBackup # Orig
    /\ (Orig \cup {"vpn"}) \ {"vpn"} = Orig /\ Orig \ {"vpn"} = Orig
BY DEF ApplyNames, CleanNames, Orig, NoBackup

(* The list has just been begun, and it has come to its end.               *)
LEMMA Begun ==
    ASSUME ran' = 0
    PROVE  \A c : ~Ran(c)'
BY DEF Ran

LEMMA Ended ==
    ASSUME ran = Len(Commands), up \in BOOLEAN
    PROVE  /\ up => \A c \in ApplyNames : Ran(c)
           /\ ~up => \A c \in CleanNames : Ran(c)
BY Lists DEF Ran, Commands

(* A step of a list.                                                       *)
LEMMA Advance ==
    ASSUME RouteTypes, ran < Len(Commands), ran' = ran + 1, up' = up
    PROVE  /\ \A x : Ran(x)' <=> Ran(x) \/ x = Commands[ran + 1]
           /\ ~Ran(Commands[ran + 1])
           /\ up => Commands[ran + 1] \in ApplyNames
           /\ ~up => Commands[ran + 1] \in CleanNames
           /\ up /\ Commands[ran + 1] = "nameVpnDns" => Ran("backUpResolv")
           /\ ~up /\ Commands[ran + 1] = "deleteBackup" => Ran("unnameVpnDns")
           /\ ran' \in 0..13
<1> DEFINE list == Commands
           c == list[ran + 1]
<1>1. /\ Len(list) = 13 /\ ran \in 0..12 /\ list' = list
      /\ \A i, j \in 1..13 : list[i] = list[j] => i = j
      /\ up => /\ \A i \in 1..13 : list[i] \in ApplyNames
               /\ list[8] = "backUpResolv" /\ list[9] = "nameVpnDns"
      /\ ~up => /\ \A i \in 1..13 : list[i] \in CleanNames
                /\ list[7] = "unnameVpnDns" /\ list[8] = "deleteBackup"
  BY Lists DEF RouteTypes, Commands, ApplyCommands, CleanCommands
<1> HIDE DEF list
<1>2. \A x : (\E i \in 1..(ran + 1) : list[i] = x) <=> (\E i \in 1..ran : list[i] = x) \/ x = c
  <2>1. \A i : i \in 1..(ran + 1) <=> i \in 1..ran \/ i = ran + 1
    BY <1>1
  <2> QED
    BY <2>1, Zenon
<1>3. ~\E i \in 1..ran : list[i] = c
  BY <1>1
<1>4. c = list[9] => ran = 8
  BY <1>1
<1>5. c = list[8] => ran = 7
  BY <1>1
<1>6. up /\ c = "nameVpnDns" => \E i \in 1..ran : list[i] = "backUpResolv"
  BY <1>1, <1>4
<1>7. ~up /\ c = "deleteBackup" => \E i \in 1..ran : list[i] = "unnameVpnDns"
  BY <1>1, <1>5
<1>8. ran' \in 0..13 /\ ran + 1 \in 1..13
  BY <1>1
<1> QED
  BY <1>1, <1>2, <1>3, <1>6, <1>7, <1>8 DEF Ran, list

(* What command c makes of each part of the system s.                      *)
Makes(c, s, t) ==
    /\ t \in NetType
    /\ t.forward = IF c = "addForwardRules" THEN s.forward + 1
                   ELSE IF c = "deleteForwardRules" THEN Less1(s.forward)
                   ELSE s.forward
    /\ t.dns = IF c = "addDnsRules" THEN s.dns + 1
               ELSE IF c = "deleteDnsRules" THEN Less1(s.dns)
               ELSE s.dns
    /\ t.customRules =
          IF c = "addCustomRules" THEN s.customRules + 1
          ELSE IF c = "deleteCustomRules" THEN Less1(s.customRules)
          ELSE s.customRules
    /\ t.default = IF c = "defaultToTun" THEN "tun"
                   ELSE IF c = "defaultToGateway" THEN "gateway"
                   ELSE s.default
    /\ t.tun6 = IF c = "addTun6" THEN TRUE
                ELSE IF c = "deleteTun6" THEN FALSE
                ELSE s.tun6
    /\ t.server = IF c = "addServerRoute" THEN TRUE
                  ELSE IF c = "deleteServerRoute" THEN FALSE
                  ELSE s.server
    /\ t.link = IF c = "resolvectlToVpn" THEN "vpn"
                ELSE IF c = "resolvectlBack" THEN linkSaved
                ELSE s.link
    /\ t.resolv = IF c = "nameVpnDns" THEN s.resolv \cup {"vpn"}
                  ELSE IF c = "nameCustomDns" THEN s.resolv \cup {"custom"}
                  ELSE IF c = "unnameVpnDns" THEN s.resolv \ {"vpn"}
                  ELSE IF c = "unnameCustomDns" THEN s.resolv \ {"custom"}
                  ELSE s.resolv
    /\ t.backup = IF c = "backUpResolv" /\ s.backup = NoBackup
                  THEN s.resolv
                  ELSE IF c = "deleteBackup" THEN NoBackup
                  ELSE s.backup
    /\ t.excludes = IF c = "addExcludes" THEN TRUE
                    ELSE IF c = "deleteExcludes"
                    THEN s.excludes /\ ~givenOut
                    ELSE s.excludes
    /\ t.includes = IF c = "addIncludes" THEN TRUE
                    ELSE IF c = "deleteIncludes" THEN FALSE
                    ELSE s.includes
    /\ t.hosts = IF c = "deleteDnsRoutes" THEN s.hosts \ Excluding(dnsRoutes)
                 ELSE s.hosts

LEMMA EffectFields ==
    ASSUME NEW s \in NetType, NEW c \in ApplyNames \cup CleanNames, RouteTypes
    PROVE  Makes(c, s, Effect(c, s))
<1> USE DEF Makes, NetType, NameServers, Less1, NoBackup
<1>0. linkSaved \in {"own", "vpn"} /\ givenOut \in BOOLEAN
  BY DEF RouteTypes
<1>1. CASE c = "setModes"
  BY <1>0, <1>1 DEF Effect
<1>2. CASE c = "addForwardRules"
  BY <1>0, <1>2 DEF Effect
<1>3. CASE c = "defaultToTun"
  BY <1>0, <1>3 DEF Effect
<1>4. CASE c = "addTun6"
  BY <1>0, <1>4 DEF Effect
<1>5. CASE c = "addServerRoute"
  BY <1>0, <1>5 DEF Effect
<1>6. CASE c = "addDnsRules"
  BY <1>0, <1>6 DEF Effect
<1>7. CASE c = "resolvectlToVpn"
  BY <1>0, <1>7 DEF Effect
<1>8. CASE c = "backUpResolv"
  BY <1>0, <1>8 DEF Effect
<1>9. CASE c = "nameVpnDns"
  BY <1>0, <1>9 DEF Effect
<1>10. CASE c = "addCustomRules"
  BY <1>0, <1>10 DEF Effect
<1>11. CASE c = "nameCustomDns"
  BY <1>0, <1>11 DEF Effect
<1>12. CASE c = "addExcludes"
  BY <1>0, <1>12 DEF Effect, AddExcludeNetworks
<1>13. CASE c = "addIncludes"
  BY <1>0, <1>13 DEF Effect, AddIncludeNetworks
<1>14. CASE c = "deleteDnsRoutes"
  BY <1>0, <1>14 DEF Effect
<1>15. CASE c = "deleteExcludes"
  BY <1>0, <1>15 DEF Effect
<1>16. CASE c = "deleteIncludes"
  BY <1>0, <1>16 DEF Effect
<1>17. CASE c = "deleteForwardRules"
  BY <1>0, <1>17 DEF Effect
<1>18. CASE c = "defaultToGateway"
  BY <1>0, <1>18 DEF Effect
<1>19. CASE c = "deleteServerRoute"
  BY <1>0, <1>19 DEF Effect
<1>20. CASE c = "unnameVpnDns"
  BY <1>0, <1>20 DEF Effect
<1>21. CASE c = "deleteBackup"
  BY <1>0, <1>21 DEF Effect
<1>22. CASE c = "deleteDnsRules"
  BY <1>0, <1>22 DEF Effect
<1>23. CASE c = "deleteCustomRules"
  BY <1>0, <1>23 DEF Effect
<1>24. CASE c = "unnameCustomDns"
  BY <1>0, <1>24 DEF Effect
<1>25. CASE c = "deleteTun6"
  BY <1>0, <1>25 DEF Effect
<1>26. CASE c = "resolvectlBack"
  BY <1>0, <1>26 DEF Effect
<1> QED
  BY <1>1, <1>2, <1>3, <1>4, <1>5, <1>6, <1>7, <1>8, <1>9, <1>10, <1>11, <1>12, <1>13,
     <1>14, <1>15, <1>16, <1>17, <1>18, <1>19, <1>20, <1>21, <1>22, <1>23, <1>24, <1>25, <1>26
  DEF ApplyNames, CleanNames

-----------------------------------------------------------------------------
(* Routes: each action keeps the invariant                                 *)

LEMMA RoutesInitially == RouteInit => RouteInv
<1> SUFFICES ASSUME RouteInit
             PROVE  RouteInv
  OBVIOUS
<1>1. ran = 13 /\ up = FALSE /\ alive = TRUE /\ kills = 0 /\ ran = Len(Commands)
  BY Lists DEF RouteInit, Commands
<1>2. net \in NetType
  BY DEF RouteInit, NetType, NameServers, Orig, NoBackup
<1>3. /\ custom \in BOOLEAN /\ givenOut \in BOOLEAN /\ given6 \in BOOLEAN
      /\ gateway6 = FALSE /\ applied = FALSE /\ linkSaved = "own" /\ raced = FALSE
      /\ dnsRoutes = {} /\ adding = {} /\ failed = {}
      /\ net.forward = 0 /\ net.dns = 0 /\ net.customRules = 0
      /\ net.default = "gateway" /\ ~net.tun6 /\ ~net.server /\ net.link = "own"
      /\ net.resolv = Orig /\ net.backup = NoBackup /\ ~net.excludes /\ ~net.includes
      /\ net.hosts = {}
  BY DEF RouteInit
<1>4. RouteTypes
  <2>1. ran \in 0..13 /\ kills \in Nat
    BY <1>1
  <2>2. linkSaved \in {"own", "vpn"}
    BY <1>3
  <2> QED
    BY <1>1, <1>2, <1>3, <2>1, <2>2, Zenon DEF RouteTypes
<1>5. \A d \in CleanNames : Ran(d)
  BY <1>1, Ended
<1>6. Counted
  BY <1>1, <1>3 DEF Counted, Undone
<1>7. Switched
  BY <1>1, <1>3 DEF Switched, Undone
<1>8. Named
  BY <1>1, <1>3 DEF Named, Undone, Orig
<1>9. Hosted
  BY <1>1, <1>3 DEF Hosted, Undone, Excluding
<1>10. BackedUp
  <2>1. Ran("unnameVpnDns")
    BY <1>5 DEF CleanNames
  <2> QED
    BY <1>1, <1>3, <2>1 DEF BackedUp
<1> QED
  BY <1>4, <1>6, <1>7, <1>8, <1>9, <1>10 DEF RouteInv

(* A step of Apply or Clean: what becomes of command c, and what is known  *)
(* of the list before and after it.                                        *)
CommandStep(c) ==
    /\ IF up THEN c \in ApplyNames ELSE c \in CleanNames
    /\ \A x : Ran(x)' <=> Ran(x) \/ x = c
    /\ \A a \in ApplyNames, d \in CleanNames :
          /\ There(a, d)' <=> c = a \/ (There(a, d) /\ c # d)
          /\ c = a => ~There(a, d)
          /\ c = d => There(a, d)
    /\ up /\ c = "nameVpnDns" => Ran("backUpResolv")
    /\ ~up /\ c = "deleteBackup" => Ran("unnameVpnDns")
    /\ \/ Makes(c, net, net') /\ failed' = failed /\ ~LeftOut(c)
       \/ net' = net /\ failed' = failed /\ LeftOut(c)
       \/ net' = net /\ failed' = failed \cup {c} /\ ~LeftOut(c)
    /\ dnsRoutes' = IF c = "deleteDnsRoutes" THEN {} ELSE dnsRoutes
    /\ alive /\ alive' /\ up' = up /\ adding' = adding /\ kills' = kills /\ raced' = raced
    /\ custom' = custom /\ givenOut' = givenOut /\ given6' = given6
    /\ gateway6' = gateway6 /\ applied' = applied /\ linkSaved' = linkSaved

LEMMA CommandSteps ==
    ASSUME RouteInv, RunCommand
    PROVE  RouteTypes' /\ \E c : CommandStep(c)
<1> DEFINE c == Commands[ran + 1]
<1>1. /\ alive /\ ran < Len(Commands) /\ ran' = ran + 1 /\ up' = up /\ alive' = alive
      /\ adding' = adding /\ kills' = kills /\ raced' = raced
      /\ custom' = custom /\ givenOut' = givenOut /\ given6' = given6
      /\ gateway6' = gateway6 /\ applied' = applied /\ linkSaved' = linkSaved
      /\ dnsRoutes' = IF c = "deleteDnsRoutes" THEN {} ELSE dnsRoutes
  <2>1. Len(Commands) = 13 /\ ran \in 0..13
    BY Lists DEF RouteInv, RouteTypes, Commands
  <2> QED
    BY <2>1 DEF RunCommand, ListDone, config, detected
<1>2. \/ net' = Effect(c, net) /\ failed' = failed /\ ~LeftOut(c)
      \/ net' = net /\ failed' = failed /\ LeftOut(c)
      \/ net' = net /\ failed' = failed \cup {c} /\ ~LeftOut(c)
  BY DEF RunCommand, Fails
<1>3. /\ \A x : Ran(x)' <=> Ran(x) \/ x = c
      /\ ~Ran(c)
      /\ up => c \in ApplyNames
      /\ ~up => c \in CleanNames
      /\ up /\ c = "nameVpnDns" => Ran("backUpResolv")
      /\ ~up /\ c = "deleteBackup" => Ran("unnameVpnDns")
      /\ ran' \in 0..13
  BY <1>1, Advance DEF RouteInv
<1> HIDE DEF c
<1>4. c \in ApplyNames \cup CleanNames /\ net \in NetType /\ RouteTypes
  BY <1>3 DEF RouteInv, RouteTypes
<1>5. Makes(c, net, Effect(c, net))
  BY <1>4, EffectFields
<1>6. net' \in NetType
  BY <1>2, <1>4, <1>5 DEF Makes
<1>7. RouteTypes'
  BY <1>1, <1>3, <1>4, <1>6 DEF RouteTypes
<1>8. ASSUME NEW a \in ApplyNames, NEW d \in CleanNames
      PROVE  /\ There(a, d)' <=> c = a \/ (There(a, d) /\ c # d)
             /\ c = a => ~There(a, d)
             /\ c = d => There(a, d)
  BY <1>1, <1>3, Names DEF There
<1>9. CommandStep(c)
  BY <1>1, <1>2, <1>3, <1>4, <1>5, <1>8 DEF CommandStep
<1> QED
  BY <1>7, <1>9

LEMMA CommandCounted ==
    ASSUME NEW c, RouteTypes, Counted, CommandStep(c)
    PROVE  Counted'
<1> SUFFICES ASSUME kills = 0
             PROVE  Counted'
  BY DEF Counted, CommandStep
<1>1. /\ "addForwardRules" \in ApplyNames /\ "deleteForwardRules" \in CleanNames
      /\ "addDnsRules" \in ApplyNames /\ "deleteDnsRules" \in CleanNames
      /\ "addCustomRules" \in ApplyNames /\ "deleteCustomRules" \in CleanNames
  BY DEF ApplyNames, CleanNames
<1>2. /\ net.forward \in Nat /\ net.dns \in Nat /\ net.customRules \in Nat
      /\ custom \in BOOLEAN
  BY DEF RouteTypes, NetType
<1>3. /\ Undone("deleteForwardRules", net.forward <= 1)'
      /\ There("addForwardRules", "deleteForwardRules")'
            \/ Undone("deleteForwardRules", net.forward = 0)'
  <2>1. /\ "deleteForwardRules" \in failed \/ net.forward <= 1
        /\ \/ There("addForwardRules", "deleteForwardRules")
           \/ "deleteForwardRules" \in failed \/ net.forward = 0
    BY DEF Counted, Undone
  <2>2. /\ There("addForwardRules", "deleteForwardRules")'
              <=> \/ c = "addForwardRules"
                  \/ There("addForwardRules", "deleteForwardRules") /\ c # "deleteForwardRules"
        /\ c = "addForwardRules" => ~There("addForwardRules", "deleteForwardRules")
    BY <1>1 DEF CommandStep
  <2>3. /\ \/ /\ failed' = failed
              /\ net'.forward = IF c = "addForwardRules" THEN net.forward + 1
                              ELSE IF c = "deleteForwardRules" THEN Less1(net.forward)
                              ELSE net.forward
           \/ net' = net /\ failed' = failed \cup {c}
           \/ net' = net /\ failed' = failed /\ LeftOut(c)
        /\ custom' = custom
    BY DEF CommandStep, Makes
  <2>4. LeftOut(c) => c # "addForwardRules" /\ c # "deleteForwardRules"
    BY DEF LeftOut
  <2> QED
    BY <1>2, <2>1, <2>2, <2>3, <2>4 DEF Undone, Less1
<1>4. /\ Undone("deleteDnsRules", net.dns <= 1)'
      /\ There("addDnsRules", "deleteDnsRules")'
            \/ Undone("deleteDnsRules", net.dns = 0)'
  <2>1. /\ "deleteDnsRules" \in failed \/ net.dns <= 1
        /\ \/ There("addDnsRules", "deleteDnsRules")
           \/ "deleteDnsRules" \in failed \/ net.dns = 0
    BY DEF Counted, Undone
  <2>2. /\ There("addDnsRules", "deleteDnsRules")'
              <=> \/ c = "addDnsRules"
                  \/ There("addDnsRules", "deleteDnsRules") /\ c # "deleteDnsRules"
        /\ c = "addDnsRules" => ~There("addDnsRules", "deleteDnsRules")
    BY <1>1 DEF CommandStep
  <2>3. /\ \/ /\ failed' = failed
              /\ net'.dns = IF c = "addDnsRules" THEN net.dns + 1
                              ELSE IF c = "deleteDnsRules" THEN Less1(net.dns)
                              ELSE net.dns
           \/ net' = net /\ failed' = failed \cup {c}
           \/ net' = net /\ failed' = failed /\ LeftOut(c)
        /\ custom' = custom
    BY DEF CommandStep, Makes
  <2>4. LeftOut(c) => c # "addDnsRules" /\ c # "deleteDnsRules"
    BY DEF LeftOut
  <2> QED
    BY <1>2, <2>1, <2>2, <2>3, <2>4 DEF Undone, Less1
<1>5. /\ Undone("deleteCustomRules", net.customRules <= 1)'
      /\ (custom /\ There("addCustomRules", "deleteCustomRules"))'
            \/ Undone("deleteCustomRules", net.customRules = 0)'
  <2>1. /\ "deleteCustomRules" \in failed \/ net.customRules <= 1
        /\ \/ (custom /\ There("addCustomRules", "deleteCustomRules"))
           \/ "deleteCustomRules" \in failed \/ net.customRules = 0
    BY DEF Counted, Undone
  <2>2. /\ There("addCustomRules", "deleteCustomRules")'
              <=> \/ c = "addCustomRules"
                  \/ There("addCustomRules", "deleteCustomRules") /\ c # "deleteCustomRules"
        /\ c = "addCustomRules" => ~There("addCustomRules", "deleteCustomRules")
    BY <1>1 DEF CommandStep
  <2>3. /\ \/ /\ failed' = failed /\ ~LeftOut(c)
              /\ net'.customRules = IF c = "addCustomRules" THEN net.customRules + 1
                              ELSE IF c = "deleteCustomRules" THEN Less1(net.customRules)
                              ELSE net.customRules
           \/ net' = net /\ failed' = failed \cup {c}
           \/ net' = net /\ failed' = failed /\ LeftOut(c)
        /\ custom' = custom
    BY DEF CommandStep, Makes
  <2>4. /\ LeftOut(c) => ~custom \/ (c # "addCustomRules" /\ c # "deleteCustomRules")
        /\ c \in {"addCustomRules", "deleteCustomRules"} /\ ~LeftOut(c) => custom
    BY <1>2 DEF LeftOut
  <2>5. CASE net' = net /\ failed' = failed \cup {c}
    BY <2>1, <2>2, <2>3, <2>5 DEF Undone
  <2>6. CASE net' = net /\ failed' = failed /\ LeftOut(c)
    BY <2>1, <2>2, <2>3, <2>4, <2>6 DEF Undone
  <2>7. CASE failed' = failed /\ ~LeftOut(c)
    BY <1>2, <2>1, <2>2, <2>3, <2>4, <2>7 DEF Undone, Less1
  <2> QED
    BY <2>3, <2>5, <2>6, <2>7
<1> QED
  BY <1>3, <1>4, <1>5 DEF Counted
LEMMA CommandSwitched ==
    ASSUME NEW c, RouteTypes, Switched, CommandStep(c)
    PROVE  Switched'
<1> SUFFICES ASSUME kills = 0
             PROVE  Switched'
  BY DEF Switched, CommandStep
<1>1. /\ "defaultToTun" \in ApplyNames /\ "defaultToGateway" \in CleanNames
      /\ "addServerRoute" \in ApplyNames /\ "deleteServerRoute" \in CleanNames
      /\ "resolvectlToVpn" \in ApplyNames /\ "resolvectlBack" \in CleanNames
      /\ "addIncludes" \in ApplyNames /\ "deleteIncludes" \in CleanNames
  BY DEF ApplyNames, CleanNames
<1>2. /\ "resolvectlBack" \in failed \/ linkSaved = "own"
      /\ linkSaved' = linkSaved /\ up' = up /\ givenOut' = givenOut /\ gateway6' = gateway6
      /\ alive' /\ failed \subseteq failed'
      /\ \A x : Ran(x)' <=> Ran(x) \/ x = c
  BY DEF CommandStep, Switched, Undone
<1>3. There("defaultToTun", "defaultToGateway")' \/ Undone("defaultToGateway", net.default = "gateway")'
  <2>1. There("defaultToTun", "defaultToGateway") \/ "defaultToGateway" \in failed \/ net.default = "gateway"
    BY DEF Switched, Undone
  <2>2. There("defaultToTun", "defaultToGateway")' <=> c = "defaultToTun" \/ (There("defaultToTun", "defaultToGateway") /\ c # "defaultToGateway")
    BY <1>1 DEF CommandStep
  <2>3. LeftOut(c) => c # "defaultToTun" /\ c # "defaultToGateway"
    BY DEF LeftOut
  <2>4. \/ failed' = failed /\ net'.default = IF c = "defaultToTun" THEN "tun"
                                            ELSE IF c = "defaultToGateway" THEN "gateway"
                                            ELSE net.default
        \/ net' = net /\ failed' = failed \cup {c}
        \/ net' = net /\ failed' = failed /\ LeftOut(c)
    BY DEF CommandStep, Makes
  <2> QED
    BY <1>2, <2>1, <2>2, <2>3, <2>4 DEF Undone
<1>4. There("addServerRoute", "deleteServerRoute")' \/ Undone("deleteServerRoute", ~net.server)'
  <2>1. There("addServerRoute", "deleteServerRoute") \/ "deleteServerRoute" \in failed \/ ~net.server
    BY DEF Switched, Undone
  <2>2. There("addServerRoute", "deleteServerRoute")' <=> c = "addServerRoute" \/ (There("addServerRoute", "deleteServerRoute") /\ c # "deleteServerRoute")
    BY <1>1 DEF CommandStep
  <2>3. LeftOut(c) => c # "addServerRoute" /\ c # "deleteServerRoute"
    BY DEF LeftOut
  <2>4. \/ failed' = failed /\ net'.server = IF c = "addServerRoute" THEN TRUE
                                           ELSE IF c = "deleteServerRoute" THEN FALSE
                                           ELSE net.server
        \/ net' = net /\ failed' = failed \cup {c}
        \/ net' = net /\ failed' = failed /\ LeftOut(c)
    BY DEF CommandStep, Makes
  <2> QED
    BY <1>2, <2>1, <2>2, <2>3, <2>4 DEF Undone
<1>5. There("resolvectlToVpn", "resolvectlBack")' \/ Undone("resolvectlBack", net.link = "own")'
  <2>1. There("resolvectlToVpn", "resolvectlBack") \/ "resolvectlBack" \in failed \/ net.link = "own"
    BY DEF Switched, Undone
  <2>2. There("resolvectlToVpn", "resolvectlBack")' <=> c = "resolvectlToVpn" \/ (There("resolvectlToVpn", "resolvectlBack") /\ c # "resolvectlBack")
    BY <1>1 DEF CommandStep
  <2>3. LeftOut(c) => c # "resolvectlToVpn" /\ c # "resolvectlBack"
    BY DEF LeftOut
  <2>4. \/ failed' = failed /\ net'.link = IF c = "resolvectlToVpn" THEN "vpn"
                                         ELSE IF c = "resolvectlBack" THEN linkSaved
                                         ELSE net.link
        \/ net' = net /\ failed' = failed \cup {c}
        \/ net' = net /\ failed' = failed /\ LeftOut(c)
    BY DEF CommandStep, Makes
  <2> QED
    BY <1>2, <2>1, <2>2, <2>3, <2>4 DEF Undone
<1>6. There("addIncludes", "deleteIncludes")' \/ Undone("deleteIncludes", ~net.includes)'
  <2>1. There("addIncludes", "deleteIncludes") \/ "deleteIncludes" \in failed \/ ~net.includes
    BY DEF Switched, Undone
  <2>2. There("addIncludes", "deleteIncludes")' <=> c = "addIncludes" \/ (There("addIncludes", "deleteIncludes") /\ c # "deleteIncludes")
    BY <1>1 DEF CommandStep
  <2>3. LeftOut(c) => c # "addIncludes" /\ c # "deleteIncludes"
    BY DEF LeftOut
  <2>4. \/ failed' = failed /\ net'.includes = IF c = "addIncludes" THEN TRUE
                                             ELSE IF c = "deleteIncludes" THEN FALSE
                                             ELSE net.includes
        \/ net' = net /\ failed' = failed \cup {c}
        \/ net' = net /\ failed' = failed /\ LeftOut(c)
    BY DEF CommandStep, Makes
  <2> QED
    BY <1>2, <2>1, <2>2, <2>3, <2>4 DEF Undone
<1>7. ~up => c # "addExcludes" /\ c # "addTun6"
  BY DEF CommandStep, CleanNames
<1>8. givenOut' /\ ~up' /\ Ran("deleteExcludes")' => Undone("deleteExcludes", ~net.excludes)'
  <2>1. givenOut /\ ~up /\ Ran("deleteExcludes") => "deleteExcludes" \in failed \/ ~net.excludes
    BY DEF Switched, Undone
  <2>2. LeftOut(c) => c # "deleteExcludes"
    BY DEF LeftOut
  <2>3. \/ /\ failed' = failed
           /\ net'.excludes = IF c = "addExcludes" THEN TRUE
                              ELSE IF c = "deleteExcludes" THEN net.excludes /\ ~givenOut
                              ELSE net.excludes
        \/ net' = net /\ failed' = failed \cup {c}
        \/ net' = net /\ failed' = failed /\ LeftOut(c)
    BY DEF CommandStep, Makes
  <2> QED
    BY <1>2, <1>7, <2>1, <2>2, <2>3 DEF Undone
<1>9. gateway6' /\ ~up' /\ Ran("deleteTun6")' => Undone("deleteTun6", ~net.tun6)'
  <2>1. gateway6 /\ ~up /\ Ran("deleteTun6") => "deleteTun6" \in failed \/ ~net.tun6
    BY DEF Switched, Undone
  <2>2. gateway6 /\ LeftOut(c) => c # "deleteTun6"
    BY DEF LeftOut
  <2>3. \/ /\ failed' = failed
           /\ net'.tun6 = IF c = "addTun6" THEN TRUE
                          ELSE IF c = "deleteTun6" THEN FALSE
                          ELSE net.tun6
        \/ net' = net /\ failed' = failed \cup {c}
        \/ net' = net /\ failed' = failed /\ LeftOut(c)
    BY DEF CommandStep, Makes
  <2> QED
    BY <1>2, <1>7, <2>1, <2>2, <2>3 DEF Undone
<1>10. Undone("resolvectlBack", linkSaved = "own")'
  BY <1>2 DEF Undone
<1> QED
  BY <1>2, <1>3, <1>4, <1>5, <1>6, <1>8, <1>9, <1>10 DEF Switched

LEMMA CommandNamed ==
    ASSUME NEW c, RouteTypes, Named, CommandStep(c)
    PROVE  Named'
<1> SUFFICES ASSUME kills = 0
             PROVE  Named'
  BY DEF Named, CommandStep
<1>1. /\ "nameVpnDns" \in ApplyNames /\ "unnameVpnDns" \in CleanNames
      /\ "nameCustomDns" \in ApplyNames /\ "unnameCustomDns" \in CleanNames
      /\ ~up => c # "backUpResolv"
  BY DEF CommandStep, ApplyNames, CleanNames
<1>2. /\ up' = up /\ custom' = custom /\ custom \in BOOLEAN
      /\ \A x : Ran(x)' <=> Ran(x) \/ x = c
  BY DEF CommandStep, RouteTypes
<1>3. \/ /\ failed' = failed /\ ~LeftOut(c)
         /\ net'.resolv = IF c = "nameVpnDns" THEN net.resolv \cup {"vpn"}
                          ELSE IF c = "nameCustomDns" THEN net.resolv \cup {"custom"}
                          ELSE IF c = "unnameVpnDns" THEN net.resolv \ {"vpn"}
                          ELSE IF c = "unnameCustomDns" THEN net.resolv \ {"custom"}
                          ELSE net.resolv
         /\ net'.backup = IF c = "backUpResolv" /\ net.backup = NoBackup THEN net.resolv
                          ELSE IF c = "deleteBackup" THEN NoBackup
                          ELSE net.backup
      \/ net' = net /\ failed' = failed \cup {c}
      \/ net' = net /\ failed' = failed /\ LeftOut(c)
  BY DEF CommandStep, Makes
<1>4. "original" \in net'.resolv
  BY <1>3 DEF Named
<1>5. There("nameVpnDns", "unnameVpnDns")' \/ Undone("unnameVpnDns", "vpn" \notin net.resolv)'
  <2>1. There("nameVpnDns", "unnameVpnDns") \/ "unnameVpnDns" \in failed
           \/ "vpn" \notin net.resolv
    BY DEF Named, Undone
  <2>2. There("nameVpnDns", "unnameVpnDns")'
           <=> c = "nameVpnDns" \/ (There("nameVpnDns", "unnameVpnDns") /\ c # "unnameVpnDns")
    BY <1>1 DEF CommandStep
  <2>3. LeftOut(c) => c # "nameVpnDns" /\ c # "unnameVpnDns"
    BY DEF LeftOut
  <2> QED
    BY <1>3, <2>1, <2>2, <2>3 DEF Undone
<1>6. (custom /\ There("nameCustomDns", "unnameCustomDns"))'
         \/ Undone("unnameCustomDns", "custom" \notin net.resolv)'
  <2>1. (custom /\ There("nameCustomDns", "unnameCustomDns")) \/ "unnameCustomDns" \in failed
           \/ "custom" \notin net.resolv
    BY DEF Named, Undone
  <2>2. There("nameCustomDns", "unnameCustomDns")'
           <=> \/ c = "nameCustomDns"
               \/ There("nameCustomDns", "unnameCustomDns") /\ c # "unnameCustomDns"
    BY <1>1 DEF CommandStep
  <2>3. /\ LeftOut(c) => ~custom \/ (c # "nameCustomDns" /\ c # "unnameCustomDns")
        /\ c = "nameCustomDns" /\ ~LeftOut(c) => custom
    BY <1>2 DEF LeftOut
  <2>4. CASE net' = net /\ failed' = failed \cup {c}
    BY <1>2, <2>1, <2>2, <2>4 DEF Undone
  <2>5. CASE net' = net /\ failed' = failed /\ LeftOut(c)
    BY <1>2, <2>1, <2>2, <2>3, <2>5 DEF Undone
  <2>6. CASE failed' = failed /\ ~LeftOut(c)
    BY <1>2, <1>3, <2>1, <2>2, <2>3, <2>6 DEF Undone
  <2> QED
    BY <1>3, <2>4, <2>5, <2>6
<1>7. ~up' /\ Ran("deleteBackup")' => Undone("deleteBackup", net.backup = NoBackup)'
  <2>1. ~up /\ Ran("deleteBackup") => "deleteBackup" \in failed \/ net.backup = NoBackup
    BY DEF Named, Undone
  <2>2. LeftOut(c) => c # "deleteBackup"
    BY DEF LeftOut
  <2> QED
    BY <1>1, <1>2, <1>3, <2>1, <2>2 DEF Undone
<1> QED
  BY <1>4, <1>5, <1>6, <1>7 DEF Named

LEMMA CommandHosted ==
    ASSUME NEW c, RouteTypes, Hosted, CommandStep(c)
    PROVE  Hosted'
<1> SUFFICES ASSUME kills = 0, ~raced
             PROVE  Hosted'
  BY DEF Hosted, CommandStep
<1>1. \/ "deleteDnsRoutes" \in failed
      \/ /\ Excluding(net.hosts) \subseteq dnsRoutes
         /\ Excluding(net.hosts) \cap adding = {}
  BY DEF Hosted, Undone
<1>2. \/ /\ failed' = failed
         /\ net'.hosts = IF c = "deleteDnsRoutes" THEN net.hosts \ Excluding(dnsRoutes)
                         ELSE net.hosts
      \/ net' = net /\ failed' = failed \cup {c}
      \/ net' = net /\ failed' = failed /\ c # "deleteDnsRoutes"
  BY DEF CommandStep, Makes, LeftOut
<1>3. /\ dnsRoutes' = IF c = "deleteDnsRoutes" THEN {} ELSE dnsRoutes
      /\ adding' = adding
  BY DEF CommandStep
<1>4. CASE "deleteDnsRoutes" \in failed'
  BY <1>4 DEF Hosted, Undone
<1>5. CASE "deleteDnsRoutes" \notin failed'
  <2>1. CASE c = "deleteDnsRoutes"
    BY <1>1, <1>2, <1>3, <1>5, <2>1 DEF Hosted, Undone, Excluding
  <2>2. CASE c # "deleteDnsRoutes"
    BY <1>1, <1>2, <1>3, <1>5, <2>2 DEF Hosted, Undone
  <2> QED
    BY <2>1, <2>2
<1> QED
  BY <1>4, <1>5

LEMMA CommandBackedUp ==
    ASSUME NEW c, RouteTypes, BackedUp, CommandStep(c)
    PROVE  BackedUp'
<1> SUFFICES ASSUME ~custom, failed' \cap Trouble = {}
             PROVE  BackedUp'
  BY DEF BackedUp, CommandStep
<1>1. /\ failed \cap Trouble = {} /\ up' = up /\ alive /\ alive'
      /\ \A x : Ran(x)' <=> Ran(x) \/ x = c
      /\ up /\ c = "nameVpnDns" => Ran("backUpResolv")
      /\ ~up /\ c = "deleteBackup" => Ran("unnameVpnDns")
  BY DEF CommandStep
<1>2. \/ /\ net'.resolv = IF c = "nameVpnDns" THEN net.resolv \cup {"vpn"}
                            ELSE IF c = "unnameVpnDns" THEN net.resolv \ {"vpn"}
                            ELSE net.resolv
         /\ net'.backup = IF c = "backUpResolv" /\ net.backup = NoBackup THEN net.resolv
                          ELSE IF c = "deleteBackup" THEN NoBackup
                          ELSE net.backup
      \/ net' = net /\ c # "backUpResolv" /\ c # "unnameVpnDns"
  <2>1. CASE Makes(c, net, net') /\ ~LeftOut(c)
    <3>1. c # "nameCustomDns" /\ c # "unnameCustomDns"
      BY <2>1 DEF LeftOut
    <3> QED
      BY <2>1, <3>1 DEF Makes
  <2>2. CASE net' = net /\ LeftOut(c)
    BY <2>2 DEF LeftOut
  <2>3. CASE net' = net /\ failed' = failed \cup {c}
    BY <2>3 DEF Trouble
  <2> QED
    BY <2>1, <2>2, <2>3 DEF CommandStep
<1>3. IF up THEN c # "unnameVpnDns" /\ c # "deleteBackup"
      ELSE c # "nameVpnDns" /\ c # "backUpResolv"
  BY DEF CommandStep, ApplyNames, CleanNames
<1>4. CASE up
  BY <1>1, <1>2, <1>3, <1>4, Names DEF BackedUp
<1>5. CASE ~up
  BY <1>1, <1>2, <1>3, <1>5, Names DEF BackedUp
<1> QED
  BY <1>4, <1>5

LEMMA CommandKeeps == RouteInv /\ RunCommand => RouteInv'
<1> SUFFICES ASSUME RouteInv, RunCommand
             PROVE  RouteInv'
  OBVIOUS
<1>1. PICK c : CommandStep(c)
  BY CommandSteps
<1> QED
  BY <1>1, CommandSteps, CommandCounted, CommandSwitched, CommandNamed, CommandHosted,
     CommandBackedUp DEF RouteInv

LEMMA ApplyKeeps == RouteInv /\ ApplyRoutes => RouteInv'
<1> SUFFICES ASSUME RouteInv, ApplyRoutes
             PROVE  RouteInv'
  OBVIOUS
<1> USE DEF RouteInv
<1>1. /\ alive /\ up = FALSE /\ ran = Len(Commands) /\ up' = TRUE /\ ran' = 0 /\ applied' = TRUE
      /\ linkSaved' = net.link /\ gateway6' \in BOOLEAN /\ net' = net /\ alive' = alive
      /\ custom' = custom /\ givenOut' = givenOut /\ given6' = given6
      /\ dnsRoutes' = dnsRoutes /\ adding' = adding /\ failed' = failed
      /\ kills' = kills /\ raced' = raced
  BY DEF ApplyRoutes, ListDone, config, RouteTypes
<1>2. \A d \in CleanNames : Ran(d)
  BY <1>1, Ended
<1>3. \A a \in ApplyNames, d \in CleanNames : ~There(a, d)
  BY <1>1, <1>2 DEF There
<1>4. RouteTypes'
  <2>1. net.link \in {"own", "vpn"} /\ ran' \in 0..13
    BY <1>1 DEF RouteTypes, NetType
  <2> QED
    BY <1>1, <2>1 DEF RouteTypes
<1>5. Counted'
  <2>1. /\ ~There("addForwardRules", "deleteForwardRules")
        /\ ~There("addDnsRules", "deleteDnsRules")
        /\ ~There("addCustomRules", "deleteCustomRules")
    BY <1>3 DEF ApplyNames, CleanNames
  <2> QED
    BY <1>1, <2>1 DEF Counted, Undone
<1>6. Switched'
  <2>1. /\ ~There("defaultToTun", "defaultToGateway")
        /\ ~There("addServerRoute", "deleteServerRoute")
        /\ ~There("resolvectlToVpn", "resolvectlBack")
        /\ ~There("addIncludes", "deleteIncludes")
    BY <1>3 DEF ApplyNames, CleanNames
  <2> QED
    BY <1>1, <2>1 DEF Switched, Undone
<1>7. Named'
  <2>1. ~There("nameVpnDns", "unnameVpnDns") /\ ~There("nameCustomDns", "unnameCustomDns")
    BY <1>3 DEF ApplyNames, CleanNames
  <2> QED
    BY <1>1, <2>1 DEF Named, Undone
<1>8. Hosted'
  BY <1>1 DEF Hosted, Undone
<1>9. BackedUp'
  <2>1. Ran("unnameVpnDns") /\ ~Ran("backUpResolv")'
    BY <1>1, <1>2, Begun DEF CleanNames
  <2> QED
    BY <1>1, <2>1 DEF BackedUp
<1> QED
  BY <1>4, <1>5, <1>6, <1>7, <1>8, <1>9

LEMMA CleanKeeps == RouteInv /\ CleanRoutes => RouteInv'
<1> SUFFICES ASSUME RouteInv, CleanRoutes
             PROVE  RouteInv'
  OBVIOUS
<1> USE DEF RouteInv
<1>1. /\ alive /\ up = TRUE /\ ran = Len(Commands) /\ up' = FALSE /\ ran' = 0
      /\ applied' = applied /\ linkSaved' = linkSaved /\ gateway6' = gateway6
      /\ net' = net /\ alive' = alive
      /\ custom' = custom /\ givenOut' = givenOut /\ given6' = given6
      /\ dnsRoutes' = dnsRoutes /\ adding' = adding /\ failed' = failed
      /\ kills' = kills /\ raced' = raced
  BY DEF CleanRoutes, ListDone, config, detected, RouteTypes
<1>2. \A a \in ApplyNames : Ran(a)
  BY <1>1, Ended
<1>3. \A c : ~Ran(c)'
  BY <1>1, Begun
<1>4. \A a, d : There(a, d)'
  BY <1>1, <1>3 DEF There
<1>5. RouteTypes'
  <2>1. ran' \in 0..13
    BY <1>1
  <2> QED
    BY <1>1, <2>1 DEF RouteTypes
<1>6. Counted'
  <2>1. There("addCustomRules", "deleteCustomRules")'
    BY <1>4
  <2>2. There("addForwardRules", "deleteForwardRules")' /\ There("addDnsRules", "deleteDnsRules")'
    BY <1>4
  <2> QED
    BY <1>1, <2>1, <2>2 DEF Counted, Undone
<1>7. Switched'
  BY <1>1, <1>3, <1>4 DEF Switched, Undone
<1>8. Named'
  BY <1>1, <1>3, <1>4 DEF Named, Undone
<1>9. Hosted'
  BY <1>1 DEF Hosted, Undone
<1>10. BackedUp'
  <2>1. Ran("backUpResolv")
    BY <1>2 DEF ApplyNames
  <2> QED
    BY <1>1, <1>3, <2>1 DEF BackedUp
<1> QED
  BY <1>5, <1>6, <1>7, <1>8, <1>9, <1>10

(* What is unchanged with the list.                                        *)
LEMMA SameList ==
    ASSUME ran' = ran, up' = up
    PROVE  /\ \A c : Ran(c)' <=> Ran(c)
           /\ \A a, d : There(a, d)' <=> There(a, d)
BY DEF Ran, There, Commands, ApplyCommands, CleanCommands

LEMMA RecordKeeps ==
    ASSUME NEW e \in RouteEntries, RouteInv, AddDnsRoute(e)
    PROVE  RouteInv'
<1> USE DEF RouteInv
<1>1. /\ ran' = ran /\ up' = up /\ net' = net /\ alive' = alive
      /\ custom' = custom /\ givenOut' = givenOut /\ given6' = given6
      /\ gateway6' = gateway6 /\ applied' = applied /\ linkSaved' = linkSaved
      /\ failed' = failed /\ kills' = kills /\ raced' = raced
      /\ e \notin dnsRoutes /\ dnsRoutes' = dnsRoutes \cup {e} /\ adding' = {e}
  BY DEF AddDnsRoute, config, detected
<1>2. RouteTypes'
  BY <1>1 DEF RouteTypes
<1>3. Counted' /\ Switched' /\ Named' /\ BackedUp'
  BY <1>1, SameList DEF Counted, Switched, Named, BackedUp, Undone
<1>4. Hosted'
  BY <1>1 DEF Hosted, Undone
<1> QED
  BY <1>2, <1>3, <1>4

(* Of the system only the part named changes.                              *)
LEMMA HostsOnly ==
    ASSUME RouteTypes, NEW E \in SUBSET RouteEntries, net' = [net EXCEPT !.hosts = E]
    PROVE  /\ net' \in NetType /\ net'.hosts = E
           /\ net'.forward = net.forward /\ net'.dns = net.dns
           /\ net'.customRules = net.customRules /\ net'.default = net.default
           /\ net'.tun6 = net.tun6 /\ net'.server = net.server /\ net'.link = net.link
           /\ net'.resolv = net.resolv /\ net'.backup = net.backup
           /\ net'.excludes = net.excludes /\ net'.includes = net.includes
BY DEF RouteTypes, NetType

LEMMA AddRouteKeeps == RouteInv /\ AddRouteToSystem => RouteInv'
<1> SUFFICES ASSUME RouteInv, AddRouteToSystem
             PROVE  RouteInv'
  OBVIOUS
<1> USE DEF RouteInv
<1>1. /\ ran' = ran /\ up' = up /\ alive' = alive
      /\ custom' = custom /\ givenOut' = givenOut /\ given6' = given6
      /\ gateway6' = gateway6 /\ applied' = applied /\ linkSaved' = linkSaved
      /\ failed' = failed /\ kills' = kills /\ adding' = {}
  BY DEF AddRouteToSystem, config, detected
<1>2. \/ /\ net' = [net EXCEPT !.hosts = net.hosts \cup adding]
         /\ raced' = (raced \/ ~(adding \subseteq dnsRoutes)) /\ dnsRoutes' = dnsRoutes
      \/ net' = net /\ raced' = raced /\ dnsRoutes' = dnsRoutes
      \/ net' = net /\ raced' = raced /\ dnsRoutes' = dnsRoutes \ adding
  BY DEF AddRouteToSystem
<1>3. /\ net.hosts \cup adding \in SUBSET RouteEntries
      /\ net \in NetType
  BY DEF RouteTypes, NetType
<1>4. /\ net' \in NetType
      /\ net'.forward = net.forward /\ net'.dns = net.dns
      /\ net'.customRules = net.customRules /\ net'.default = net.default
      /\ net'.tun6 = net.tun6 /\ net'.server = net.server /\ net'.link = net.link
      /\ net'.resolv = net.resolv /\ net'.backup = net.backup
      /\ net'.excludes = net.excludes /\ net'.includes = net.includes
      /\ \/ /\ net'.hosts = net.hosts \cup adding
            /\ raced' = (raced \/ ~(adding \subseteq dnsRoutes)) /\ dnsRoutes' = dnsRoutes
         \/ net'.hosts = net.hosts /\ raced' = raced /\ dnsRoutes' = dnsRoutes
         \/ net'.hosts = net.hosts /\ raced' = raced /\ dnsRoutes' = dnsRoutes \ adding
  <2>1. CASE /\ net' = net /\ raced' = raced
             /\ dnsRoutes' = dnsRoutes \/ dnsRoutes' = dnsRoutes \ adding
    BY <1>3, <2>1
  <2>2. CASE /\ net' = [net EXCEPT !.hosts = net.hosts \cup adding]
             /\ raced' = (raced \/ ~(adding \subseteq dnsRoutes)) /\ dnsRoutes' = dnsRoutes
    BY <1>3, <2>2, HostsOnly
  <2> QED
    BY <1>2, <2>1, <2>2
<1>5. RouteTypes'
  BY <1>1, <1>4 DEF RouteTypes
<1>6. Counted' /\ Switched' /\ Named' /\ BackedUp'
  <2>1. Counted'
    BY <1>1, <1>4, SameList DEF Counted, Undone
  <2>2. Switched'
    BY <1>1, <1>4, SameList DEF Switched, Undone
  <2>3. Named'
    BY <1>1, <1>4, SameList DEF Named, Undone
  <2>4. BackedUp'
    BY <1>1, <1>4, SameList DEF BackedUp
  <2> QED
    BY <2>1, <2>2, <2>3, <2>4
<1>7. Hosted'
  <2> SUFFICES ASSUME kills = 0, ~raced', "deleteDnsRoutes" \notin failed
               PROVE  Excluding(net'.hosts) \subseteq dnsRoutes'
    BY <1>1 DEF Hosted, Undone
  <2>1. ~raced
    BY <1>4
  <2>2. /\ Excluding(net.hosts) \subseteq dnsRoutes
        /\ Excluding(net.hosts) \cap adding = {}
    BY <2>1 DEF Hosted, Undone
  <2>3. Excluding(net.hosts \cup adding) \subseteq Excluding(net.hosts) \cup adding
    BY DEF Excluding
  <2> QED
    BY <1>4, <2>2, <2>3
<1> QED
  BY <1>5, <1>6, <1>7

LEMMA KillKeeps == RouteInv /\ Kill => RouteInv'
<1> SUFFICES ASSUME RouteInv, Kill
             PROVE  RouteInv'
  OBVIOUS
<1> USE DEF RouteInv
<1>1. /\ alive' = FALSE /\ up' = FALSE /\ ran' = 13 /\ kills' = kills + 1
      /\ gateway6' = FALSE /\ applied' = FALSE /\ dnsRoutes' = {} /\ adding' = {}
      /\ custom' = custom /\ givenOut' = givenOut /\ given6' = given6
      /\ linkSaved' = linkSaved /\ failed' = failed /\ raced' = raced
  BY Lists DEF Kill, config
<1>2. /\ net' \in NetType
      /\ net'.resolv = net.resolv /\ net'.backup = net.backup
  <2> DEFINE D == IF net.default = "tun" THEN "none" ELSE net.default
             E == Excluding(net.hosts)
  <2>1. D \in {"gateway", "tun", "none"} /\ E \in SUBSET RouteEntries
    BY DEF RouteTypes, NetType, Excluding
  <2>2. net' = [net EXCEPT !.default = D, !.tun6 = FALSE, !.includes = FALSE, !.hosts = E]
    BY DEF Kill
  <2> HIDE DEF D, E
  <2> QED
    BY <2>1, <2>2 DEF RouteTypes, NetType
<1>3. RouteTypes'
  <2>1. kills' \in Nat /\ kills' # 0 /\ ran' \in 0..13
    BY <1>1 DEF RouteTypes
  <2>2. /\ custom \in BOOLEAN /\ givenOut \in BOOLEAN /\ given6 \in BOOLEAN
        /\ linkSaved \in {"own", "vpn"} /\ raced \in BOOLEAN
    BY DEF RouteTypes
  <2> QED
    BY <1>1, <1>2, <2>1, <2>2, Zenon DEF RouteTypes
<1>4. Counted' /\ Switched' /\ Named' /\ Hosted'
  <2>1. kills' # 0
    BY <1>1 DEF RouteTypes
  <2> QED
    BY <2>1 DEF Counted, Switched, Named, Hosted
<1>5. BackedUp'
  BY <1>1, <1>2 DEF BackedUp
<1> QED
  BY <1>3, <1>4, <1>5

LEMMA HealKeeps == RouteInv /\ HealStaleResolvConf => RouteInv'
<1> SUFFICES ASSUME RouteInv, HealStaleResolvConf
             PROVE  RouteInv'
  OBVIOUS
<1> USE DEF RouteInv
<1>1. /\ ~alive /\ alive' = TRUE /\ ran' = ran /\ up' = up
      /\ custom' = custom /\ givenOut' = givenOut /\ given6' = given6
      /\ gateway6' = gateway6 /\ applied' = applied /\ linkSaved' = linkSaved
      /\ dnsRoutes' = dnsRoutes /\ adding' = adding /\ kills' = kills /\ raced' = raced
  BY DEF HealStaleResolvConf, config, detected
<1>2. /\ net' \in NetType
      /\ \/ /\ net'.resolv = IF net.backup = NoBackup THEN net.resolv ELSE net.backup
            /\ net'.backup = NoBackup /\ failed' = failed
         \/ "restoreResolv" \in failed'
  BY DEF HealStaleResolvConf, Fails, RouteTypes, NetType, NoBackup
<1>3. RouteTypes'
  BY <1>1, <1>2 DEF RouteTypes
<1>4. Counted' /\ Switched' /\ Named' /\ Hosted'
  <2>1. kills' # 0
    BY <1>1 DEF Switched
  <2> QED
    BY <2>1 DEF Counted, Switched, Named, Hosted
<1>5. BackedUp'
  <2>1. ~custom' /\ failed' \cap Trouble = {} =>
           ~custom /\ failed \cap Trouble = {} /\ failed' = failed
           /\ net'.backup = NoBackup
           /\ net'.resolv = IF net.backup = NoBackup THEN net.resolv ELSE net.backup
    BY <1>1, <1>2 DEF Trouble
  <2>2. ~up' /\ Ran("unnameVpnDns")'
    <3>1. up = FALSE /\ ran = Len(Commands)
      BY <1>1, Lists DEF RouteTypes, Commands
    <3> QED
      BY <1>1, <3>1, Ended, SameList DEF CleanNames
  <2> QED
    BY <2>1, <2>2, Names DEF BackedUp
<1> QED
  BY <1>3, <1>4, <1>5

LEMMA RenewKeeps == RouteInv /\ RenewDefaultRoute => RouteInv'
<1> SUFFICES ASSUME RouteInv, RenewDefaultRoute
             PROVE  RouteInv'
  OBVIOUS
<1> USE DEF RouteInv
<1>1. /\ ran' = ran /\ up' = up /\ alive' = alive
      /\ custom' = custom /\ givenOut' = givenOut /\ given6' = given6
      /\ gateway6' = gateway6 /\ applied' = applied /\ linkSaved' = linkSaved
      /\ dnsRoutes' = dnsRoutes /\ adding' = adding /\ failed' = failed
      /\ kills' = kills /\ raced' = raced
  BY DEF RenewDefaultRoute, config, detected
<1>2. /\ net' \in NetType /\ net'.default = "gateway"
      /\ net'.forward = net.forward /\ net'.dns = net.dns
      /\ net'.customRules = net.customRules /\ net'.hosts = net.hosts
      /\ net'.tun6 = net.tun6 /\ net'.server = net.server /\ net'.link = net.link
      /\ net'.resolv = net.resolv /\ net'.backup = net.backup
      /\ net'.excludes = net.excludes /\ net'.includes = net.includes
  BY DEF RenewDefaultRoute, RouteTypes, NetType
<1>3. RouteTypes'
  BY <1>1, <1>2 DEF RouteTypes
<1>4. Counted'
  BY <1>1, <1>2, SameList DEF Counted, Undone
<1>5. Switched'
  BY <1>1, <1>2, SameList DEF Switched, Undone
<1>6. Named' /\ Hosted'
  BY <1>1, <1>2, SameList DEF Named, Hosted, Undone
<1>7. BackedUp'
  BY <1>1, <1>2, SameList DEF BackedUp
<1> QED
  BY <1>3, <1>4, <1>5, <1>6, <1>7

LEMMA RouteStep == RouteInv /\ [RouteNext]_routeVars => RouteInv'
<1> SUFFICES ASSUME RouteInv, [RouteNext]_routeVars
             PROVE  RouteInv'
  OBVIOUS
<1>1. CASE UNCHANGED routeVars
  <2>1. /\ ran' = ran /\ up' = up /\ alive' = alive /\ net' = net
        /\ custom' = custom /\ givenOut' = givenOut /\ given6' = given6
        /\ gateway6' = gateway6 /\ applied' = applied /\ linkSaved' = linkSaved
        /\ dnsRoutes' = dnsRoutes /\ adding' = adding /\ failed' = failed
        /\ kills' = kills /\ raced' = raced
    BY <1>1 DEF routeVars, config, detected
  <2>2. RouteTypes' /\ Counted' /\ Switched'
    BY <2>1, SameList DEF RouteInv, RouteTypes, Counted, Switched, Undone
  <2>3. Named' /\ Hosted' /\ BackedUp'
    BY <2>1, SameList DEF RouteInv, Named, Hosted, BackedUp, Undone
  <2> QED
    BY <2>2, <2>3 DEF RouteInv
<1>2. CASE ApplyRoutes
  BY <1>2, ApplyKeeps
<1>3. CASE CleanRoutes
  BY <1>3, CleanKeeps
<1>4. CASE RunCommand
  BY <1>4, CommandKeeps
<1>5. CASE AddRouteToSystem
  BY <1>5, AddRouteKeeps
<1>6. CASE Kill
  BY <1>6, KillKeeps
<1>7. CASE HealStaleResolvConf
  BY <1>7, HealKeeps
<1>8. CASE RenewDefaultRoute
  BY <1>8, RenewKeeps
<1>9. CASE \E e \in RouteEntries : AddDnsRoute(e)
  BY <1>9, RecordKeeps
<1> QED
  BY <1>1, <1>2, <1>3, <1>4, <1>5, <1>6, <1>7, <1>8, <1>9 DEF RouteNext

(* Wherever in Apply or Clean the process is killed, however often, and    *)
(* whatever else fails, the system's resolv.conf can be had back, as       *)
(* ResolvConfRecoverable says.                                             *)
THEOREM ResolvConfIsSafe == RouteSpec => []ResolvConfRecoverable
<1>1. RouteInv => ResolvConfRecoverable
  <2> SUFFICES ASSUME RouteInv
               PROVE  ResolvConfRecoverable
    OBVIOUS
  <2>1. Settled => alive /\ ~up /\ Ran("unnameVpnDns")
    BY Ended DEF Settled, ListDone, CleanNames, RouteInv, RouteTypes
  <2> QED
    BY <2>1 DEF RouteInv, BackedUp, Trouble, ResolvConfRecoverable
<1> QED
  BY <1>1, RoutesInitially, RouteStep, PTL DEF RouteSpec

(* Clean takes back what Apply did, whichever commands failed, and every   *)
(* route to exclude that was added meanwhile, as CleanUndoes says; what it *)
(* leaves behind is named there.                                           *)
THEOREM CleanTakesBack == RouteSpec => []CleanUndoes
<1>1. RouteInv => CleanUndoes
  <2> SUFFICES ASSUME RouteInv, Settled, kills = 0
               PROVE  CleanUndoes
    BY DEF CleanUndoes
  <2>1. ~up /\ \A d \in CleanNames : Ran(d)
    BY Ended DEF Settled, ListDone, RouteInv, RouteTypes
  <2>2. /\ ~There("addForwardRules", "deleteForwardRules")
        /\ ~There("addDnsRules", "deleteDnsRules")
        /\ ~There("addCustomRules", "deleteCustomRules")
        /\ ~There("defaultToTun", "defaultToGateway")
        /\ ~There("addServerRoute", "deleteServerRoute")
        /\ ~There("resolvectlToVpn", "resolvectlBack")
        /\ ~There("addIncludes", "deleteIncludes")
        /\ ~There("nameVpnDns", "unnameVpnDns")
        /\ ~There("nameCustomDns", "unnameCustomDns")
    BY <2>1 DEF There, CleanNames
  <2>3. Ran("deleteBackup") /\ Ran("deleteExcludes") /\ Ran("deleteTun6")
    BY <2>1 DEF CleanNames
  <2>4. /\ Undone("deleteForwardRules", net.forward = 0)
        /\ Undone("deleteDnsRules", net.dns = 0)
        /\ Undone("deleteCustomRules", net.customRules = 0)
    BY <2>2 DEF RouteInv, Counted
  <2>5. /\ Undone("defaultToGateway", net.default = "gateway")
        /\ Undone("deleteServerRoute", ~net.server)
        /\ Undone("resolvectlBack", net.link = "own")
        /\ Undone("deleteIncludes", ~net.includes)
        /\ givenOut => Undone("deleteExcludes", ~net.excludes)
        /\ gateway6 => Undone("deleteTun6", ~net.tun6)
    BY <2>1, <2>2, <2>3 DEF RouteInv, Switched
  <2>6. /\ "original" \in net.resolv
        /\ Undone("unnameVpnDns", "vpn" \notin net.resolv)
        /\ Undone("unnameCustomDns", "custom" \notin net.resolv)
        /\ Undone("deleteBackup", net.backup = NoBackup)
    BY <2>1, <2>2, <2>3 DEF RouteInv, Named
  <2>7. ~raced => Undone("deleteDnsRoutes", Excluding(net.hosts) \subseteq dnsRoutes)
    BY DEF RouteInv, Hosted, Undone
  <2> QED
    BY <2>4, <2>5, <2>6, <2>7 DEF CleanUndoes
<1> QED
  BY <1>1, RoutesInitially, RouteStep, PTL DEF RouteSpec
=============================================================================
