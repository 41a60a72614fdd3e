--------------------------- MODULE AuthStoreProofs ---------------------------
(***************************************************************************)
(* Proofs about AuthStore, for every set of identifiers, names and request *)
(* slots. An invariant of users.json alone is not inductive: a request that*)
(* hashes writes back the file it read. What holds of the file has to hold *)
(* of every copy a request still holds (Sound), and what relates the file  *)
(* to the answers, of every copy that is still up to date (Current).       *)
(***************************************************************************)
EXTENDS AuthStore, FiniteSetTheorems, TLAPS

IsActiveAdmin(a) == a.role = "admin" /\ ~a.pending /\ a.active

EnabledHasSecret(file) ==
  \A i \in Accounts(file) : file[i].mfaEnabled => file[i].secret

Sound(file, excused, drawn) ==
  /\ file \in File
  /\ Unique(file)
  /\ EnabledHasSecret(file)
  /\ excused \/ ActiveAdmins(file) # {}
  /\ Accounts(file) \subseteq drawn

FilesSound ==
  /\ Sound(users, demoted, issued)
  /\ \A r \in Requests : waiting[r] # NoWrite => Sound(waiting[r].file, demoted, issued)

Adds(w) == IF w.op = "create" THEN {w.id} ELSE {}

Current(w) ==
  w.fresh =>
    /\ Accounts(w.file) = Accounts(users) \cup Adds(w)
    /\ Adds(w) \cap removed = {}

AnswersSound ==
  /\ AnswersStand
  /\ removed \subseteq issued
  /\ \A r \in Requests : waiting[r] # NoWrite => Current(waiting[r])

IInv == TypeOK /\ FilesSound /\ AnswersSound

-----------------------------------------------------------------------------
(***************************************************************************)
(* One account of a file changes                                           *)
(***************************************************************************)
LEMMA SetIsFile ==
  ASSUME NEW f \in File, NEW i \in Ids, NEW a \in Account \cup {NoAccount}
  PROVE  /\ [f EXCEPT ![i] = a] \in File
         /\ [f EXCEPT ![i] = a][i] = a
         /\ \A j \in Ids \ {i} : [f EXCEPT ![i] = a][j] = f[j]
BY DEF File

LEMMA SetAccounts ==
  ASSUME NEW f \in File, NEW i \in Ids, NEW a \in Account
  PROVE  Accounts([f EXCEPT ![i] = a]) = Accounts(f) \cup {i}
<1> DEFINE g == [f EXCEPT ![i] = a]
<1>1. a # NoAccount
  BY NoAccountAssumption
<1>2. g[i] = a /\ \A j \in Ids \ {i} : g[j] = f[j]
  BY DEF File
<1> HIDE DEF g
<1>3. Accounts(g) = Accounts(f) \cup {i}
  BY <1>1, <1>2 DEF Accounts
<1>4. QED
  BY <1>3 DEF g

LEMMA SetSound ==
  ASSUME NEW f, NEW d \in BOOLEAN, NEW s, Sound(f, d, s),
         NEW i \in Ids, NEW a \in Account,
         NEW e \in BOOLEAN, NEW t, d => e, s \subseteq t, i \in t,
         \A j \in Accounts(f) \ {i} : f[j].name # a.name,
         a.mfaEnabled => a.secret,
         i \in ActiveAdmins(f) => e \/ IsActiveAdmin(a)
  PROVE  Sound([f EXCEPT ![i] = a], e, t)
<1> DEFINE g == [f EXCEPT ![i] = a]
<1>0. f \in File
  BY DEF Sound
<1>1. /\ g \in File
      /\ g[i] = a
      /\ \A j \in Ids \ {i} : g[j] = f[j]
  BY <1>0, SetIsFile
<1>2. Accounts(g) = Accounts(f) \cup {i}
  BY <1>0, SetAccounts
<1>3. Accounts(f) \subseteq Ids
  BY DEF Accounts
<1> HIDE DEF g
<1>4. Unique(g)
  <2>1. \A j, k \in Accounts(f) : f[j].name = f[k].name => j = k
    BY DEF Sound, Unique
  <2> SUFFICES ASSUME NEW j \in Accounts(g), NEW k \in Accounts(g), g[j].name = g[k].name
               PROVE  j = k
    BY DEF Unique
  <2>2. CASE j = i \/ k = i
    BY <2>2, <1>1, <1>2, <1>3
  <2>3. CASE j # i /\ k # i
    BY <2>1, <2>3, <1>1, <1>2, <1>3
  <2>4. QED
    BY <2>2, <2>3
<1>5. EnabledHasSecret(g)
  BY <1>1, <1>2, <1>3 DEF EnabledHasSecret, Sound
<1>6. e \/ ActiveAdmins(g) # {}
  <2>1. CASE e
    BY <2>1
  <2>2. CASE ~e
    <3>1. PICK k \in ActiveAdmins(f) : TRUE
      BY <2>2 DEF Sound
    <3>2. k \in Accounts(f) /\ IsActiveAdmin(f[k])
      BY <3>1 DEF ActiveAdmins, IsActiveAdmin
    <3>3. k \in Accounts(g) /\ IsActiveAdmin(g[k])
      BY <2>2, <3>1, <3>2, <1>1, <1>2, <1>3
    <3>4. QED
      BY <3>3 DEF ActiveAdmins, IsActiveAdmin
  <2>3. QED
    BY <2>1, <2>2
<1>7. Accounts(g) \subseteq t
  BY <1>2 DEF Sound
<1>8. QED
  BY <1>1, <1>4, <1>5, <1>6, <1>7 DEF Sound, g

(***************************************************************************)
(* A file stays sound when administrators are demoted and identifiers drawn*)
(***************************************************************************)
LEMMA SoundGrows ==
  ASSUME NEW f, NEW d \in BOOLEAN, NEW s, Sound(f, d, s),
         NEW e \in BOOLEAN, NEW t, d => e, s \subseteq t
  PROVE  Sound(f, e, t)
BY DEF Sound

\* deleteUser leaves an active administrator: one it removes is not the last.
LEMMA DeleteSound ==
  ASSUME NEW d \in BOOLEAN, NEW s, Sound(users, d, s), NEW i \in Ids, Deletable(i)
  PROVE  /\ Sound(With(i, NoAccount), d, s)
         /\ Accounts(With(i, NoAccount)) = Accounts(users) \ {i}
<1> DEFINE g == With(i, NoAccount)
<1>1. /\ g \in File
      /\ g[i] = NoAccount
      /\ \A j \in Ids \ {i} : g[j] = users[j]
  BY SetIsFile DEF Sound, With
<1> HIDE DEF g
<1>2. Accounts(g) = Accounts(users) \ {i}
  BY <1>1 DEF Accounts
<1>3. Accounts(users) \subseteq Ids
  BY DEF Accounts
<1>4. Unique(g) /\ EnabledHasSecret(g)
  BY <1>1, <1>2, <1>3 DEF Sound, Unique, EnabledHasSecret
<1>5. ActiveAdmins(g) = ActiveAdmins(users) \ {i}
  BY <1>1, <1>2, <1>3 DEF ActiveAdmins
<1>6. ActiveAdmins(users) # {} => ActiveAdmins(g) # {}
  <2> SUFFICES ASSUME ActiveAdmins(users) # {}, ActiveAdmins(users) \subseteq {i}
               PROVE  FALSE
    BY <1>5
  <2>1. ActiveAdmins(users) = {i}
    OBVIOUS
  <2>2. Cardinality(ActiveAdmins(users)) > 1
    BY <2>1 DEF Deletable
  <2>3. Cardinality({i}) = 1
    BY FS_Singleton
  <2>4. QED
    BY <2>1, <2>2, <2>3
<1>7. QED
  BY <1>1, <1>2, <1>4, <1>6 DEF Sound, g

-----------------------------------------------------------------------------
(***************************************************************************)
(* What the three ways to touch the file do to the copies                  *)
(***************************************************************************)
\* Save makes every copy an old one and keeps the rest of it.
LEMMA SaveAgesCopies ==
  ASSUME TypeOK, NEW r \in Requests, waiting[r] # NoWrite
  PROVE  LET w == [waiting[r] EXCEPT !.fresh = FALSE]
         IN  w \in Write /\ w.file = waiting[r].file /\ ~w.fresh /\ w.op = waiting[r].op
<1>1. waiting[r] \in Write
  BY DEF TypeOK
<1>2. QED
  BY <1>1 DEF Write

LEMMA SaveSound ==
  ASSUME TypeOK, FilesSound, NEW file, Save(file),
         Sound(file, demoted', issued'),
         demoted' \in BOOLEAN, demoted => demoted', issued \subseteq issued'
  PROVE  /\ users' \in File
         /\ waiting' \in [Requests -> Write \cup {NoWrite}]
         /\ FilesSound'
         /\ \A r \in Requests : waiting'[r] # NoWrite => ~waiting'[r].fresh
<1>1. users' = file
  BY DEF Save
<1>2. ASSUME NEW r \in Requests
      PROVE  /\ waiting'[r] \in Write \cup {NoWrite}
             /\ waiting'[r] # NoWrite =>
                  waiting[r] # NoWrite /\ ~waiting'[r].fresh /\ waiting'[r].file = waiting[r].file
  BY SaveAgesCopies DEF Save
<1>3. waiting' = [r \in Requests |-> waiting'[r]]
  BY DEF Save
<1>4. waiting' \in [Requests -> Write \cup {NoWrite}]
  BY <1>2, <1>3
<1>5. ASSUME NEW r \in Requests, waiting'[r] # NoWrite
      PROVE  Sound(waiting'[r].file, demoted', issued')
  <2>1. Sound(waiting[r].file, demoted, issued)
    BY <1>2, <1>5 DEF FilesSound
  <2>2. demoted \in BOOLEAN
    BY DEF TypeOK
  <2>3. Sound(waiting[r].file, demoted', issued')
    BY <2>1, <2>2, SoundGrows
  <2>4. QED
    BY <2>3, <1>2, <1>5
<1>6. users' \in File
  BY <1>1 DEF Sound
<1>7. QED
  BY <1>1, <1>2, <1>4, <1>5, <1>6 DEF FilesSound

\* Hash adds a copy that is up to date.
LEMMA HashSound ==
  ASSUME TypeOK, FilesSound, NEW r \in Requests,
         NEW op \in {"create", "activate", "reset"}, NEW i \in Ids, NEW file,
         Hash(r, op, i, file), Sound(file, demoted, issued'),
         demoted' = demoted, issued \subseteq issued'
  PROVE  /\ waiting' \in [Requests -> Write \cup {NoWrite}]
         /\ FilesSound'
         /\ waiting'[r] = [op |-> op, id |-> i, file |-> file, fresh |-> TRUE]
         /\ \A s \in Requests \ {r} : waiting'[s] = waiting[s]
<1> DEFINE w == [op |-> op, id |-> i, file |-> file, fresh |-> TRUE]
<1>1. w \in Write
  BY DEF Sound, Write
<1>2. /\ waiting'[r] = w
      /\ \A s \in Requests \ {r} : waiting'[s] = waiting[s]
      /\ waiting' \in [Requests -> Write \cup {NoWrite}]
  BY <1>1 DEF Hash, TypeOK
<1>3. w.file = file
  OBVIOUS
<1> HIDE DEF w
<1>4. demoted \in BOOLEAN
  BY DEF TypeOK
<1>5. Sound(users', demoted', issued')
  BY <1>4, SoundGrows DEF Hash, FilesSound
<1>6. ASSUME NEW s \in Requests, waiting'[s] # NoWrite
      PROVE  Sound(waiting'[s].file, demoted', issued')
  <2>1. CASE s = r
    BY <2>1, <1>2, <1>3
  <2>2. CASE s # r
    <3>1. Sound(waiting[s].file, demoted, issued)
      BY <2>2, <1>2, <1>6 DEF FilesSound
    <3>2. Sound(waiting[s].file, demoted', issued')
      BY <3>1, <1>4, SoundGrows
    <3>3. QED
      BY <3>2, <2>2, <1>2
  <2>3. QED
    BY <2>1, <2>2
<1>7. QED
  BY <1>2, <1>5, <1>6 DEF FilesSound, w

-----------------------------------------------------------------------------
(***************************************************************************)
(* The invariant over the two kinds of step                                *)
(***************************************************************************)
LEMMA SavingStep ==
  ASSUME IInv, NEW file, Save(file), Sound(file, demoted', issued'),
         demoted' \in BOOLEAN, demoted => demoted',
         issued \subseteq issued', issued' \subseteq Ids,
         created' \subseteq Ids, removed' \subseteq issued',
         UNCHANGED <<sessions, overwritten>>,
         Accounts(users) = created \ removed => Accounts(file) = created' \ removed'
  PROVE  IInv'
<1>1. /\ users' \in File
      /\ waiting' \in [Requests -> Write \cup {NoWrite}]
      /\ FilesSound'
      /\ \A r \in Requests : waiting'[r] # NoWrite => ~waiting'[r].fresh
  BY SaveSound DEF IInv
<1>2. TypeOK'
  BY <1>1 DEF IInv, TypeOK
<1>3. AnswersStand'
  BY DEF IInv, AnswersSound, AnswersStand, Save
<1>4. AnswersSound'
  BY <1>1, <1>3 DEF AnswersSound, Current
<1>5. QED
  BY <1>1, <1>2, <1>4 DEF IInv

LEMMA HashingStep ==
  ASSUME IInv, NEW r \in Requests,
         NEW op \in {"create", "activate", "reset"}, NEW i \in Ids, NEW file,
         Hash(r, op, i, file), Sound(file, demoted, issued'),
         issued \subseteq issued', issued' \subseteq Ids,
         UNCHANGED <<sessions, history>>,
         Accounts(file) = Accounts(users) \cup (IF op = "create" THEN {i} ELSE {}),
         op = "create" => i \notin removed
  PROVE  IInv'
<1> DEFINE w == [op |-> op, id |-> i, file |-> file, fresh |-> TRUE]
<1>1. demoted' = demoted
  BY DEF history
<1>2. /\ waiting' \in [Requests -> Write \cup {NoWrite}]
      /\ FilesSound'
      /\ waiting'[r] = w
      /\ \A s \in Requests \ {r} : waiting'[s] = waiting[s]
  BY <1>1, HashSound DEF IInv
<1>3. w.op = op /\ w.id = i /\ w.file = file
  OBVIOUS
<1> HIDE DEF w
<1>4. users' = users
  BY DEF Hash
<1>5. TypeOK'
  BY <1>2, <1>4 DEF IInv, TypeOK, history
<1>6. AnswersStand' /\ removed' \subseteq issued'
  BY <1>4 DEF IInv, AnswersSound, AnswersStand, history
<1>7. ASSUME NEW s \in Requests, waiting'[s] # NoWrite
      PROVE  Current(waiting[s])' \/ s = r
  <2>1. CASE s # r
    <3>1. waiting'[s] = waiting[s]
      BY <2>1, <1>2
    <3>2. Current(waiting[s])
      BY <3>1, <1>7 DEF IInv, AnswersSound
    <3>3. QED
      BY <3>1, <3>2, <1>4 DEF Current, Adds, history
  <2>2. QED
    BY <2>1
<1>8. Current(waiting[r])'
  <2>1. Adds(w) = IF op = "create" THEN {i} ELSE {}
    BY <1>3 DEF Adds
  <2>2. /\ Accounts(w.file) = Accounts(users) \cup Adds(w)
        /\ Adds(w) \cap removed = {}
    BY <2>1, <1>3
  <2>3. removed' = removed
    BY DEF history
  <2>4. QED
    BY <2>2, <2>3, <1>2, <1>4 DEF Current
<1>9. QED
  BY <1>2, <1>5, <1>6, <1>7, <1>8 DEF IInv, AnswersSound

\* A request that ends writes a sound copy, and one that is still up to date
\* adds its own account at most.
LEMMA SaveHashedStep ==
  ASSUME IInv, NEW r \in Requests, SaveHashed(r)
  PROVE  IInv'
<1> DEFINE w == waiting[r]
<1>1. w \in Write /\ w # NoWrite
  BY DEF SaveHashed, IInv, TypeOK
<1>2. Sound(w.file, demoted, issued) /\ Current(w)
  BY <1>1 DEF IInv, FilesSound, AnswersSound
<1>3. /\ users' = w.file
      /\ created' = created \cup Adds(w)
      /\ overwritten' = (overwritten \/ ~w.fresh)
      /\ UNCHANGED <<sessions, issued, removed, demoted>>
  BY DEF SaveHashed, Written, Adds
<1>4. ASSUME NEW s \in Requests
      PROVE  /\ waiting'[s] \in Write \cup {NoWrite}
             /\ waiting'[s] # NoWrite =>
                  waiting[s] # NoWrite /\ ~waiting'[s].fresh /\ waiting'[s].file = waiting[s].file
  BY SaveAgesCopies DEF SaveHashed, IInv
<1>5. waiting' = [s \in Requests |-> waiting'[s]]
  BY DEF SaveHashed
<1>6. waiting' \in [Requests -> Write \cup {NoWrite}]
  BY <1>4, <1>5
<1>7. FilesSound'
  BY <1>2, <1>3, <1>4 DEF IInv, FilesSound
<1>8. Adds(w) \subseteq Ids /\ w.file \in File /\ w.fresh \in BOOLEAN
  BY <1>1 DEF Write, Adds
<1> HIDE DEF w
<1>9. TypeOK'
  BY <1>3, <1>6, <1>8 DEF IInv, TypeOK
<1>10. AnswersStand'
  <2>1. CASE overwritten \/ ~w.fresh
    BY <2>1, <1>3 DEF AnswersStand
  <2>2. CASE ~overwritten /\ w.fresh
    <3>1. Accounts(users) = created \ removed
      BY <2>2 DEF IInv, AnswersSound, AnswersStand
    <3>2. Accounts(w.file) = (created \ removed) \cup Adds(w) /\ Adds(w) \cap removed = {}
      BY <2>2, <3>1, <1>2 DEF Current
    <3>3. QED
      BY <3>2, <1>3 DEF AnswersStand
  <2>3. QED
    BY <2>1, <2>2, <1>8 DEF IInv, TypeOK
<1>11. AnswersSound'
  BY <1>3, <1>4, <1>10 DEF IInv, AnswersSound, Current
<1>12. QED
  BY <1>7, <1>9, <1>11 DEF IInv

-----------------------------------------------------------------------------
(***************************************************************************)
(* The actions                                                             *)
(***************************************************************************)
LEMMA InitIInv == Init => IInv
<1> SUFFICES ASSUME Init PROVE IInv
  OBVIOUS
<1> DEFINE admin == NewAccount(AdminName, "admin")
<1>1. admin \in Account /\ IsActiveAdmin(admin) /\ ~admin.mfaEnabled
  BY AdminAssumption DEF NewAccount, Account, Roles, IsActiveAdmin
<1>2. admin # NoAccount
  BY <1>1, NoAccountAssumption
<1> HIDE DEF admin
<1>3. users = [i \in Ids |-> IF i = Admin0 THEN admin ELSE NoAccount]
  BY DEF Init, admin
<1>4. users \in File
  BY <1>1, <1>3 DEF File
<1>5. Accounts(users) = {Admin0} /\ users[Admin0] = admin
  BY <1>2, <1>3, AdminAssumption DEF Accounts
<1>6. Admin0 \in ActiveAdmins(users)
  BY <1>1, <1>5 DEF ActiveAdmins, IsActiveAdmin
<1>7. \A r \in Requests : waiting[r] = NoWrite
  BY DEF Init
<1>8. TypeOK
  BY <1>4, AdminAssumption DEF Init, TypeOK
<1>9. Sound(users, demoted, issued)
  BY <1>1, <1>4, <1>5, <1>6 DEF Init, Sound, Unique, EnabledHasSecret
<1>10. AnswersSound
  BY <1>5, <1>7 DEF Init, AnswersSound, AnswersStand
<1>11. QED
  BY <1>7, <1>8, <1>9, <1>10 DEF IInv, FilesSound

\* An identifier that was never drawn gets an account with a free name.
LEMMA NewSound ==
  ASSUME IInv, NEW i \in Ids, i \notin issued, NEW a \in Account,
         ~NameTaken(a.name), ~a.mfaEnabled
  PROVE  /\ Sound(With(i, a), demoted, issued \cup {i})
         /\ Accounts(With(i, a)) = Accounts(users) \cup {i}
         /\ i \notin removed
<1>1. Sound(users, demoted, issued) /\ demoted \in BOOLEAN /\ users \in File
  BY DEF IInv, FilesSound, TypeOK
<1>2. i \notin Accounts(users) /\ i \notin removed
  BY DEF IInv, FilesSound, Sound, AnswersSound
<1>3. i \notin ActiveAdmins(users)
  BY <1>2 DEF ActiveAdmins
<1>4. \A j \in Accounts(users) \ {i} : users[j].name # a.name
  BY DEF NameTaken
<1>5. Sound([users EXCEPT ![i] = a], demoted, issued \cup {i})
  BY <1>1, <1>3, <1>4, SetSound
<1>6. Accounts([users EXCEPT ![i] = a]) = Accounts(users) \cup {i}
  BY <1>1, SetAccounts
<1>7. QED
  BY <1>2, <1>5, <1>6 DEF With

\* An account changes, keeps its name, and its rights unless the edit says so.
LEMMA ChangeSound ==
  ASSUME IInv, NEW i \in Accounts(users), NEW a \in Account,
         a.name = users[i].name, a.mfaEnabled => a.secret,
         NEW e \in BOOLEAN, demoted => e,
         i \in ActiveAdmins(users) => e \/ IsActiveAdmin(a)
  PROVE  /\ Sound(With(i, a), e, issued)
         /\ Accounts(With(i, a)) = Accounts(users)
         /\ i \in Ids
<1>1. Sound(users, demoted, issued) /\ demoted \in BOOLEAN /\ users \in File
  BY DEF IInv, FilesSound, TypeOK
<1>2. i \in Ids /\ i \in issued
  BY <1>1 DEF Accounts, Sound
<1>3. \A j \in Accounts(users) \ {i} : users[j].name # a.name
  BY <1>1 DEF Sound, Unique
<1>4. Sound([users EXCEPT ![i] = a], e, issued)
  BY <1>1, <1>2, <1>3, SetSound
<1>5. Accounts([users EXCEPT ![i] = a]) = Accounts(users)
  BY <1>1, <1>2, SetAccounts
<1>6. QED
  BY <1>2, <1>4, <1>5 DEF With

LEMMA AccountsAreSound ==
  ASSUME IInv, NEW i \in Accounts(users)
  PROVE  /\ users[i] \in Account
         /\ users[i].mfaEnabled => users[i].secret
         /\ i \in ActiveAdmins(users) <=> IsActiveAdmin(users[i])
BY DEF IInv, FilesSound, TypeOK, File, Accounts, ActiveAdmins, IsActiveAdmin, Sound, EnabledHasSecret

LEMMA InvitationsKeep ==
  ASSUME IInv, NEW by \in Ids, NEW i \in Ids, NEW name \in Names, NEW role \in Roles
  PROVE  /\ \A r \in Requests : CreateUser(r, by, i, name, role) => IInv'
         /\ CreateUserInvite(by, i, name, role) => IInv'
<1>1. ASSUME NEW r \in Requests, CreateUser(r, by, i, name, role)
      PROVE  IInv'
  <2> DEFINE a == NewAccount(name, role)
  <2>1. a \in Account /\ a.name = name /\ ~a.mfaEnabled
    BY DEF NewAccount, Account
  <2> HIDE DEF a
  <2>2. i \notin issued /\ ~NameTaken(name)
    BY <1>1 DEF CreateUser
  <2>3. /\ Sound(With(i, a), demoted, issued \cup {i})
        /\ Accounts(With(i, a)) = Accounts(users) \cup {i}
        /\ i \notin removed
    BY <2>1, <2>2, NewSound
  <2>4. /\ Hash(r, "create", i, With(i, a))
        /\ issued' = issued \cup {i}
        /\ UNCHANGED <<sessions, history>>
    BY <1>1 DEF CreateUser, a
  <2>5. issued \subseteq issued' /\ issued' \subseteq Ids
    BY <2>4 DEF IInv, TypeOK
  <2>6. QED
    BY <2>3, <2>4, <2>5, HashingStep
<1>2. ASSUME CreateUserInvite(by, i, name, role)
      PROVE  IInv'
  <2> DEFINE a == Invited(name, role)
  <2>1. a \in Account /\ a.name = name /\ ~a.mfaEnabled
    BY DEF Invited, Account
  <2> HIDE DEF a
  <2>2. i \notin issued /\ ~NameTaken(name)
    BY <1>2 DEF CreateUserInvite
  <2>3. /\ Sound(With(i, a), demoted, issued \cup {i})
        /\ Accounts(With(i, a)) = Accounts(users) \cup {i}
        /\ i \notin removed
    BY <2>1, <2>2, NewSound
  <2>4. /\ Save(With(i, a))
        /\ issued' = issued \cup {i}
        /\ created' = created \cup {i}
        /\ UNCHANGED <<sessions, removed, demoted, overwritten>>
    BY <1>2 DEF CreateUserInvite, InviteFile, a
  <2>5. issued \subseteq issued' /\ issued' \subseteq Ids /\ created' \subseteq Ids
    BY <2>4 DEF IInv, TypeOK
  <2>6. removed' \subseteq issued' /\ demoted' \in BOOLEAN
    BY <2>4 DEF IInv, TypeOK, AnswersSound
  <2>7. Accounts(users) = created \ removed => Accounts(With(i, a)) = created' \ removed'
    BY <2>3, <2>4
  <2>8. QED
    BY <2>3, <2>4, <2>5, <2>6, <2>7, SavingStep
<1>3. QED
  BY <1>1, <1>2

LEMMA EditKeeps ==
  ASSUME IInv, NEW by \in Ids, NEW i \in Ids, NEW role \in Roles, NEW active \in BOOLEAN,
         EditUser(by, i, role, active)
  PROVE  IInv'
<1> DEFINE a == [users[i] EXCEPT !.role = role, !.active = active]
           e == demoted \/ (i \in ActiveAdmins(users) /\ (role # "admin" \/ ~active))
<1>1. i \in Accounts(users)
  BY DEF EditUser
<1>2. /\ users[i] \in Account
      /\ users[i].mfaEnabled => users[i].secret
      /\ i \in ActiveAdmins(users) <=> IsActiveAdmin(users[i])
  BY <1>1, AccountsAreSound
<1>3. /\ a \in Account /\ a.name = users[i].name /\ a.role = role /\ a.active = active
      /\ a.pending = users[i].pending
      /\ a.mfaEnabled = users[i].mfaEnabled /\ a.secret = users[i].secret
  BY <1>2 DEF Account
<1>4. /\ Save(With(i, a)) /\ demoted' = e
      /\ UNCHANGED <<sessions, issued, created, removed, overwritten>>
  BY DEF EditUser
<1> HIDE DEF a
<1>5. i \in ActiveAdmins(users) => e \/ IsActiveAdmin(a)
  BY <1>2, <1>3 DEF IsActiveAdmin
<1>6. demoted \in BOOLEAN /\ e \in BOOLEAN /\ (demoted => e)
  BY DEF IInv, TypeOK
<1> HIDE DEF e
<1>7. Sound(With(i, a), e, issued) /\ Accounts(With(i, a)) = Accounts(users)
  BY <1>1, <1>2, <1>3, <1>5, <1>6, ChangeSound
<1>8. issued' \subseteq Ids /\ created' \subseteq Ids /\ removed' \subseteq issued'
  BY <1>4 DEF IInv, TypeOK, AnswersSound
<1>9. QED
  BY <1>4, <1>6, <1>7, <1>8, SavingStep

\* A change that only its own account feels, written at once or after a hash.
LEMMA QuietSave ==
  ASSUME IInv, NEW i \in Accounts(users), NEW a \in Account,
         a.name = users[i].name, a.mfaEnabled => a.secret,
         a.role = users[i].role, users[i].active => a.active, a.pending => users[i].pending,
         Save(With(i, a)), UNCHANGED <<sessions, issued, history>>
  PROVE  IInv'
<1>1. i \in ActiveAdmins(users) => demoted \/ IsActiveAdmin(a)
  BY AccountsAreSound DEF IsActiveAdmin
<1>2. demoted \in BOOLEAN
  BY DEF IInv, TypeOK
<1>3. Sound(With(i, a), demoted, issued) /\ Accounts(With(i, a)) = Accounts(users)
  BY <1>1, <1>2, ChangeSound
<1>4. UNCHANGED <<created, removed, demoted, overwritten, issued, sessions>>
  BY DEF history
<1>5. issued' \subseteq Ids /\ created' \subseteq Ids /\ removed' \subseteq issued'
  BY <1>4 DEF IInv, TypeOK, AnswersSound
<1>6. QED
  BY <1>2, <1>3, <1>4, <1>5, SavingStep

LEMMA QuietHash ==
  ASSUME IInv, NEW i \in Accounts(users), NEW a \in Account,
         NEW r \in Requests, NEW op \in {"activate", "reset"},
         a.name = users[i].name, a.mfaEnabled => a.secret,
         a.role = users[i].role, users[i].active => a.active, a.pending => users[i].pending,
         Hash(r, op, i, With(i, a)), UNCHANGED <<sessions, issued, history>>
  PROVE  IInv'
<1>1. i \in ActiveAdmins(users) => demoted \/ IsActiveAdmin(a)
  BY AccountsAreSound DEF IsActiveAdmin
<1>2. demoted \in BOOLEAN /\ issued \subseteq Ids
  BY DEF IInv, TypeOK
<1>3. /\ Sound(With(i, a), demoted, issued)
      /\ Accounts(With(i, a)) = Accounts(users)
      /\ i \in Ids
  BY <1>1, <1>2, ChangeSound
<1>4. /\ op # "create"
      /\ op \in {"create", "activate", "reset"}
  OBVIOUS
<1>5. QED
  BY <1>2, <1>3, <1>4, HashingStep

LEMMA ResetKeeps ==
  ASSUME IInv, NEW r \in Requests, NEW by \in Ids, NEW i \in Ids, ResetPassword(r, by, i)
  PROVE  IInv'
<1> DEFINE a == [users[i] EXCEPT !.password = TRUE, !.pending = FALSE]
<1>1. i \in Accounts(users)
  BY DEF ResetPassword
<1>2. users[i] \in Account /\ (users[i].mfaEnabled => users[i].secret)
  BY <1>1, AccountsAreSound
<1>3. /\ a \in Account /\ a.name = users[i].name /\ a.role = users[i].role
      /\ a.active = users[i].active /\ ~a.pending
      /\ a.mfaEnabled = users[i].mfaEnabled /\ a.secret = users[i].secret
  BY <1>2 DEF Account
<1>4. Hash(r, "reset", i, With(i, a)) /\ UNCHANGED <<sessions, issued, history>>
  BY DEF ResetPassword
<1> HIDE DEF a
<1>5. QED
  BY <1>1, <1>2, <1>3, <1>4, QuietHash

LEMMA DeleteKeeps ==
  ASSUME IInv, NEW by \in Ids, NEW i \in Ids, DeleteUser(by, i)
  PROVE  IInv'
<1>1. /\ Deletable(i)
      /\ Save(With(i, NoAccount))
      /\ removed' = removed \cup {i}
      /\ UNCHANGED <<sessions, issued, created, demoted, overwritten>>
  BY DEF DeleteUser
<1>2. Sound(users, demoted, issued) /\ demoted \in BOOLEAN
  BY DEF IInv, FilesSound, TypeOK
<1>3. /\ Sound(With(i, NoAccount), demoted, issued)
      /\ Accounts(With(i, NoAccount)) = Accounts(users) \ {i}
  BY <1>1, <1>2, DeleteSound
<1>4. i \in issued
  BY <1>1, <1>2 DEF Deletable, Sound
<1>5. removed' \subseteq issued' /\ issued' \subseteq Ids /\ created' \subseteq Ids
  BY <1>1, <1>4 DEF IInv, TypeOK, AnswersSound
<1>6. Accounts(users) = created \ removed =>
        Accounts(With(i, NoAccount)) = created' \ removed'
  BY <1>1, <1>3
<1>7. QED
  BY <1>1, <1>2, <1>3, <1>5, <1>6, SavingStep

LEMMA ActivationKeeps ==
  ASSUME IInv, NEW i \in Ids
  PROVE  /\ SetupActivationMfa(i) => IInv'
         /\ \A r \in Requests : CompleteActivation(r, i) => IInv'
<1>1. ASSUME SetupActivationMfa(i) PROVE IInv'
  <2> DEFINE a == [users[i] EXCEPT !.secret = TRUE]
  <2>1. i \in Accounts(users)
    BY <1>1 DEF SetupActivationMfa, InvitationOpen
  <2>2. users[i] \in Account
    BY <2>1, AccountsAreSound
  <2>3. /\ a \in Account /\ a.name = users[i].name /\ a.role = users[i].role
        /\ a.active = users[i].active /\ a.pending = users[i].pending /\ a.secret
    BY <2>2 DEF Account
  <2>4. Save(With(i, a)) /\ UNCHANGED <<sessions, issued, history>>
    BY <1>1 DEF SetupActivationMfa
  <2> HIDE DEF a
  <2>5. QED
    BY <2>1, <2>3, <2>4, QuietSave
<1>2. ASSUME NEW r \in Requests, CompleteActivation(r, i) PROVE IInv'
  <2> DEFINE a == Activated(users[i])
  <2>1. i \in Accounts(users) /\ users[i].secret
    BY <1>2 DEF CompleteActivation, Activable, InvitationOpen
  <2>2. users[i] \in Account
    BY <2>1, AccountsAreSound
  <2>3. /\ a \in Account /\ a.name = users[i].name /\ a.role = users[i].role
        /\ a.active /\ ~a.pending /\ a.secret
    BY <2>1, <2>2 DEF Account, Activated
  <2>4. Hash(r, "activate", i, With(i, a)) /\ UNCHANGED <<sessions, issued, history>>
    BY <1>2 DEF CompleteActivation
  <2> HIDE DEF a
  <2>5. QED
    BY <2>1, <2>3, <2>4, QuietHash
<1>3. QED
  BY <1>1, <1>2

LEMMA MfaKeeps ==
  ASSUME IInv, NEW i \in Ids, MfaSetup(i) \/ MfaActivate(i) \/ MfaDisable(i)
  PROVE  IInv'
<1>1. i \in Accounts(users)
  BY DEF MfaSetup, MfaActivate, MfaDisable, WasSignedIn, SignedIn
<1>2. users[i] \in Account /\ (users[i].mfaEnabled => users[i].secret)
  BY <1>1, AccountsAreSound
<1>3. CASE MfaSetup(i)
  <2> DEFINE a == [users[i] EXCEPT !.secret = TRUE, !.mfaEnabled = FALSE]
  <2>1. /\ a \in Account /\ a.name = users[i].name /\ a.role = users[i].role
        /\ a.active = users[i].active /\ a.pending = users[i].pending /\ ~a.mfaEnabled
    BY <1>2 DEF Account
  <2>2. Save(With(i, a)) /\ UNCHANGED <<sessions, issued, history>>
    BY <1>3 DEF MfaSetup
  <2> HIDE DEF a
  <2>3. QED
    BY <1>1, <2>1, <2>2, QuietSave
<1>4. CASE MfaActivate(i)
  <2> DEFINE a == [users[i] EXCEPT !.mfaEnabled = TRUE]
  <2>1. users[i].secret
    BY <1>4 DEF MfaActivate
  <2>2. /\ a \in Account /\ a.name = users[i].name /\ a.role = users[i].role
        /\ a.active = users[i].active /\ a.pending = users[i].pending /\ a.secret
    BY <1>2, <2>1 DEF Account
  <2>3. Save(With(i, a)) /\ UNCHANGED <<sessions, issued, history>>
    BY <1>4 DEF MfaActivate
  <2> HIDE DEF a
  <2>4. QED
    BY <1>1, <2>2, <2>3, QuietSave
<1>5. CASE MfaDisable(i)
  <2> DEFINE a == [users[i] EXCEPT !.mfaEnabled = FALSE, !.secret = FALSE]
  <2>1. /\ a \in Account /\ a.name = users[i].name /\ a.role = users[i].role
        /\ a.active = users[i].active /\ a.pending = users[i].pending /\ ~a.mfaEnabled
    BY <1>2 DEF Account
  <2>2. Save(With(i, a)) /\ UNCHANGED <<sessions, issued, history>>
    BY <1>5 DEF MfaDisable
  <2> HIDE DEF a
  <2>3. QED
    BY <1>1, <2>1, <2>2, QuietSave
<1>6. QED
  BY <1>3, <1>4, <1>5

\* What leaves the file, the answers and the copies alone, or drops copies.
LEMMA OthersKeep ==
  ASSUME IInv, (\E i \in Ids : Login(i)) \/ Restart \/ UNCHANGED vars
  PROVE  IInv'
<1>1. /\ UNCHANGED <<users, issued, history>>
      /\ sessions' \subseteq Ids
      /\ waiting' \in [Requests -> Write \cup {NoWrite}]
      /\ \A r \in Requests : waiting'[r] = waiting[r] \/ waiting'[r] = NoWrite
  <2>1. CASE \E i \in Ids : Login(i)
    BY <2>1 DEF IInv, TypeOK, Login
  <2>2. CASE Restart
    BY <2>2 DEF IInv, TypeOK, Restart
  <2>3. CASE UNCHANGED vars
    BY <2>3 DEF IInv, TypeOK, vars
  <2>4. QED
    BY <2>1, <2>2, <2>3
<1>2. TypeOK'
  BY <1>1 DEF IInv, TypeOK, history
<1>3. FilesSound'
  BY <1>1 DEF IInv, FilesSound, history
<1>4. AnswersStand' /\ removed' \subseteq issued'
  BY <1>1 DEF IInv, AnswersSound, AnswersStand, history
<1>5. ASSUME NEW r \in Requests, waiting'[r] # NoWrite
      PROVE  Current(waiting[r])'
  <2>1. waiting'[r] = waiting[r] /\ Current(waiting[r])
    BY <1>1, <1>5 DEF IInv, AnswersSound
  <2>2. QED
    BY <1>1, <2>1 DEF Current, history
<1>6. QED
  BY <1>2, <1>3, <1>4, <1>5 DEF IInv, AnswersSound

LEMMA NextKeeps == IInv /\ [Next]_vars => IInv'
<1> SUFFICES ASSUME IInv, [Next]_vars PROVE IInv'
  OBVIOUS
<1>1. ASSUME NEW by \in Ids, Administration(by) PROVE IInv'
  BY <1>1, InvitationsKeep, EditKeeps, ResetKeeps, DeleteKeeps DEF Administration
<1>2. ASSUME NEW i \in Ids, SetupActivationMfa(i) \/ \E r \in Requests : CompleteActivation(r, i)
      PROVE  IInv'
  BY <1>2, ActivationKeeps
<1>3. ASSUME NEW i \in Enrolling, MfaSetup(i) \/ MfaActivate(i) \/ MfaDisable(i)
      PROVE  IInv'
  BY <1>3, MfaKeeps, EnrollingAssumption
<1>4. ASSUME NEW r \in Requests, SaveHashed(r) PROVE IInv'
  BY <1>4, SaveHashedStep
<1>5. CASE (\E i \in Ids : Login(i)) \/ Restart \/ UNCHANGED vars
  BY <1>5, OthersKeep
<1>6. QED
  BY <1>1, <1>2, <1>3, <1>4, <1>5 DEF Next

-----------------------------------------------------------------------------
THEOREM Inductive == Spec => []IInv
BY InitIInv, NextKeeps, PTL DEF Spec

\* users.json, the pending writes and the sessions keep their types.
THEOREM TypeCorrect == Spec => []TypeOK
<1>1. IInv => TypeOK
  BY DEF IInv
<1>2. QED
  BY <1>1, Inductive, PTL

\* createUser and createUserInvite never give two accounts one login, whatever
\* stale files are written in between.
THEOREM NamesCorrect == Spec => []UniqueNames
<1>1. IInv => UniqueNames
  BY DEF IInv, FilesSound, Sound, UniqueNames
<1>2. QED
  BY <1>1, Inductive, PTL

\* deleteUser never leaves the portal without an active administrator.
THEOREM AdminCorrect == Spec => []ActiveAdminRemains
<1>1. IInv => ActiveAdminRemains
  BY DEF IInv, FilesSound, Sound, ActiveAdminRemains
<1>2. QED
  BY <1>1, Inductive, PTL

\* POST /login asks for the code of every account that must have one.
THEOREM MfaCorrect == Spec => []RequiredMfaIsAsked
<1>1. IInv => RequiredMfaIsAsked
  BY DEF IInv, FilesSound, Sound, EnabledHasSecret, RequiredMfaIsAsked, CanLogin, MfaRefusesLogin, AsksTotp
<1>2. QED
  BY <1>1, Inductive, PTL

\* What creations, invitations and deletions answered is what users.json holds,
\* until a request writes over a file it had not read.
THEOREM AnswersCorrect == Spec => []AnswersStand
<1>1. IInv => AnswersStand
  BY DEF IInv, AnswersSound
<1>2. QED
  BY <1>1, Inductive, PTL
=============================================================================
