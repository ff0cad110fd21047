---------------------------- MODULE ReviewsProofs ----------------------------
(***************************************************************************)
(* Accounts and Reviews, proved for any number of accounts, treks and      *)
(* calls.                                                                  *)
(*                                                                         *)
(* Accounts only grow (Grows), so what a visit found when it was answered  *)
(* (Answered) stays.  All logins that look for an identity, or have added  *)
(* it to an account, were under way at the same time, two by two, for      *)
(* whoever starts when it is on an account finds it there (Sole).          *)
(***************************************************************************)
EXTENDS Reviews, FiniteSetTheorems, TLAPS

Answered(c) ==
    /\ input[c].by = Password => account[user[c]].password
    /\ input[c].by \in Identities => Linked(user[c], input[c].by)
    /\ input[c].vendor => account[user[c]].vendor /\ account[user[c]].profile

ProgressOf(c) ==
    /\ at[c] = "new" => user[c] = Nothing
    /\ at[c] # "new" => input[c] \in InputType
    /\ at[c] \in {"new", "create", "email"} => account[c] = NoAccount
    /\ user[c] # Nothing => Exists(user[c])
    /\ at[c] = "profile" => /\ user[c] = c /\ account[c].vendor
                            /\ input[c].by = Nothing
    /\ at[c] \in {"email", "link"} => c \in Logins
    /\ at[c] = "link" => user[c] # Nothing
    /\ at[c] \in {"create", "email", "link"} =>
          IF c \in Logins THEN input[c].by \in Identities /\ ~input[c].vendor
                          ELSE input[c].by = Nothing
    /\ at[c] = "trek" => c \in Seeds
    /\ at[c] \in {"tokens", "trek", "done"} /\ user[c] # Nothing => Answered(c)

Progress == \A c \in Visits : ProgressOf(c)

\* A step of any kind leaves an account there, with what it has.
Grows ==
    \A a \in Visits : Exists(a) =>
        /\ Exists(a)'
        /\ account'[a].email = account[a].email
        /\ account'[a].password = account[a].password
        /\ account'[a].vendor = account[a].vendor
        /\ account[a].profile => account'[a].profile
        /\ account[a].linked \subseteq account'[a].linked

-----------------------------------------------------------------------------
LEMMA Named == /\ Nothing \notin Visits /\ Nothing \notin Emails /\ Nothing \notin Identities
               /\ Password \notin Identities /\ Password # Nothing /\ SeedEmail \in Emails
  BY NamesAssumption

LEMMA ExistsType ==
  ASSUME AccountsTypeOK, NEW a \in Visits
  PROVE  /\ Exists(a) <=> account[a] \in AccountType
         /\ Exists(a) <=> account[a].email \in Emails
         /\ Exists(a) => /\ account[a].password \in BOOLEAN
                         /\ account[a].vendor \in BOOLEAN
                         /\ account[a].profile \in BOOLEAN
                         /\ account[a].linked \subseteq Identities \X Logins
  BY Named DEF AccountsTypeOK, Exists, AccountType, NoAccount

\* What is typed as an account is one.
LEMMA Existing ==
  ASSUME NEW a, account'[a] \in AccountType
  PROVE  Exists(a)' /\ account'[a] # NoAccount
  BY Named DEF Exists, AccountType, NoAccount

LEMMA NewAccountType ==
  ASSUME NEW mail \in Emails, NEW p \in BOOLEAN, NEW v \in BOOLEAN, NEW f \in BOOLEAN,
         NEW by \in SUBSET (Identities \X Logins)
  PROVE  /\ NewAccount(mail, p, v, f, by) \in AccountType
         /\ NewAccount(mail, p, v, f, by).email = mail
         /\ NewAccount(mail, p, v, f, by).password = p
         /\ NewAccount(mail, p, v, f, by).vendor = v
         /\ NewAccount(mail, p, v, f, by).profile = f
         /\ NewAccount(mail, p, v, f, by).linked = by
  BY DEF NewAccount, AccountType

LEMMA AnswersGrow ==
  ASSUME AccountsTypeOK, AccountsTypeOK', Grows, NEW c \in Visits,
         user[c] \in Visits, Exists(user[c]), Answered(c),
         user'[c] = user[c], input'[c] = input[c]
  PROVE  Answered(c)'
  <1>1. Exists(user[c])' /\ account'[user[c]] \in AccountType
    BY Existing DEF Grows, AccountsTypeOK, Exists
  <1>2. QED
    BY <1>1, ExistsType DEF Answered, Grows, Linked, AccountType

\* A visit that does not move keeps what it knows.
LEMMA OthersProgress ==
  ASSUME AccountsTypeOK, AccountsTypeOK', Grows, NEW c \in Visits, ProgressOf(c),
         at'[c] = at[c], user'[c] = user[c], input'[c] = input[c],
         at[c] \in {"new", "create", "email"} => account'[c] = account[c]
  PROVE  ProgressOf(c)'
  <1>1. user[c] \in Visits \cup {Nothing}
    BY DEF AccountsTypeOK
  <1>2. user[c] # Nothing => Exists(user[c]) /\ Exists(user[c])'
    BY <1>1 DEF ProgressOf, Grows
  <1>3. at[c] \in {"tokens", "trek", "done"} /\ user[c] # Nothing => Answered(c)'
    BY <1>1, AnswersGrow DEF ProgressOf
  <1>4. at[c] = "profile" => account'[c].vendor
    BY <1>2, Named DEF ProgressOf, Grows
  <1>5. QED
    BY <1>2, <1>3, <1>4 DEF ProgressOf

\* A step of visit c: the others stay where they are, and no account they are
\* still to create appears.
OthersStay(c) ==
    /\ \A d \in Visits \ {c} : at'[d] = at[d] /\ user'[d] = user[d] /\ input'[d] = input[d]
    /\ \A d \in Visits \ {c} : account[d] = NoAccount => account'[d] = NoAccount

LEMMA StepProgress ==
  ASSUME AccountsTypeOK, AccountsTypeOK', Grows, Progress, NEW c \in Visits,
         OthersStay(c), ProgressOf(c)'
  PROVE  Progress'
  <1>1. ASSUME NEW d \in Visits \ {c} PROVE ProgressOf(d)'
    <2>1. at[d] \in {"new", "create", "email"} => account'[d] = account[d]
      BY DEF OthersStay, Progress, ProgressOf
    <2>2. QED
      BY <2>1, OthersProgress DEF OthersStay, Progress
  <1>2. QED
    BY <1>1 DEF Progress

\* A step that writes no account.
LEMMA Unwritten == AccountsTypeOK /\ UNCHANGED account => Grows
  BY ExistsType DEF Grows, Exists, AccountType

\* create, of whatever document: the index refuses it or it is there.
LEMMA CreateStep ==
  ASSUME AccountsTypeOK, Progress, NEW c \in Visits, NEW doc \in AccountType,
         NEW next \in {"tokens", "profile", "trek"}, Create(c, doc, next), UNCHANGED raced
  PROVE  /\ AccountsTypeOK' /\ Grows /\ OthersStay(c) /\ input' = input
         /\ \/ at'[c] = "refused" /\ account' = account /\ ProgressOf(c)'
            \/ at'[c] = next /\ user'[c] = c /\ account'[c] = doc /\ Exists(c)'
  <1>1. account[c] = NoAccount /\ at[c] = "create" /\ input' = input
    BY DEF Create, Progress, ProgressOf
  <1>2. CASE at' = [at EXCEPT ![c] = "refused"] /\ account' = account /\ user' = user
    <2>1. AccountsTypeOK' /\ Grows /\ OthersStay(c)
      BY <1>1, <1>2, Unwritten DEF AccountsTypeOK, OthersStay, Over
    <2>2. ProgressOf(c)'
      BY <1>1, <1>2 DEF AccountsTypeOK, Progress, ProgressOf, Exists
    <2>3. QED
      BY <1>1, <1>2, <2>1, <2>2 DEF AccountsTypeOK
  <1>3. CASE /\ account' = [account EXCEPT ![c] = doc]
             /\ user' = [user EXCEPT ![c] = c]
             /\ at' = [at EXCEPT ![c] = next]
    <2>1. AccountsTypeOK' /\ OthersStay(c)
      BY <1>1, <1>3 DEF AccountsTypeOK, OthersStay
    <2>2. ASSUME NEW a \in Visits, Exists(a) PROVE a # c /\ account'[a] = account[a]
      BY <1>1, <1>3, <2>2 DEF Exists, AccountsTypeOK
    <2>3. Grows
      BY <2>2, ExistsType DEF Grows, Exists
    <2>4. at'[c] = next /\ user'[c] = c /\ account'[c] = doc
      BY <1>3 DEF AccountsTypeOK
    <2>5. QED
      BY <1>1, <2>1, <2>3, <2>4, Existing
  <1>4. QED
    BY <1>2, <1>3 DEF Create

LEMMA AccountsStep ==
  ASSUME AccountsTypeOK, Progress, NEW c \in Visits, VisitStep(c)
  PROVE  AccountsTypeOK' /\ Grows /\ Progress'
  <1> SUFFICES AccountsTypeOK' /\ Grows /\ OthersStay(c) /\ ProgressOf(c)'
    BY StepProgress
  <1> DEFINE Goal == AccountsTypeOK' /\ Grows /\ OthersStay(c) /\ ProgressOf(c)'
  <1>P. ProgressOf(c)
    BY DEF Progress
  <1>T. /\ at \in [Visits -> Over \cup {"new", "create", "profile", "email", "link", "tokens", "trek"}]
        /\ input \in [Visits -> InputType \cup {NoInput}]
        /\ user \in [Visits -> Visits \cup {Nothing}]
        /\ account \in [Visits -> AccountType \cup {NoAccount}]
        /\ raced \subseteq SUBSET Logins
    BY DEF AccountsTypeOK
  <1> USE VisitsAssumption, Named DEF Move, Arrives, Over, OthersStay
  <1>1. ASSUME c \in Signups, NEW mail \in Emails, NEW v \in BOOLEAN, Signup(c, mail, v)
        PROVE  Goal
    <2>1. AccountsTypeOK'
      BY <1>1, <1>T DEF Signup, AccountsTypeOK, InputType
    <2>2. ProgressOf(c)'
      BY <1>1, <1>T, <1>P DEF Signup, ProgressOf, InputType, Exists
    <2>3. QED
      BY <2>1, <2>2, <1>1, <1>T, Unwritten DEF Signup
  <1>2. ASSUME c \in Logins, NEW mail \in Emails, Login(c, mail) PROVE Goal
    <2> DEFINE in == [email |-> mail, vendor |-> FALSE, by |-> Password]
    <2>1. /\ account' = account /\ raced' = raced
          /\ input' = [input EXCEPT ![c] = in] /\ at[c] = "new"
      BY <1>2 DEF Login
    <2>2. in \in InputType
      BY DEF InputType
    <2>3. CASE at' = [at EXCEPT ![c] = "refused"] /\ user' = user
      <3>1. AccountsTypeOK'
        BY <2>1, <2>2, <2>3, <1>T DEF AccountsTypeOK
      <3>2. ProgressOf(c)'
        BY <2>1, <2>2, <2>3, <1>T, <1>P DEF ProgressOf
      <3>3. QED
        BY <3>1, <3>2, <2>1, <2>3, <1>T, Unwritten
    <2>4. CASE \E a \in WithEmail(mail) : /\ account[a].password
                                          /\ at' = [at EXCEPT ![c] = "tokens"]
                                          /\ user' = [user EXCEPT ![c] = a]
      <3>1. PICK a \in WithEmail(mail) : /\ account[a].password
                                         /\ at' = [at EXCEPT ![c] = "tokens"]
                                         /\ user' = [user EXCEPT ![c] = a]
        BY <2>4
      <3>2. a \in Visits /\ Exists(a)
        BY ExistsType DEF WithEmail
      <3>3. AccountsTypeOK'
        BY <2>1, <2>2, <3>1, <3>2, <1>T DEF AccountsTypeOK
      <3>4. ProgressOf(c)'
        BY <2>1, <2>2, <3>1, <3>2, <1>T DEF ProgressOf, Answered, Exists
      <3>5. QED
        BY <3>1, <3>3, <3>4, <2>1, <1>T, Unwritten
    <2>5. QED
      BY <1>2, <2>3, <2>4 DEF Login
  <1>3. ASSUME c \in Logins, NEW mail \in Emails, NEW i \in Identities, FindByIdentity(c, mail, i)
        PROVE  Goal
    <2> DEFINE in == [email |-> mail, vendor |-> FALSE, by |-> i]
    <2>1. /\ account' = account /\ raced' \subseteq SUBSET Logins
          /\ input' = [input EXCEPT ![c] = in] /\ at[c] = "new"
      BY <1>3, <1>T DEF FindByIdentity, Searching
    <2>2. in \in InputType
      BY DEF InputType
    <2>3. CASE WithIdentity(i) # {}
      <3>1. PICK a \in WithIdentity(i) : user' = [user EXCEPT ![c] = a]
        BY <2>3, <1>3 DEF FindByIdentity
      <3>2. a \in Visits /\ Linked(a, i) /\ Exists(a)
        BY DEF WithIdentity, Linked
      <3>3. at' = [at EXCEPT ![c] = "tokens"]
        BY <2>3, <1>3 DEF FindByIdentity
      <3>4. AccountsTypeOK'
        BY <2>1, <2>2, <3>1, <3>2, <3>3, <1>T DEF AccountsTypeOK
      <3>5. ProgressOf(c)'
        BY <2>1, <2>2, <3>1, <3>2, <3>3, <1>T DEF ProgressOf, Answered, Exists, Linked
      <3>6. QED
        BY <3>1, <3>3, <3>4, <3>5, <2>1, <1>T, Unwritten
    <2>4. CASE WithIdentity(i) = {}
      <3>1. at' = [at EXCEPT ![c] = "email"] /\ user' = user
        BY <2>4, <1>3 DEF FindByIdentity
      <3>2. AccountsTypeOK'
        BY <2>1, <2>2, <3>1, <1>T DEF AccountsTypeOK
      <3>3. ProgressOf(c)'
        BY <2>1, <2>2, <3>1, <1>3, <1>T, <1>P DEF ProgressOf
      <3>4. QED
        BY <3>1, <3>2, <3>3, <2>1, <1>T, Unwritten
    <2>5. QED
      BY <2>3, <2>4
  <1>4. ASSUME SignupCreate(c) PROVE Goal
    <2> DEFINE doc == NewAccount(input[c].email, TRUE, input[c].vendor, FALSE, {})
               next == IF input[c].vendor THEN "profile" ELSE "tokens"
    <2>1. at[c] = "create" /\ c \in Signups /\ input[c] \in InputType
      BY <1>4, <1>P DEF SignupCreate, Create, ProgressOf
    <2>8. input[c].email \in Emails /\ input[c].vendor \in BOOLEAN
      BY <2>1 DEF InputType
    <2>2. /\ doc \in AccountType /\ doc.vendor = input[c].vendor
          /\ next \in {"tokens", "profile", "trek"}
      <3>1. TRUE \in BOOLEAN /\ FALSE \in BOOLEAN
        OBVIOUS
      <3>2. doc \in AccountType
        BY <3>1, <2>8, NewAccountType, Zenon
      <3>3. doc.vendor = input[c].vendor
        BY DEF NewAccount
      <3>4. QED
        BY <3>2, <3>3
    <2>3. Create(c, doc, next) /\ UNCHANGED raced
      BY <1>4 DEF SignupCreate
    <2>4. input[c].by = Nothing
      BY <2>1, <1>P DEF ProgressOf
    <2> HIDE DEF doc
    <2>5. /\ AccountsTypeOK' /\ Grows /\ OthersStay(c) /\ input' = input
          /\ \/ at'[c] = "refused" /\ account' = account /\ ProgressOf(c)'
             \/ at'[c] = next /\ user'[c] = c /\ account'[c] = doc /\ Exists(c)'
      BY <2>2, <2>3, CreateStep
    <2>6. ProgressOf(c)'
      BY <1>P, <2>1, <2>2, <2>4, <2>5, <2>8 DEF ProgressOf, Answered
    <2>7. QED
      BY <2>5, <2>6
  <1>5. ASSUME SaveProfile(c) PROVE Goal
    <2>1. /\ account' = [account EXCEPT ![c].profile = TRUE]
          /\ user[c] = c /\ account[c].vendor /\ Exists(c) /\ account[c] \in AccountType
          /\ at' = [at EXCEPT ![c] = "tokens"] /\ UNCHANGED <<input, user, raced>>
      BY <1>5, <1>P, ExistsType DEF SaveProfile, ProgressOf
    <2>2. account'[c] \in AccountType /\ account'[c].profile /\ account'[c].vendor
      BY <2>1, <1>T DEF AccountType
    <2>3. AccountsTypeOK'
      BY <2>1, <2>2, <1>T DEF AccountsTypeOK
    <2>4. Grows
      <3>1. ASSUME NEW a \in Visits, Exists(a) PROVE a # c => account'[a] = account[a]
        BY <2>1, <1>T
      <3>2. /\ account'[c].email = account[c].email /\ account'[c].password = account[c].password
            /\ account'[c].linked = account[c].linked
        BY <2>1, <1>T DEF AccountType
      <3>3. QED
        <4>1. ASSUME NEW a \in Visits, Exists(a)
              PROVE  account[a].linked \subseteq account'[a].linked
          BY <4>1, <3>1, <3>2
        <4>2. Exists(c)'
          BY <2>2, Existing
        <4>3. QED
          BY <3>1, <3>2, <2>1, <2>2, <4>1, <4>2 DEF Grows, Exists
    <2>5. ProgressOf(c)'
      <3>1. /\ user'[c] = c /\ at'[c] = "tokens" /\ input'[c] = input[c]
            /\ input[c] \in InputType /\ input[c].by = Nothing
        BY <1>5, <1>P, <1>T, <2>1 DEF SaveProfile, ProgressOf
      <3>2. Exists(user[c])'
        BY <2>2, <3>1, Existing
      <3>3. Answered(c)'
        BY <2>2, <3>1 DEF Answered
      <3>4. QED
        BY <3>1, <3>2, <3>3 DEF ProgressOf
    <2>6. QED
      BY <2>1, <2>3, <2>4, <2>5, <1>T
  <1>6. ASSUME FindByEmail(c) PROVE Goal
    <2>1. account' = account /\ input' = input /\ raced' = raced /\ at[c] = "email"
      BY <1>6 DEF FindByEmail
    <2>2. CASE at' = [at EXCEPT ![c] = "create"] /\ user' = user
      <3>1. AccountsTypeOK'
        BY <2>1, <2>2, <1>T DEF AccountsTypeOK
      <3>2. ProgressOf(c)'
        BY <2>1, <2>2, <1>T, <1>P DEF ProgressOf, Exists
      <3>3. QED
        BY <2>1, <2>2, <3>1, <3>2, <1>T, Unwritten
    <2>3. CASE \E a \in WithEmail(input[c].email) :
                  user' = [user EXCEPT ![c] = a] /\ at' = [at EXCEPT ![c] = "link"]
      <3>1. PICK a \in WithEmail(input[c].email) :
                  user' = [user EXCEPT ![c] = a] /\ at' = [at EXCEPT ![c] = "link"]
        BY <2>3
      <3>2. a \in Visits /\ Exists(a)
        BY <1>P, <2>1, ExistsType DEF WithEmail, ProgressOf, InputType
      <3>3. AccountsTypeOK'
        BY <2>1, <3>1, <3>2, <1>T DEF AccountsTypeOK
      <3>4. ProgressOf(c)'
        BY <2>1, <3>1, <3>2, <1>T, <1>P DEF ProgressOf, Exists
      <3>5. QED
        BY <2>1, <3>1, <3>3, <3>4, <1>T, Unwritten
    <2>4. QED
      BY <1>6, <2>2, <2>3 DEF FindByEmail
  <1>7. ASSUME Link(c) PROVE Goal
    <2>a. PICK u, i : u = user[c] /\ i = input[c].by
      OBVIOUS
    <2>1. /\ account' = [account EXCEPT ![u].linked = @ \cup {<<i, c>>}]
          /\ u \in Visits /\ Exists(u) /\ i \in Identities /\ c \in Logins
          /\ ~input[c].vendor
          /\ at[c] = "link" /\ at' = [at EXCEPT ![c] = "tokens"] /\ UNCHANGED <<input, user, raced>>
      BY <1>7, <1>P, <1>T, <2>a DEF Link, Entry, ProgressOf
    <2>2. account[u] \in AccountType
      BY <2>1, ExistsType
    <2>3. /\ account'[u] \in AccountType
          /\ account'[u].linked = account[u].linked \cup {<<i, c>>}
          /\ account'[u].email = account[u].email
          /\ account'[u].password = account[u].password
          /\ account'[u].vendor = account[u].vendor
          /\ account'[u].profile = account[u].profile
      BY <2>1, <2>2, <1>T DEF AccountType
    <2>4. AccountsTypeOK'
      BY <2>1, <2>3, <1>T DEF AccountsTypeOK
    <2>5. \E x \in account'[u].linked : x[1] = i
      <3>1. <<i, c>> \in account'[u].linked /\ <<i, c>>[1] = i
        BY <2>3
      <3>2. QED
        BY <3>1
    <2>6. Grows
      <3>1. ASSUME NEW a \in Visits, Exists(a) PROVE a # u => account'[a] = account[a]
        BY <2>1, <1>T
      <3>2. ASSUME NEW a \in Visits, Exists(a)
            PROVE  account[a].linked \subseteq account'[a].linked
        BY <3>1, <3>2, <2>3
      <3>3. QED
        BY <3>1, <3>2, <2>3, Existing DEF Grows, Exists
    <2>7. ProgressOf(c)'
      <3>1. Linked(u, i)' /\ Exists(u)'
        BY <2>3, <2>5, Existing DEF Linked
      <3>2. user'[c] = u /\ input'[c].by = i /\ at'[c] = "tokens" /\ input'[c] = input[c]
        BY <2>1, <2>a, <1>T
      <3>3. input[c] \in InputType
        BY <2>1, <1>P DEF ProgressOf
      <3>4. QED
        BY <3>1, <3>2, <3>3, <2>1 DEF ProgressOf, Answered, Linked
    <2>8. ASSUME NEW d \in Visits, account[d] = NoAccount PROVE account'[d] = NoAccount
      BY <2>1, <2>8, <1>T DEF Exists
    <2>9. QED
      BY <2>1, <2>4, <2>6, <2>7, <2>8, <1>T
  <1>8. ASSUME CreateLinked(c) PROVE Goal
    <2> DEFINE doc == NewAccount(input[c].email, FALSE, FALSE, FALSE, {Entry(c)})
    <2>1. at[c] = "create" /\ c \in Logins /\ input[c] \in InputType
      BY <1>8, <1>P DEF CreateLinked, Create, ProgressOf
    <2>2. input[c].by \in Identities /\ ~input[c].vendor
      BY <2>1, <1>P DEF ProgressOf
    <2>7. input[c].email \in Emails
      BY <2>1 DEF InputType
    <2>3. doc \in AccountType /\ \E x \in doc.linked : x[1] = input[c].by
      <3>1. TRUE \in BOOLEAN /\ FALSE \in BOOLEAN /\ {Entry(c)} \in SUBSET (Identities \X Logins)
        BY <2>1, <2>2 DEF Entry
      <3>2. doc \in AccountType
        BY <3>1, <2>7, NewAccountType, Zenon
      <3>3. doc.linked = {Entry(c)} /\ Entry(c)[1] = input[c].by
        BY DEF NewAccount, Entry
      <3> HIDE DEF doc
      <3>4. QED
        BY <3>2, <3>3
    <2>4. Create(c, doc, "tokens") /\ UNCHANGED raced
      BY <1>8 DEF CreateLinked
    <2> HIDE DEF doc
    <2>5. /\ AccountsTypeOK' /\ Grows /\ OthersStay(c) /\ input' = input
          /\ \/ at'[c] = "refused" /\ account' = account /\ ProgressOf(c)'
             \/ at'[c] = "tokens" /\ user'[c] = c /\ account'[c] = doc /\ Exists(c)'
      BY <2>3, <2>4, CreateStep
    <2>6. ProgressOf(c)'
      BY <1>P, <2>1, <2>2, <2>3, <2>5 DEF ProgressOf, Answered, Linked
    <2>8. QED
      BY <2>5, <2>6
  <1>9. ASSUME IssueTokens(c) PROVE Goal
    <2>1. AccountsTypeOK'
      BY <1>9, <1>T DEF IssueTokens, AccountsTypeOK
    <2>2. ProgressOf(c)'
      BY <1>9, <1>T, <1>P DEF IssueTokens, ProgressOf, Answered, Linked, Exists
    <2>3. QED
      BY <1>9, <1>T, <2>1, <2>2, Unwritten DEF IssueTokens
  <1>10. ASSUME c \in Seeds, SeedVendor(c) PROVE Goal
    <2> DEFINE in == [email |-> SeedEmail, vendor |-> TRUE, by |-> Nothing]
               doc == NewAccount(SeedEmail, TRUE, TRUE, TRUE, {})
    <2>1. CASE /\ at[c] = "new" /\ at' \in {[at EXCEPT ![c] = "create"], [at EXCEPT ![c] = "done"]}
               /\ input' = [input EXCEPT ![c] = in] /\ UNCHANGED <<account, user, raced>>
      <3>1. in \in InputType
        BY DEF InputType
      <3>2. AccountsTypeOK'
        BY <2>1, <3>1, <1>T DEF AccountsTypeOK
      <3>3. ProgressOf(c)'
        BY <2>1, <3>1, <1>10, <1>T, <1>P DEF ProgressOf, Exists
      <3>4. QED
        BY <2>1, <3>2, <3>3, <1>T, Unwritten
    <2>2. CASE Create(c, doc, "trek") /\ UNCHANGED raced
      <3>1. doc \in AccountType /\ doc.vendor /\ doc.profile
        BY ZenonT(40), NewAccountType
      <3>2. at[c] = "create" /\ input[c].by = Nothing /\ input[c] \in InputType
        BY <2>2, <1>10, <1>P DEF ProgressOf, Create
      <3> HIDE DEF doc
      <3>3. /\ AccountsTypeOK' /\ Grows /\ OthersStay(c) /\ input' = input
            /\ \/ at'[c] = "refused" /\ account' = account /\ ProgressOf(c)'
               \/ at'[c] = "trek" /\ user'[c] = c /\ account'[c] = doc /\ Exists(c)'
        BY <2>2, <3>1, CreateStep
      <3>4. ProgressOf(c)'
        BY <1>10, <3>1, <3>2, <3>3 DEF ProgressOf, Answered
      <3>5. QED
        BY <3>3, <3>4
    <2>3. QED
      BY <1>10, <2>1, <2>2 DEF SeedVendor
  <1>11. ASSUME BreakOff(c) PROVE Goal
    <2>1. AccountsTypeOK'
      BY <1>11, <1>T DEF BreakOff, AccountsTypeOK
    <2>2. ProgressOf(c)'
      BY <1>11, <1>T, <1>P DEF BreakOff, ProgressOf, Exists
    <2>3. QED
      BY <1>11, <1>T, <2>1, <2>2, Unwritten DEF BreakOff
  <1>12. QED
    BY <1>1, <1>2, <1>3, <1>4, <1>5, <1>6, <1>7, <1>8, <1>9, <1>10, <1>11 DEF VisitStep

-----------------------------------------------------------------------------
(* One account each.                                                       *)

\* The logins that look for an identity, or have added it to an account.
Added(i)  == {c \in Logins : \E a \in Visits : Exists(a) /\ <<i, c>> \in account[a].linked}
Staked(i) == Searching(i) \cup Added(i)

EmailsDiffer == \A a, b \in Visits :
    Exists(a) /\ Exists(b) /\ account[a].email = account[b].email => a = b

\* An entry is that of a login which is past searching, under its email.
Entered(c, a) == at[c] \notin {"new", "email", "link", "create"} /\ input[c].email = account[a].email

Sole ==
    /\ EmailsDiffer
    /\ \A i \in Identities : \A c, d \in Staked(i) : c # d => {c, d} \in raced
    /\ \A a \in Visits : Exists(a) =>
          \A i \in Identities, c \in Logins : <<i, c>> \in account[a].linked => Entered(c, a)
    /\ \A c \in Logins : at[c] = "link" => account[user[c]].email = input[c].email

\* What the step of a visit leaves as it is, and what it adds.
NoNewEmail == \A a \in Visits : Exists(a)' => Exists(a) /\ account'[a].email = account[a].email
NoNewEntry == \A a \in Visits : Exists(a)' => Exists(a) /\ account'[a].linked = account[a].linked
OthersRest(c) == \A d \in Visits \ {c} : at'[d] = at[d] /\ input'[d] = input[d] /\ user'[d] = user[d]

\* Where no login joins those that search or have added, pairs stay as they are.
LEMMA PairsStay ==
  ASSUME Sole, raced \subseteq raced', \A i \in Identities : Staked(i)' \subseteq Staked(i)
  PROVE  \A i \in Identities : \A c, d \in Staked(i)' : c # d => {c, d} \in raced'
  BY DEF Sole

LEMMA SearchesStay ==
  ASSUME AccountsTypeOK, NEW c \in Visits, OthersRest(c), NEW i \in Identities,
         \/ at'[c] \notin {"email", "link", "create"}
         \/ c \notin Logins
         \/ at[c] \in {"email", "link", "create"} /\ input'[c] = input[c]
  PROVE  Searching(i)' \subseteq Searching(i)
  BY DEF Searching, OthersRest, Visits

\* A step of c that adds no entry.
LEMMA SoleRests ==
  ASSUME AccountsTypeOK, AccountsTypeOK', Sole, Progress, Grows, NEW c \in Visits, OthersRest(c),
         NoNewEmail, NoNewEntry, raced \subseteq raced',
         \A i \in Identities : Searching(i)' \subseteq Searching(i),
         at[c] # "new" => input'[c] = input[c]
                          /\ (at'[c] \in {"new", "email", "link", "create"}
                                 => at[c] \in {"new", "email", "link", "create"}),
         c \in Logins /\ at'[c] = "link" => Exists(user'[c]) /\ user'[c] \in Visits
                                            /\ account[user'[c]].email = input'[c].email
  PROVE  Sole'
  <1>1. EmailsDiffer'
    BY DEF Sole, EmailsDiffer, NoNewEmail
  <1>2. \A i \in Identities : Staked(i)' \subseteq Staked(i)
    BY DEF Staked, Added, NoNewEntry
  <1>3. ASSUME NEW a \in Visits, Exists(a)', NEW i \in Identities, NEW d \in Logins,
               <<i, d>> \in account'[a].linked
        PROVE  Entered(d, a)'
    <2>1. Exists(a) /\ <<i, d>> \in account[a].linked /\ account'[a].email = account[a].email
      BY <1>3 DEF NoNewEntry, NoNewEmail
    <2>2. Entered(d, a) /\ d \in Visits
      BY <2>1 DEF Sole, Visits
    <2>3. QED
      BY <2>1, <2>2 DEF Entered, OthersRest
  <1>4. ASSUME NEW d \in Logins, at'[d] = "link" PROVE account'[user'[d]].email = input'[d].email
    <2>1. CASE d = c
      BY <1>4, <2>1 DEF Grows
    <2>2. CASE d # c
      <3>1. d \in Visits
        BY DEF Visits
      <3>2. at[d] = "link" /\ user'[d] = user[d] /\ input'[d] = input[d]
        BY <1>4, <2>2, <3>1 DEF OthersRest
      <3>3. user[d] \in Visits /\ Exists(user[d])
        BY <3>1, <3>2, Named DEF Progress, ProgressOf, AccountsTypeOK
      <3>4. QED
        BY <3>2, <3>3 DEF Sole, Grows
    <2>3. QED
      BY <2>1, <2>2
  <1>5. QED
    BY <1>1, <1>2, <1>3, <1>4, PairsStay DEF Sole

\* A login that ends its search by adding its entry to account u, of its email.
LEMMA SoleAdds ==
  ASSUME AccountsTypeOK, AccountsTypeOK', Sole, Progress, Grows, NEW c \in Logins, OthersRest(c),
         EmailsDiffer', raced' = raced, NEW i \in Identities, c \in Searching(i),
         input' = input, at'[c] = "tokens", NEW u \in Visits,
         \A a \in Visits \ {u} : account'[a] = account[a],
         Exists(u)' => account'[u].email = input[c].email
                       /\ \A x \in account'[u].linked :
                             x = <<i, c>> \/ (Exists(u) /\ x \in account[u].linked)
  PROVE  Sole'
  <1>1. c \in Visits
    BY DEF Visits
  <1>2. \A j \in Identities : Searching(j)' \subseteq Searching(j)
    BY <1>1, SearchesStay
  <1>3. ASSUME NEW j \in Identities, NEW d \in Added(j)' PROVE d \in Staked(j)
    <2>1. PICK a \in Visits : Exists(a)' /\ <<j, d>> \in account'[a].linked
      BY <1>3 DEF Added
    <2>2. CASE a = u /\ <<j, d>> = <<i, c>>
      BY <2>2 DEF Staked
    <2>3. CASE Exists(a) /\ <<j, d>> \in account[a].linked
      BY <1>3, <2>3 DEF Staked, Added
    <2>4. QED
      BY <2>1, <2>2, <2>3 DEF Exists
  <1>4. \A j \in Identities : Staked(j)' \subseteq Staked(j)
    BY <1>2, <1>3 DEF Staked
  <1>5. ASSUME NEW a \in Visits, Exists(a)', NEW j \in Identities, NEW d \in Logins,
               <<j, d>> \in account'[a].linked
        PROVE  Entered(d, a)'
    <2>1. CASE a = u /\ <<j, d>> = <<i, c>>
      BY <1>5, <2>1 DEF Entered
    <2>2. CASE Exists(a) /\ <<j, d>> \in account[a].linked
      <3>1. Entered(d, a) /\ d \in Visits
        BY <2>2 DEF Sole, Visits
      <3>2. d # c
        BY <3>1 DEF Entered, Searching
      <3>3. account'[a].email = account[a].email
        BY <2>2 DEF Grows
      <3>4. QED
        BY <3>1, <3>2, <3>3 DEF Entered, OthersRest
    <2>3. QED
      BY <1>5, <2>1, <2>2 DEF Exists
  <1>6. ASSUME NEW d \in Logins, at'[d] = "link" PROVE account'[user'[d]].email = input'[d].email
    <2>1. d # c /\ d \in Visits
      BY <1>6 DEF Visits
    <2>2. at[d] = "link" /\ user'[d] = user[d]
      BY <1>6, <2>1 DEF OthersRest
    <2>3. user[d] \in Visits /\ Exists(user[d])
      BY <2>1, <2>2, Named DEF Progress, ProgressOf, AccountsTypeOK
    <2>4. QED
      BY <2>2, <2>3 DEF Sole, Grows
  <1>7. QED
    BY <1>4, <1>5, <1>6, PairsStay DEF Sole

\* create keeps emails apart: the index sees to it.
LEMMA CreateApart ==
  ASSUME AccountsTypeOK, Progress, Sole, NEW c \in Visits, NEW doc \in AccountType,
         NEW next \in {"tokens", "profile", "trek"}, Create(c, doc, next)
  PROVE  /\ EmailsDiffer' /\ OthersRest(c) /\ input' = input /\ at[c] = "create"
         /\ ~Exists(c) /\ \A a \in Visits \ {c} : account'[a] = account[a]
         /\ \/ account' = account /\ at'[c] = "refused"
            \/ account'[c] = doc /\ at'[c] = next
  <1>1. input' = input /\ at[c] = "create" /\ ~Exists(c)
    BY DEF Create, Progress, ProgressOf, Exists
  <1>2. CASE account' = account /\ user' = user /\ at' = [at EXCEPT ![c] = "refused"]
    BY <1>1, <1>2 DEF Sole, EmailsDiffer, Exists, OthersRest, AccountsTypeOK
  <1>3. CASE /\ account' = [account EXCEPT ![c] = doc] /\ WithEmail(doc.email) = {}
             /\ user' = [user EXCEPT ![c] = c] /\ at' = [at EXCEPT ![c] = next]
    <2>1. \A a \in Visits \ {c} : account'[a] = account[a]
      BY <1>3 DEF AccountsTypeOK
    <2>2. account'[c] = doc /\ at'[c] = next /\ OthersRest(c)
      BY <1>1, <1>3 DEF AccountsTypeOK, OthersRest
    <2>3. EmailsDiffer'
      BY <1>3, <2>1, <2>2 DEF Sole, EmailsDiffer, Exists, WithEmail
    <2>4. QED
      BY <1>1, <2>1, <2>2, <2>3
  <1>4. QED
    BY <1>2, <1>3 DEF Create

\* A signup's or the seed's account lists no identity.
LEMMA CreateUnlinked ==
  ASSUME AccountsTypeOK, AccountsTypeOK', Progress, Grows, Sole, NEW c \in Visits, c \notin Logins,
         NEW doc \in AccountType, doc.linked = {},
         NEW next \in {"tokens", "profile", "trek"}, Create(c, doc, next), UNCHANGED raced
  PROVE  Sole'
  <1>1. /\ EmailsDiffer' /\ OthersRest(c) /\ input' = input
        /\ ~Exists(c) /\ \A a \in Visits \ {c} : account'[a] = account[a]
        /\ account' = account \/ account'[c] = doc
    BY CreateApart
  <1>2. \A d \in Logins : d \in Visits \ {c}
    BY DEF Visits
  <1>3. ASSUME NEW a \in Visits, Exists(a)', NEW x \in account'[a].linked
        PROVE  Exists(a) /\ x \in account[a].linked /\ account'[a] = account[a]
    BY <1>1, <1>3 DEF Exists
  <1>4. \A i \in Identities : Staked(i)' \subseteq Staked(i)
    <2>1. \A i \in Identities : Searching(i)' \subseteq Searching(i)
      BY <1>1, SearchesStay
    <2>2. \A i \in Identities : Added(i)' \subseteq Added(i)
      BY <1>3 DEF Added
    <2>3. QED
      BY <2>1, <2>2 DEF Staked
  <1>5. ASSUME NEW a \in Visits, Exists(a)', NEW i \in Identities, NEW d \in Logins,
               <<i, d>> \in account'[a].linked
        PROVE  Entered(d, a)'
    <2>1. Entered(d, a) /\ account'[a] = account[a]
      BY <1>3, <1>5 DEF Sole
    <2>2. QED
      BY <1>1, <1>2, <2>1 DEF Entered, OthersRest
  <1>6. ASSUME NEW d \in Logins, at'[d] = "link" PROVE account'[user'[d]].email = input'[d].email
    <2>1. at[d] = "link" /\ user'[d] = user[d] /\ d \in Visits
      BY <1>1, <1>2, <1>6 DEF OthersRest
    <2>2. user[d] \in Visits /\ Exists(user[d])
      BY <2>1, Named DEF Progress, ProgressOf, AccountsTypeOK
    <2>3. QED
      BY <1>1, <2>1, <2>2 DEF Sole, Grows
  <1>7. QED
    BY <1>1, <1>4, <1>5, <1>6, PairsStay DEF Sole

LEMMA SoleStep ==
  ASSUME AccountsTypeOK, Progress, Sole, NEW c \in Visits, VisitStep(c)
  PROVE  Sole'
  <1>P. ProgressOf(c)
    BY DEF Progress
  <1>T. AccountsTypeOK' /\ Grows
    BY AccountsStep
  <1> USE VisitsAssumption, Named DEF Move, Arrives, Over
  \* A step of c that writes no account and does not begin a search.
  <1>Q. ASSUME account' = account, raced' = raced, OthersRest(c),
               at'[c] \notin {"email", "link", "create"} \/ c \notin Logins,
               at[c] = "new" \/ (input'[c] = input[c] /\ at'[c] # "new"
                                 /\ (at'[c] = "create" => at[c] = "create"))
        PROVE  Sole'
    <2>1. NoNewEmail /\ NoNewEntry
      BY <1>Q DEF NoNewEmail, NoNewEntry, Exists
    <2>2. \A i \in Identities : Searching(i)' \subseteq Searching(i)
      BY <1>Q, SearchesStay
    <2>3. c \in Logins \/ at'[c] \notin {"email", "link"}
      BY <1>Q, AccountsStep DEF Progress, ProgressOf
    <2>4. QED
      BY <1>Q, <1>T, <2>1, <2>2, <2>3, SoleRests
  <1>1. ASSUME c \in Signups, NEW mail \in Emails, NEW v \in BOOLEAN, Signup(c, mail, v)
        PROVE  Sole'
    <2>1. OthersRest(c) /\ UNCHANGED <<account, raced>> /\ c \notin Logins /\ at[c] = "new"
      BY <1>1 DEF Signup, AccountsTypeOK, OthersRest
    <2>2. QED
      BY <2>1, <1>Q
  <1>2. ASSUME c \in Logins, NEW mail \in Emails, Login(c, mail) PROVE Sole'
    <2>1. /\ OthersRest(c) /\ UNCHANGED <<account, raced>> /\ at[c] = "new"
          /\ at'[c] \notin {"email", "link", "create"}
      BY <1>2 DEF Login, AccountsTypeOK, OthersRest
    <2>2. QED
      BY <2>1, <1>Q
  \* Whoever finds no account joins the search of those who search already.
  <1>3. ASSUME c \in Logins, NEW mail \in Emails, NEW j \in Identities, FindByIdentity(c, mail, j)
        PROVE  Sole'
    <2>1. /\ UNCHANGED account /\ OthersRest(c) /\ at[c] = "new"
          /\ raced' = raced \cup {{c, d} : d \in Searching(j)}
          /\ input'[c].by = j /\ at'[c] \in {"tokens", "email"}
          /\ at'[c] = "email" => WithIdentity(j) = {}
      BY <1>3 DEF FindByIdentity, AccountsTypeOK, OthersRest
    <2>2. EmailsDiffer'
      BY <2>1 DEF Sole, EmailsDiffer, Exists
    <2>3. \A i \in Identities : Added(i)' = Added(i)
      BY <2>1 DEF Added, Exists
    <2>4. \A i \in Identities \ {j} : Searching(i)' \subseteq Searching(i)
      BY <2>1 DEF Searching, OthersRest, Visits
    <2>5. /\ Searching(j)' \subseteq Searching(j) \cup {c}
          /\ at'[c] = "tokens" => Searching(j)' \subseteq Searching(j)
      BY <2>1 DEF Searching, OthersRest, Visits
    <2>6. at'[c] = "email" => Added(j) = {}
      BY <2>1 DEF Added, WithIdentity, Linked
    <2>7. ASSUME NEW i \in Identities, NEW d \in Staked(i)', NEW e \in Staked(i)', d # e
          PROVE  {d, e} \in raced'
      <3>1. CASE d \in Staked(i) /\ e \in Staked(i)
        BY <2>1, <2>7, <3>1 DEF Sole
      <3>2. CASE i = j /\ at'[c] = "email"
        <4>1. d \in Searching(j) \cup {c} /\ e \in Searching(j) \cup {c}
          BY <2>3, <2>5, <2>6, <2>7, <3>2 DEF Staked
        <4>2. {d, e} = {e, d}
          OBVIOUS
        <4>3. CASE d = c
          BY <2>1, <2>7, <4>1, <4>3
        <4>4. CASE e = c
          <5>1. {e, d} \in raced'
            BY <2>1, <2>7, <4>1, <4>4
          <5>2. QED
            BY <4>2, <5>1
        <4>5. CASE d # c /\ e # c
          BY <3>1, <3>2, <4>1, <4>5 DEF Staked
        <4>6. QED
          BY <4>3, <4>4, <4>5
      <3>3. CASE i # j \/ at'[c] = "tokens"
        BY <2>3, <2>4, <2>5, <2>7, <3>1, <3>3 DEF Staked
      <3>4. QED
        BY <2>1, <3>2, <3>3
    <2>8. ASSUME NEW a \in Visits, Exists(a)', NEW i \in Identities, NEW d \in Logins,
                 <<i, d>> \in account'[a].linked
          PROVE  Entered(d, a)'
      <3>1. Entered(d, a) /\ d \in Visits
        BY <2>1, <2>8 DEF Sole, Exists, Visits
      <3>2. d # c
        BY <2>1, <3>1 DEF Entered
      <3>3. QED
        BY <2>1, <3>1, <3>2 DEF Entered, OthersRest
    <2>9. ASSUME NEW d \in Logins, at'[d] = "link" PROVE account'[user'[d]].email = input'[d].email
      <3>1. d # c /\ d \in Visits
        BY <2>1, <2>9 DEF Visits
      <3>2. QED
        BY <2>1, <2>9, <3>1 DEF Sole, OthersRest
    <2>10. QED
      BY <2>2, <2>7, <2>8, <2>9 DEF Sole
  <1>4. ASSUME SignupCreate(c) PROVE Sole'
    <2> DEFINE doc == NewAccount(input[c].email, TRUE, input[c].vendor, FALSE, {})
               next == IF input[c].vendor THEN "profile" ELSE "tokens"
    <2>1. input[c] \in InputType /\ raced' = raced /\ Create(c, doc, next) /\ c \notin Logins
      BY <1>4, <1>P DEF SignupCreate, Create, ProgressOf
    <2>2. input[c].email \in Emails /\ input[c].vendor \in BOOLEAN
      BY <2>1 DEF InputType
    <2>3. doc \in AccountType /\ doc.linked = {}
      BY <2>2 DEF NewAccount, AccountType
    <2>4. next \in {"tokens", "profile", "trek"}
      OBVIOUS
    <2> HIDE DEF doc, next
    <2>5. QED
      BY <1>T, <2>1, <2>3, <2>4, CreateUnlinked
  <1>5. ASSUME SaveProfile(c) PROVE Sole'
    <2>1. /\ account' = [account EXCEPT ![c].profile = TRUE]
          /\ Exists(c) /\ account[c] \in AccountType
          /\ at' = [at EXCEPT ![c] = "tokens"] /\ at[c] = "profile" /\ UNCHANGED <<input, user, raced>>
      BY <1>5, <1>P, ExistsType DEF SaveProfile, ProgressOf
    <2>2. /\ \A a \in Visits : account'[a].email = account[a].email
          /\ \A a \in Visits : Exists(a) => account'[a].linked = account[a].linked
          /\ \A a \in Visits : Exists(a)' => Exists(a)
      BY <2>1 DEF AccountsTypeOK, AccountType, Exists
    <2>3. NoNewEmail /\ NoNewEntry /\ OthersRest(c) /\ at'[c] = "tokens"
      BY <2>1, <2>2 DEF NoNewEmail, NoNewEntry, OthersRest, AccountsTypeOK
    <2>4. \A i \in Identities : Searching(i)' \subseteq Searching(i)
      BY <2>3, SearchesStay
    <2>5. QED
      BY <1>T, <2>1, <2>3, <2>4, SoleRests
  <1>6. ASSUME FindByEmail(c) PROVE Sole'
    <2>1. /\ UNCHANGED <<account, input, raced>> /\ at[c] = "email" /\ OthersRest(c)
          /\ \/ at'[c] = "create"
             \/ at'[c] = "link" /\ user'[c] \in WithEmail(input[c].email)
      BY <1>6 DEF FindByEmail, OthersRest, AccountsTypeOK
    <2>2. NoNewEmail /\ NoNewEntry
      BY <2>1 DEF NoNewEmail, NoNewEntry, Exists
    <2>3. \A i \in Identities : Searching(i)' \subseteq Searching(i)
      BY <2>1, SearchesStay
    <2>4. at'[c] = "link" => Exists(user'[c]) /\ user'[c] \in Visits
                             /\ account[user'[c]].email = input'[c].email
      BY <1>P, <2>1, ExistsType DEF WithEmail, ProgressOf, InputType
    <2>5. QED
      BY <1>T, <2>1, <2>2, <2>3, <2>4, SoleRests
  <1>7. ASSUME Link(c) PROVE Sole'
    <2>a. PICK u, j : u = user[c] /\ j = input[c].by
      OBVIOUS
    <2>1. /\ account' = [account EXCEPT ![u].linked = @ \cup {<<j, c>>}]
          /\ u \in Visits /\ Exists(u) /\ j \in Identities /\ c \in Logins
          /\ at[c] = "link" /\ at' = [at EXCEPT ![c] = "tokens"] /\ UNCHANGED <<input, user, raced>>
      BY <1>7, <1>P, <2>a DEF Link, Entry, ProgressOf, AccountsTypeOK
    <2>2. account[u] \in AccountType
      BY <2>1, ExistsType
    <2>3. /\ account'[u].linked = account[u].linked \cup {<<j, c>>}
          /\ account'[u].email = account[u].email
          /\ \A a \in Visits \ {u} : account'[a] = account[a]
          /\ OthersRest(c) /\ at'[c] = "tokens"
      BY <2>1, <2>2 DEF AccountType, AccountsTypeOK, OthersRest
    <2>4. EmailsDiffer'
      BY <2>1, <2>3 DEF Sole, EmailsDiffer, Exists
    <2>5. c \in Searching(j) /\ account[u].email = input[c].email
      BY <2>a, <2>1 DEF Searching, Sole
    <2>6. QED
      BY <1>T, <2>1, <2>3, <2>4, <2>5, SoleAdds
  <1>8. ASSUME CreateLinked(c) PROVE Sole'
    <2>a. PICK j : j = input[c].by
      OBVIOUS
    <2> DEFINE doc == NewAccount(input[c].email, FALSE, FALSE, FALSE, {Entry(c)})
    <2>1. /\ input[c] \in InputType /\ raced' = raced /\ Create(c, doc, "tokens")
          /\ at[c] = "create" /\ c \in Logins /\ j \in Identities
      BY <1>8, <1>P, <2>a DEF CreateLinked, Create, ProgressOf
    <2>2. input[c].email \in Emails
      BY <2>1 DEF InputType
    <2>3. doc \in AccountType /\ doc.linked = {<<j, c>>} /\ doc.email = input[c].email
      BY <2>a, <2>1, <2>2 DEF NewAccount, AccountType, Entry
    <2> HIDE DEF doc
    <2>4. /\ EmailsDiffer' /\ OthersRest(c) /\ input' = input
          /\ ~Exists(c) /\ \A a \in Visits \ {c} : account'[a] = account[a]
          /\ \/ account' = account /\ at'[c] = "refused"
             \/ account'[c] = doc /\ at'[c] = "tokens"
      BY <2>1, <2>3, CreateApart
    <2>5. CASE account' = account /\ at'[c] = "refused"
      BY <1>Q, <2>1, <2>4, <2>5
    <2>6. CASE account'[c] = doc /\ at'[c] = "tokens"
      <3>1. c \in Searching(j)
        BY <2>a, <2>1 DEF Searching
      <3>2. /\ account'[c].email = input[c].email
            /\ \A x \in account'[c].linked : x = <<j, c>>
        BY <2>3, <2>6
      <3>3. QED
        BY <1>T, <2>1, <2>4, <2>6, <3>1, <3>2, SoleAdds
    <2>7. QED
      BY <2>4, <2>5, <2>6
  <1>9. ASSUME IssueTokens(c) PROVE Sole'
    BY <1>9, <1>Q DEF IssueTokens, OthersRest, AccountsTypeOK
  <1>10. ASSUME c \in Seeds, SeedVendor(c) PROVE Sole'
    <2> DEFINE doc == NewAccount(SeedEmail, TRUE, TRUE, TRUE, {})
    <2>0. c \notin Logins
      BY <1>10
    <2>1. CASE at[c] = "new" /\ OthersRest(c) /\ UNCHANGED <<account, raced>>
      BY <2>0, <2>1, <1>Q
    <2>2. CASE Create(c, doc, "trek") /\ UNCHANGED raced
      <3>1. doc \in AccountType /\ doc.linked = {}
        BY DEF NewAccount, AccountType
      <3> HIDE DEF doc
      <3>2. QED
        BY <1>T, <2>0, <2>2, <3>1, CreateUnlinked
    <2>3. QED
      BY ZenonT(40), <1>10, <2>1, <2>2 DEF SeedVendor, OthersRest, AccountsTypeOK
  <1>11. ASSUME BreakOff(c) PROVE Sole'
    BY <1>11, <1>Q DEF BreakOff, OthersRest, AccountsTypeOK
  <1>12. QED
    BY <1>1, <1>2, <1>3, <1>4, <1>5, <1>6, <1>7, <1>8, <1>9, <1>10, <1>11 DEF VisitStep

-----------------------------------------------------------------------------
(* The accounts beside the treks and the reviews.                          *)

AccountsInv == AccountsTypeOK /\ Progress /\ Sole

LEMMA AccountsInitially == AccountsInit => AccountsInv
  <1> SUFFICES ASSUME AccountsInit PROVE AccountsInv
    OBVIOUS
  <1> USE Named DEF AccountsInit
  <1>1. AccountsTypeOK /\ Progress
    BY DEF AccountsTypeOK, Progress, ProgressOf, Over, Exists
  <1>2. \A a \in Visits : ~Exists(a)
    BY DEF Exists
  <1>3. \A i \in Identities : Staked(i) = {}
    BY <1>2, VisitsAssumption DEF Staked, Searching, Added, Visits
  <1>4. \A c \in Logins : at[c] = "new"
    BY DEF Visits
  <1>5. Sole
    BY <1>2, <1>3, <1>4 DEF Sole, EmailsDiffer
  <1>6. QED
    BY <1>1, <1>5 DEF AccountsInv

LEMMA AccountsSame ==
  AccountsInv /\ UNCHANGED accountVars => AccountsInv' /\ Grows
  <1> SUFFICES ASSUME AccountsInv, UNCHANGED accountVars PROVE AccountsInv' /\ Grows
    OBVIOUS
  <1> USE DEF AccountsInv, accountVars
  <1>1. AccountsTypeOK' /\ Grows
    BY Unwritten DEF AccountsTypeOK
  <1>2. Progress'
    BY DEF Progress, ProgressOf, Answered, Exists, Linked
  <1>3. Sole'
    BY DEF Sole, EmailsDiffer, Staked, Searching, Added, Entered, Exists
  <1>4. QED
    BY <1>1, <1>2, <1>3

LEMMA AccountsSeedTrek ==
  ASSUME AccountsInv, NEW s \in Seeds, SeedTrek(s)
  PROVE  AccountsInv' /\ Grows
  <1> USE VisitsAssumption DEF AccountsInv, Visits
  <1>1. UNCHANGED <<account, input, user, raced>> /\ at' = [at EXCEPT ![s] = "done"] /\ at[s] = "trek"
    BY DEF SeedTrek, Move
  <1>2. AccountsTypeOK' /\ Grows
    BY <1>1, Unwritten DEF AccountsTypeOK, Over
  <1>3. Progress'
    BY <1>1 DEF Progress, ProgressOf, Answered, Exists, Linked, AccountsTypeOK
  <1>4. \A c \in Logins : at'[c] = at[c]
    BY <1>1 DEF AccountsTypeOK
  <1>5. Sole'
    BY <1>1, <1>4 DEF Sole, EmailsDiffer, Staked, Searching, Added, Entered, Exists
  <1>6. QED
    BY <1>2, <1>3, <1>5

LEMMA AccountsNext == AccountsInv /\ [Next]_vars => AccountsInv' /\ Grows
  <1> SUFFICES ASSUME AccountsInv, [Next]_vars PROVE AccountsInv' /\ Grows
    OBVIOUS
  <1>1. ASSUME NEW c \in Visits, VisitStep(c) PROVE AccountsInv' /\ Grows
    BY <1>1, AccountsStep, SoleStep DEF AccountsInv
  <1>2. ASSUME NEW s \in Seeds, SeedTrek(s) PROVE AccountsInv' /\ Grows
    BY <1>2, AccountsSeedTrek
  <1>3. CASE UNCHANGED accountVars
    BY <1>3, AccountsSame
  <1>4. QED
    BY <1>1, <1>2, <1>3 DEF Next, Moves, vars

LEMMA AlwaysAccounts == Spec => []AccountsInv
  <1>1. Init => AccountsInv
    BY AccountsInitially DEF Init
  <1>2. QED
    BY <1>1, AccountsNext, PTL DEF Spec

\* However signups and logins interleave and break off: no two accounts share
\* an email; the logins that listed one identity twice were under way at the
\* same time; and if they listed it on two accounts they came with two emails.
THEOREM OneAccount == Spec => []OneAccountEach
  <1>1. ASSUME AccountsInv PROVE OneAccountEach
    <2> USE <1>1 DEF AccountsInv
    <2>1. SUFFICES ASSUME NEW a \in Visits, NEW b \in Visits, Exists(a), Exists(b),
                          NEW x \in account[a].linked, NEW y \in account[b].linked,
                          x[1] = y[1], <<a, x>> # <<b, y>>
                   PROVE  /\ {x[2], y[2]} \in raced
                          /\ a # b => input[x[2]].email # input[y[2]].email
      BY DEF Sole, EmailsDiffer, OneAccountEach
    <2>2. PICK i \in Identities, c \in Logins, d \in Logins : x = <<i, c>> /\ y = <<i, d>>
      BY <2>1, ExistsType
    <2>3. input[c].email = account[a].email /\ input[d].email = account[b].email
      BY <2>1, <2>2 DEF Sole, Entered
    <2>4. a # b => input[c].email # input[d].email
      BY <2>1, <2>3 DEF Sole, EmailsDiffer
    <2>5. c # d /\ c \in Staked(i) /\ d \in Staked(i)
      BY <2>1, <2>2, <2>4 DEF Staked, Added
    <2>6. {c, d} \in raced
      BY <2>5 DEF Sole
    <2>7. QED
      BY <2>2, <2>4, <2>6
  <1>2. QED
    BY <1>1, AlwaysAccounts, PTL

\* What a visit was answered with stays, whatever other visits do to the
\* account.
THEOREM AnswersKept == Spec => []AnswersStand
  <1>1. AccountsInv => AnswersStand
    BY DEF AccountsInv, Progress, ProgressOf, Answered, AnswersStand
  <1>2. QED
    BY <1>1, AlwaysAccounts, PTL

\* Accounts only grow: no login, signup or seeding takes an account away, its
\* email, password, role or profile, or an identity that is linked to it.
THEOREM AccountsOnlyGrow == Spec => [][Grows]_vars
  BY AlwaysAccounts, AccountsNext, PTL DEF Spec

-----------------------------------------------------------------------------
(* Treks and their count.                                                  *)

\* A trek is its publisher's, and is there after its insert only.
Listed ==
    /\ \A p \in Publishes :
          /\ pc[p] # "idle" => named[p] \in Visits
          /\ pc[p] = "count" => p \in uncounted /\ p \in PublishedBy(named[p])
          /\ \A u \in Visits : p \in PublishedBy(u) =>
                u = named[p] /\ pc[p] \in {"count", "ended", "failed"}
    /\ \A s \in Seeds, u \in Visits :
          trek[s] = u \/ <<s, u>> \in removed => at[s] = "done"

\* Every trek that is or was there has been published by a known call.
Published(t) == trek[t] # Nothing \/ \E u \in Visits : <<t, u>> \in removed

\* Treks come once and are remembered.
TreksMove ==
    /\ \A t \in Treks : trek[t] = Nothing /\ trek'[t] # Nothing => ~Published(t)
    /\ \A t \in Treks : Published(t) => Published(t)'

LEMMA Sets == /\ \A r \in Calls : r \notin Visits
              /\ \A p \in Publishes : p \notin Removals /\ p \notin Reviewers /\ p \notin Visits
              /\ \A d \in Removals : d \notin Reviewers
              /\ \A s \in Seeds : s \in Visits /\ s \notin Publishes
              /\ \A t \in Treks : Trek(t) \in Targets /\ Trek(t) \notin Visits
              /\ \A t \in Treks : Trek(t)[2] = t
              /\ Nothing \notin Targets /\ Nothing \notin Treks /\ Nothing \notin Visits
              /\ Visits \subseteq Targets
              /\ Publishes \subseteq Treks /\ Publishes \subseteq Calls
              /\ Removals \subseteq Calls /\ Reviewers \subseteq Calls
  BY CallsAssumption, NamesAssumption DEF Calls, Visits, Treks, Targets, Trek

\* A step of a visit.
Beside == (\E c \in Visits : VisitStep(c)) /\ UNCHANGED reviewVars

LEMMA TypeStep == AccountsInv /\ TypeOK /\ Listed /\ [Next]_vars => TypeOK'
  <1> SUFFICES ASSUME AccountsInv, TypeOK, Listed, [Next]_vars PROVE TypeOK'
    OBVIOUS
  <1>A. AccountsTypeOK'
    BY AccountsNext DEF AccountsInv
  <1>T. /\ trek \in [Treks -> Visits \cup {Nothing}]
        /\ treksCount \in [Visits -> Nat]
        /\ pc \in [Calls -> {"idle", "insert", "count", "aggregate", "write"} \cup Ended]
        /\ named \in [Calls -> Visits \cup Targets \cup {Nothing}]
        /\ stored \subseteq Reviewers /\ older \subseteq Reviewers \X Reviewers
        /\ seen \in [Reviewers -> SUBSET Reviewers]
        /\ rating \in [Targets -> SUBSET Reviewers]
        /\ removed \subseteq Treks \X Visits
        /\ uncounted \subseteq Publishes
    BY DEF TypeOK
  <1>N. \A p \in Publishes : pc[p] # "idle" => named[p] \in Visits
    BY DEF Listed
  <1> HIDE DEF TypeOK
  <1> USE Sets, <1>A, <1>T DEF Goto, Ended
  <1>1. CASE Beside
    BY <1>1 DEF Beside, reviewVars, TypeOK
  <1>2. ASSUME NEW s \in Seeds, SeedTrek(s) PROVE TypeOK'
    BY <1>2 DEF SeedTrek, TypeOK
  <1>3. ASSUME NEW p \in Publishes, NEW u \in Visits, NEW type \in {"vendor", "peer"},
               CheckRole(p, u, type) PROVE TypeOK'
    BY <1>3 DEF CheckRole, TypeOK
  <1>4. ASSUME NEW p \in Publishes, InsertTrek(p) PROVE TypeOK'
    BY <1>4, <1>N DEF InsertTrek, TypeOK
  <1>5. ASSUME NEW p \in Publishes, CountTrek(p) PROVE TypeOK'
    BY <1>5, <1>N DEF CountTrek, TypeOK
  <1>6. ASSUME NEW d \in Removals, NEW t \in Treks, RemoveTrek(d, t) PROVE TypeOK'
    BY <1>6 DEF RemoveTrek, TypeOK
  <1>7. ASSUME NEW v \in Reviewers, NEW x \in Targets, InsertReview(v, x) PROVE TypeOK'
    BY <1>7 DEF InsertReview, TypeOK
  <1>8. ASSUME NEW v \in Reviewers, Aggregate(v) PROVE TypeOK'
    BY <1>8 DEF Aggregate, ReviewsOf, InHand, TypeOK
  <1>9. ASSUME NEW v \in Reviewers, WriteAggregate(v) PROVE TypeOK'
    BY <1>9 DEF WriteAggregate, TypeOK
  <1>10. ASSUME NEW r \in Calls, Fail(r) PROVE TypeOK'
    BY <1>10 DEF Fail, TypeOK
  <1>11. CASE UNCHANGED vars
    BY <1>11 DEF vars, reviewVars, TypeOK
  <1>12. QED
    BY <1>1, <1>2, <1>3, <1>4, <1>5, <1>6, <1>7, <1>8, <1>9, <1>10, <1>11
       DEF Next, Moves, CallStep, Beside

\* A visit that is done does not move again.
LEMMA DoneStays ==
  ASSUME AccountsTypeOK, NEW c \in Visits, VisitStep(c), NEW s \in Visits, at[s] = "done"
  PROVE  at'[s] = "done"
  <1>1. at[c] # "done" /\ \A d \in Visits \ {c} : at'[d] = at[d]
    BY DEF VisitStep, Signup, Login, FindByIdentity, SignupCreate, SaveProfile, FindByEmail, Link,
           CreateLinked, IssueTokens, SeedVendor, BreakOff, Create, Arrives, Move, Over, AccountsTypeOK
  <1>2. QED
    BY <1>1

\* A step that leaves every publisher where it is, with its treks.
LEMMA ListedSame ==
  ASSUME TypeOK, Listed, \A p \in Publishes : pc'[p] = pc[p] /\ named'[p] = named[p],
         UNCHANGED uncounted,
         \A t \in Treks, u \in Visits : trek'[t] = u \/ <<t, u>> \in removed'
                                       <=> trek[t] = u \/ <<t, u>> \in removed,
         \A s \in Seeds : at[s] = "done" => at'[s] = "done"
  PROVE  Listed'
  <1>1. \A u \in Visits : PublishedBy(u)' = PublishedBy(u)
    BY Sets DEF PublishedBy
  <1>2. \A p \in Publishes : pc[p] = "count" => named[p] \in Visits
    BY DEF Listed
  <1>3. ASSUME NEW p \in Publishes, pc[p] = "count" PROVE p \in PublishedBy(named[p])'
    BY <1>1, <1>2, <1>3 DEF Listed
  <1>4. QED
    BY <1>1, <1>2, <1>3, Sets DEF Listed, Treks, PublishedBy

LEMMA ListedInit == Init => TypeOK /\ Listed
  <1> SUFFICES ASSUME Init PROVE TypeOK /\ Listed
    OBVIOUS
  <1>1. AccountsTypeOK
    BY AccountsInitially DEF Init, AccountsInv
  <1>2. TypeOK
    BY <1>1, Sets DEF Init, TypeOK, Ended
  <1>3. Listed
    BY Sets DEF Init, Listed, PublishedBy, Treks
  <1>4. QED
    BY <1>2, <1>3

LEMMA TreksSame ==
  UNCHANGED <<trek, removed>> => TreksMove
  BY DEF TreksMove, Published

LEMMA ListedStep ==
  AccountsInv /\ TypeOK /\ Listed /\ [Next]_vars => Listed' /\ TreksMove
  <1> SUFFICES ASSUME AccountsInv, TypeOK, Listed, [Next]_vars PROVE Listed' /\ TreksMove
    OBVIOUS
  <1> DEFINE Goal == Listed' /\ TreksMove
  <1>T. /\ trek \in [Treks -> Visits \cup {Nothing}]
        /\ pc \in [Calls -> {"idle", "insert", "count", "aggregate", "write"} \cup Ended]
        /\ named \in [Calls -> Visits \cup Targets \cup {Nothing}]
        /\ removed \subseteq Treks \X Visits
        /\ uncounted \subseteq Publishes
        /\ AccountsTypeOK
    BY DEF TypeOK
  <1>D. UNCHANGED accountVars => \A s \in Seeds : at[s] = "done" => at'[s] = "done"
    BY DEF accountVars
  <1> USE Sets, <1>T DEF Goto, Ended
  <1>1. CASE Beside
    <2>1. \A s \in Seeds : at[s] = "done" => at'[s] = "done"
      BY <1>1, DoneStays DEF Beside
    <2>2. QED
      BY <1>1, <2>1, ListedSame, TreksSame DEF Beside, reviewVars
  <1>2. ASSUME NEW s \in Seeds, SeedTrek(s) PROVE Goal
    <2>1. /\ at[s] = "trek" /\ at' = [at EXCEPT ![s] = "done"]
          /\ trek' = [trek EXCEPT ![s] = s] /\ UNCHANGED <<pc, named, removed, uncounted>>
      BY <1>2 DEF SeedTrek, Move
    <2>2. ~Published(s) /\ s \in Treks
      <3>1. \A u \in Visits : trek[s] # u /\ <<s, u>> \notin removed
        BY <2>1 DEF Listed
      <3>2. s \in Treks
        BY DEF Treks
      <3>3. trek[s] \in Visits \cup {Nothing}
        BY <3>2
      <3>4. QED
        BY <3>1, <3>2, <3>3 DEF Published
    <2>3. TreksMove
      BY <2>1, <2>2 DEF TreksMove, Published
    <2>4. \A u \in Visits : PublishedBy(u)' = PublishedBy(u)
      BY <2>1 DEF PublishedBy
    <2>5. \A p \in Publishes : /\ pc[p] # "idle" => named[p] \in Visits
                               /\ pc[p] = "count" => p \in PublishedBy(named[p])'
      BY <2>1, <2>4 DEF Listed
    <2>6. \A z \in Seeds : at'[z] = IF z = s THEN "done" ELSE at[z]
      BY <2>1 DEF AccountsTypeOK
    <2>7. Listed'
      BY <2>1, <2>4, <2>5, <2>6 DEF Listed, Treks
    <2>8. QED
      BY <2>3, <2>7
  <1>3. ASSUME UNCHANGED accountVars, NEW p \in Publishes, NEW u \in Visits, NEW type \in {"vendor", "peer"},
               CheckRole(p, u, type) PROVE Goal
    <2>1. /\ pc[p] = "idle" /\ pc' \in {[pc EXCEPT ![p] = "insert"], [pc EXCEPT ![p] = "failed"]}
          /\ named' = [named EXCEPT ![p] = u] /\ UNCHANGED <<trek, removed, uncounted>>
      BY <1>3 DEF CheckRole
    <2>2. \A w \in Visits : PublishedBy(w)' = PublishedBy(w)
      BY <2>1 DEF PublishedBy
    <2>3. \A q \in Publishes \ {p} : pc'[q] = pc[q] /\ named'[q] = named[q]
      BY <2>1
    <2>4. \A w \in Visits : p \notin PublishedBy(w)
      BY <2>1 DEF Listed
    <2>5. \A q \in Publishes \ {p} : pc[q] = "count" => q \in PublishedBy(named[q])' /\ named[q] \in Visits
      BY <2>1, <2>2 DEF Listed
    <2>6. Listed'
      BY <1>3, <1>D, <2>1, <2>2, <2>3, <2>4, <2>5 DEF Listed
    <2>7. QED
      BY <2>1, <2>6, TreksSame
  <1>4. ASSUME UNCHANGED accountVars, NEW p \in Publishes, InsertTrek(p) PROVE Goal
    <2>1. /\ pc[p] = "insert" /\ pc' = [pc EXCEPT ![p] = "count"] /\ named[p] \in Visits
          /\ trek' = [trek EXCEPT ![p] = named[p]] /\ uncounted' = uncounted \cup {p}
          /\ UNCHANGED <<named, removed>>
      BY <1>4 DEF InsertTrek, Listed
    <2>2. ~Published(p) /\ p \in Treks
      <3>1. \A u \in Visits : p \notin PublishedBy(u)
        BY <2>1 DEF Listed
      <3>2. QED
        BY <3>1 DEF Published, PublishedBy
    <2>3. TreksMove
      BY <2>1, <2>2 DEF TreksMove, Published
    <2>4. \A u \in Visits : PublishedBy(u)' = IF u = named[p] THEN PublishedBy(u) \cup {p}
                                                              ELSE PublishedBy(u)
      BY <2>1, <2>2 DEF PublishedBy, Published
    <2>5. \A q \in Publishes \ {p} : pc[q] = "count" => q \in PublishedBy(named[q])' /\ named[q] \in Visits
      BY <2>1, <2>4 DEF Listed
    <2>6. p \in PublishedBy(named[p])'
      BY <2>1, <2>4
    <2>7. \A q \in Publishes : pc'[q] = IF q = p THEN "count" ELSE pc[q]
      BY <2>1
    <2>8. \A u \in Visits : p \in PublishedBy(u)' => u = named[p]
      BY <2>1, <2>4 DEF Listed
    <2>9. \A z \in Seeds : trek'[z] = trek[z]
      BY <2>1
    <2>10. Listed'
      BY <1>4, <1>D, <2>1, <2>4, <2>5, <2>6, <2>7, <2>8, <2>9 DEF Listed
    <2>11. QED
      BY <2>3, <2>10
  <1>5. ASSUME UNCHANGED accountVars, NEW p \in Publishes, CountTrek(p) PROVE Goal
    <2>1. /\ pc[p] = "count" /\ pc' = [pc EXCEPT ![p] = "ended"]
          /\ uncounted' = uncounted \ {p} /\ UNCHANGED <<trek, named, removed>>
      BY <1>5 DEF CountTrek
    <2>2. \A u \in Visits : PublishedBy(u)' = PublishedBy(u)
      BY <2>1 DEF PublishedBy
    <2>3. \A q \in Publishes \ {p} : pc[q] = "count" => q \in PublishedBy(named[q])' /\ named[q] \in Visits
      BY <2>1, <2>2 DEF Listed
    <2>4. \A q \in Publishes : pc'[q] = IF q = p THEN "ended" ELSE pc[q]
      BY <2>1
    <2>5. Listed'
      BY <1>5, <1>D, <2>1, <2>2, <2>3, <2>4 DEF Listed
    <2>6. QED
      BY <2>1, <2>5, TreksSame
  <1>6. ASSUME UNCHANGED accountVars, NEW d \in Removals, NEW t \in Treks, RemoveTrek(d, t) PROVE Goal
    <2>1. /\ trek[t] \in Visits /\ trek' = [trek EXCEPT ![t] = Nothing]
          /\ removed' = removed \cup {<<t, trek[t]>>}
          /\ \A p \in Publishes : pc'[p] = pc[p] /\ named'[p] = named[p]
          /\ UNCHANGED uncounted
      BY <1>6 DEF RemoveTrek
    <2>2. \A z \in Treks, u \in Visits : trek'[z] = u \/ <<z, u>> \in removed'
                                      <=> trek[z] = u \/ <<z, u>> \in removed
      BY <2>1
    <2>3. \A z \in Treks : Published(z) => Published(z)'
      BY <2>1, <2>2 DEF Published
    <2>4. TreksMove
      BY <2>1, <2>3 DEF TreksMove
    <2>5. QED
      BY <1>6, <1>D, <2>1, <2>2, <2>4, ListedSame
  <1>7. ASSUME UNCHANGED accountVars, NEW v \in Reviewers,
               \A r \in Calls \ {v} : pc'[r] = pc[r] /\ named'[r] = named[r],
               UNCHANGED <<trek, removed, uncounted>>
        PROVE  Goal
    <2>1. \A p \in Publishes : p # v
      OBVIOUS
    <2>2. QED
      BY <1>7, <1>D, <2>1, ListedSame, TreksSame
  <1>8. ASSUME UNCHANGED accountVars, NEW v \in Reviewers, NEW x \in Targets,
               InsertReview(v, x) \/ Aggregate(v) \/ WriteAggregate(v)
        PROVE  Goal
    <2>1. /\ \A r \in Calls \ {v} : pc'[r] = pc[r] /\ named'[r] = named[r]
          /\ UNCHANGED <<trek, removed, uncounted>>
      BY <1>8 DEF InsertReview, Aggregate, WriteAggregate
    <2>2. QED
      BY <1>8, <2>1, <1>7
  <1>9. ASSUME UNCHANGED accountVars, NEW r \in Calls, Fail(r) PROVE Goal
    <2>1. /\ pc' = [pc EXCEPT ![r] = "failed"] /\ pc[r] # "idle"
          /\ UNCHANGED <<trek, named, removed, uncounted>>
      BY <1>9 DEF Fail
    <2>2. \A u \in Visits : PublishedBy(u)' = PublishedBy(u)
      BY <2>1 DEF PublishedBy
    <2>3. \A q \in Publishes : /\ pc'[q] = IF q = r THEN "failed" ELSE pc[q]
                               /\ pc[q] # "idle" => named[q] \in Visits
                               /\ pc[q] = "count" => q \in PublishedBy(named[q])'
      BY <2>1, <2>2 DEF Listed
    <2>4. Listed'
      BY <1>9, <1>D, <2>1, <2>2, <2>3 DEF Listed
    <2>5. QED
      BY <2>1, <2>4, TreksSame
  <1>10. CASE UNCHANGED vars
    <2>1. UNCHANGED <<trek, removed, uncounted, pc, named, at>>
      BY <1>10 DEF vars, reviewVars, accountVars
    <2>2. QED
      BY <2>1, ListedSame, TreksSame
  <1>11. QED
    BY <1>1, <1>2, <1>3, <1>4, <1>5, <1>6, <1>8, <1>9, <1>10
       DEF Next, Moves, CallStep, Beside

Waiting(u) == {p \in PublishedBy(u) : p \in uncounted}

LEMMA FiniteTreks ==
  \A u : /\ IsFiniteSet(PublishedBy(u)) /\ IsFiniteSet(Waiting(u))
         /\ Cardinality(PublishedBy(u)) \in Nat /\ Cardinality(Waiting(u)) \in Nat
  <1>1. IsFiniteSet(Publishes)
    BY CallsAssumption
  <1>2. \A u : PublishedBy(u) \subseteq Publishes /\ Waiting(u) \subseteq Publishes
    BY DEF PublishedBy, Waiting
  <1>3. \A u : IsFiniteSet(PublishedBy(u)) /\ IsFiniteSet(Waiting(u))
    BY <1>1, <1>2, FS_Subset
  <1>4. QED
    BY <1>3, FS_CardinalityType

LEMMA CountSame ==
  ASSUME TreksCounted, UNCHANGED <<treksCount, uncounted>>,
         \A u \in Visits : PublishedBy(u)' = PublishedBy(u)
  PROVE  TreksCounted'
  BY DEF TreksCounted

LEMMA CountStep ==
  TypeOK /\ Listed /\ TreksCounted /\ [Next]_vars => TreksCounted'
  <1> SUFFICES ASSUME TypeOK, Listed, TreksCounted, [Next]_vars PROVE TreksCounted'
    OBVIOUS
  <1>T. /\ trek \in [Treks -> Visits \cup {Nothing}]
        /\ treksCount \in [Visits -> Nat]
        /\ uncounted \subseteq Publishes
    BY DEF TypeOK
  <1>W. \A u \in Visits : treksCount[u] + Cardinality(Waiting(u)) = Cardinality(PublishedBy(u))
    BY DEF TreksCounted, Waiting
  <1>G. ASSUME \A u \in Visits : treksCount'[u] + Cardinality(Waiting(u)') = Cardinality(PublishedBy(u)')
        PROVE  TreksCounted'
    BY <1>G DEF TreksCounted, Waiting
  <1> USE Sets, <1>T DEF Goto
  <1>1. CASE UNCHANGED reviewVars
    <2>1. \A u \in Visits : PublishedBy(u)' = PublishedBy(u)
      BY <1>1 DEF reviewVars, PublishedBy
    <2>2. QED
      BY <1>1, <2>1, CountSame DEF reviewVars
  <1>2. CASE UNCHANGED <<trek, removed, treksCount, uncounted>>
    <2>1. \A u \in Visits : PublishedBy(u)' = PublishedBy(u)
      BY <1>2 DEF PublishedBy
    <2>2. QED
      BY <1>2, <2>1, CountSame
  <1>3. ASSUME NEW s \in Seeds, SeedTrek(s) PROVE TreksCounted'
    <2>1. /\ trek' = [trek EXCEPT ![s] = s] /\ UNCHANGED <<treksCount, removed, uncounted>>
      BY <1>3 DEF SeedTrek
    <2>2. \A u \in Visits : PublishedBy(u)' = PublishedBy(u)
      BY <2>1 DEF PublishedBy
    <2>3. QED
      BY <2>1, <2>2, CountSame
  <1>4. ASSUME NEW p \in Publishes, InsertTrek(p) PROVE TreksCounted'
    <2>1. /\ pc[p] = "insert" /\ named[p] \in Visits /\ trek' = [trek EXCEPT ![p] = named[p]]
          /\ uncounted' = uncounted \cup {p} /\ UNCHANGED <<treksCount, removed>>
      BY <1>4 DEF InsertTrek, Listed
    <2>2. \A u \in Visits : p \notin PublishedBy(u)
      BY <2>1 DEF Listed
    <2>3. \A u \in Visits : /\ u # named[p] => /\ PublishedBy(u)' = PublishedBy(u)
                                             /\ Waiting(u)' = Waiting(u)
                            /\ u = named[p] => /\ PublishedBy(u)' = PublishedBy(u) \cup {p}
                                               /\ Waiting(u)' = Waiting(u) \cup {p}
      <3>1. \A u \in Visits : /\ u # named[p] => PublishedBy(u)' = PublishedBy(u)
                              /\ u = named[p] => PublishedBy(u)' = PublishedBy(u) \cup {p}
        BY <2>1, <2>2 DEF PublishedBy
      <3>2. QED
        BY <3>1, <2>1, <2>2 DEF Waiting
    <2>4. \A u \in Visits : /\ Cardinality(PublishedBy(u) \cup {p}) = Cardinality(PublishedBy(u)) + 1
                            /\ Cardinality(Waiting(u) \cup {p}) = Cardinality(Waiting(u)) + 1
      BY <2>2, FiniteTreks, FS_AddElement DEF Waiting
    <2>5. ASSUME NEW u \in Visits
          PROVE  treksCount'[u] + Cardinality(Waiting(u)') = Cardinality(PublishedBy(u)')
      BY <2>1, <2>3, <2>4, <1>W, FiniteTreks
    <2>6. QED
      BY <2>5, <1>G
  <1>5. ASSUME NEW p \in Publishes, CountTrek(p) PROVE TreksCounted'
    <2>1. /\ pc[p] = "count" /\ treksCount' = [treksCount EXCEPT ![named[p]] = @ + 1]
          /\ uncounted' = uncounted \ {p} /\ UNCHANGED <<trek, removed>>
      BY <1>5 DEF CountTrek
    <2>2. /\ named[p] \in Visits /\ p \in Waiting(named[p])
          /\ \A u \in Visits : u # named[p] => p \notin PublishedBy(u)
      BY <2>1 DEF Listed, Waiting
    <2>3. \A u \in Visits : /\ PublishedBy(u)' = PublishedBy(u)
                            /\ u # named[p] => Waiting(u)' = Waiting(u)
                            /\ u = named[p] => Waiting(u)' = Waiting(u) \ {p}
      <3>1. \A u \in Visits : PublishedBy(u)' = PublishedBy(u)
        BY <2>1 DEF PublishedBy
      <3>2. QED
        BY <3>1, <2>1, <2>2 DEF Waiting
    <2>4. Cardinality(Waiting(named[p]) \ {p}) = Cardinality(Waiting(named[p])) - 1
      BY <2>2, FiniteTreks, FS_RemoveElement
    <2>5. ASSUME NEW u \in Visits
          PROVE  treksCount'[u] + Cardinality(Waiting(u)') = Cardinality(PublishedBy(u)')
      <3>1. /\ Cardinality(Waiting(u)) \in Nat /\ Cardinality(PublishedBy(u)) \in Nat
            /\ treksCount[u] \in Nat
            /\ treksCount[u] + Cardinality(Waiting(u)) = Cardinality(PublishedBy(u))
        BY FiniteTreks, <1>W
      <3>2. CASE u = named[p]
        <4>1. treksCount'[u] = treksCount[u] + 1
          BY <2>1, <3>2
        <4>2. Cardinality(Waiting(u)') = Cardinality(Waiting(u)) - 1
          BY <2>3, <2>4, <3>2
        <4>3. QED
          BY <2>3, <3>1, <4>1, <4>2
      <3>3. CASE u # named[p]
        BY <2>1, <2>2, <2>3, <3>1, <3>3
      <3>4. QED
        BY <3>2, <3>3
    <2>6. QED
      BY <2>5, <1>G
  <1>6. ASSUME NEW d \in Removals, NEW t \in Treks, RemoveTrek(d, t) PROVE TreksCounted'
    <2>1. /\ trek[t] \in Visits /\ trek' = [trek EXCEPT ![t] = Nothing]
          /\ removed' = removed \cup {<<t, trek[t]>>} /\ UNCHANGED <<treksCount, uncounted>>
      BY <1>6 DEF RemoveTrek
    <2>2. \A u \in Visits : PublishedBy(u)' = PublishedBy(u)
      BY <2>1 DEF PublishedBy
    <2>3. QED
      BY <2>1, <2>2, CountSame
  <1>7. QED
    BY <1>1, <1>2, <1>3, <1>4, <1>5, <1>6
       DEF Next, Moves, CallStep, vars, CheckRole, InsertReview, Aggregate, WriteAggregate, Fail

ListingInv == AccountsInv /\ TypeOK /\ Listed

LEMMA AlwaysListed == Spec => [](ListingInv)
  <1>1. Init => ListingInv
    BY AccountsInitially, ListedInit DEF Init, ListingInv
  <1>2. ListingInv /\ [Next]_vars => ListingInv'
    BY AccountsNext, TypeStep, ListedStep DEF ListingInv
  <1>3. QED
    BY <1>1, <1>2, PTL DEF Spec

\* TypeOK is an invariant of Reviews, and of Accounts with it.
THEOREM Typing == Spec => []TypeOK
  <1>1. ListingInv => TypeOK
    BY DEF ListingInv
  <1>2. QED
    BY <1>1, AlwaysListed, PTL

\* treksCount counts what an account ever published, but for the increments
\* that are under way or were lost.
THEOREM TreksAreCounted == Spec => []TreksCounted
  <1>1. Init => TreksCounted
    <2>1. ASSUME Init, NEW u \in Visits PROVE PublishedBy(u) = {}
      BY <2>1, Sets DEF Init, PublishedBy
    <2>2. QED
      BY <2>1, FS_EmptySet DEF Init, TreksCounted
  <1>2. ListingInv /\ TreksCounted /\ [Next]_vars => TreksCounted'
    BY CountStep DEF ListingInv
  <1>3. QED
    BY <1>1, <1>2, AlwaysListed, PTL DEF Spec

-----------------------------------------------------------------------------
(* Ratings.                                                                *)

\* What a review has seen is stored; it is of a target that can be written
\* when its call has ended.
Stored ==
    \A v \in Reviewers :
        /\ pc[v] = "idle" => v \notin stored /\ seen[v] = {}
        /\ pc[v] # "idle" => v \in stored /\ named[v] \in Targets /\ Known(named[v])
        /\ seen[v] \subseteq ReviewsOf(named[v])
        /\ pc[v] \in {"write", "ended"} => v \in seen[v]
        /\ pc[v] = "ended" => ~Unwritable(named[v])
        /\ pc[v] \in {"idle", "aggregate"} => \A w \in Reviewers : <<w, v>> \notin older

\* What is in hand covers what others have counted, but for those it is noted
\* to be older than.
Pending ==
    \A v, w \in Reviewers : named[v] = named[w] /\ pc[w] = "write" =>
        seen[v] \subseteq seen[w] \/ <<v, w>> \in older

SettleInv == Stored /\ Pending /\ RatingsSettle

LEMMA SettleInit == Init => SettleInv
  BY DEF Init, SettleInv, Stored, Pending, RatingsSettle, ReviewsOf, Calls

\* What a review named stays known, and cannot become a place to write to.
LEMMA TargetStays ==
  ASSUME AccountsInv, AccountsInv', Grows, TreksMove, NEW x \in Targets, Known(x)
  PROVE  /\ Known(x)'
         /\ ~Unwritable(x) => ~Unwritable(x)' /\ (Rated(x)' => Rated(x))
  <1>1. CASE x \in Visits
    <2>1. Exists(x) /\ Exists(x)' /\ account'[x].vendor = account[x].vendor
          /\ (account[x].profile => account'[x].profile)
      BY <1>1, Sets DEF Known, Grows
    <2>2. QED
      BY <1>1, <2>1 DEF Known, Unwritable, Rated
  <1>2. CASE x \notin Visits
    <2>1. PICK t \in Treks : x = Trek(t) /\ Published(t)
      BY <1>2 DEF Known, Published
    <2>2. Published(t)' /\ ~(trek[t] = Nothing /\ trek'[t] # Nothing)
      BY <2>1 DEF TreksMove
    <2>3. x[2] = t
      BY <2>1, Sets
    <2>4. QED
      BY <1>2, <2>1, <2>2, <2>3 DEF Known, Published, Unwritable, Rated
  <1>3. QED
    BY <1>1, <1>2

\* A step of somebody else.
LEMMA SettleSame ==
  ASSUME AccountsInv, AccountsInv', Grows, TreksMove, TypeOK, SettleInv,
         \A v \in Reviewers : pc'[v] = pc[v] /\ named'[v] = named[v],
         UNCHANGED <<stored, seen, rating, older>>
  PROVE  SettleInv'
  <1>T. stored \subseteq Reviewers
    BY DEF TypeOK
  <1>1. \A x : ReviewsOf(x)' = ReviewsOf(x)
    BY <1>T DEF ReviewsOf
  <1>2. Stored'
    <2>1. ASSUME NEW v \in Reviewers PROVE seen'[v] \subseteq ReviewsOf(named[v])'
      BY <1>1, <2>1 DEF SettleInv, Stored
    <2>2. ASSUME NEW v \in Reviewers, pc[v] # "idle"
          PROVE  Known(named[v])' /\ (pc[v] = "ended" => ~Unwritable(named[v])')
      BY <2>2, TargetStays DEF SettleInv, Stored
    <2>3. QED
      BY <2>1, <2>2 DEF SettleInv, Stored
  <1>3. Pending'
    BY DEF SettleInv, Pending
  <1>4. RatingsSettle'
    <2>1. ASSUME NEW x \in Targets, NEW v \in ReviewsOf(x), pc[v] = "ended", Rated(x)'
          PROVE  Rated(x)
      BY <2>1, <1>T, TargetStays DEF SettleInv, Stored, ReviewsOf
    <2>2. ASSUME NEW x \in Targets, NEW v \in ReviewsOf(x), pc[v] = "ended", Rated(x)'
          PROVE  \/ seen[v] \cup {v} \subseteq rating[x]
                 \/ \E w \in ReviewsOf(x) : <<v, w>> \in older /\ rating[x] = seen[w]
      BY <2>1, <2>2 DEF SettleInv, RatingsSettle
    <2>3. \A x \in Targets : rating[x] \subseteq ReviewsOf(x)
      BY DEF SettleInv, RatingsSettle
    <2>4. \A x \in Targets : \A v \in ReviewsOf(x) : pc'[v] = pc[v]
      BY <1>T DEF ReviewsOf
    <2>5. QED
      BY <1>1, <2>2, <2>3, <2>4 DEF RatingsSettle
  <1>5. QED
    BY <1>2, <1>3, <1>4 DEF SettleInv

\* Where to write to does not depend on the reviews.
LEMMA TargetsSame ==
  UNCHANGED <<account, trek, removed>> =>
      /\ \A x : Known(x)' = Known(x)
      /\ \A x : Rated(x)' = Rated(x)
      /\ \A x : Unwritable(x)' = Unwritable(x)
  BY DEF Known, Rated, Unwritable, Exists

LEMMA SettleInsert ==
  ASSUME TypeOK, SettleInv, UNCHANGED accountVars,
         NEW v \in Reviewers, NEW x \in Targets, InsertReview(v, x)
  PROVE  SettleInv'
  <1>T. /\ stored \subseteq Reviewers
        /\ pc \in [Calls -> {"idle", "insert", "count", "aggregate", "write"} \cup Ended]
        /\ named \in [Calls -> Visits \cup Targets \cup {Nothing}]
    BY DEF TypeOK
  <1> USE Sets, <1>T
  <1>1. /\ Known(x) /\ pc[v] = "idle" /\ stored' = stored \cup {v}
        /\ \A w \in Reviewers : /\ pc'[w] = IF w = v THEN "aggregate" ELSE pc[w]
                                /\ named'[w] = IF w = v THEN x ELSE named[w]
        /\ UNCHANGED <<trek, rating, seen, removed, older, account>>
    BY DEF InsertReview, Goto, accountVars
  <1>2. v \notin stored /\ seen[v] = {}
    BY <1>1 DEF SettleInv, Stored
  <1>3. \A y : ReviewsOf(y)' = IF y = x THEN ReviewsOf(y) \cup {v} ELSE ReviewsOf(y)
    BY <1>1, <1>2 DEF ReviewsOf
  <1>4. Stored'
    <2>1. ASSUME NEW w \in Reviewers PROVE seen'[w] \subseteq ReviewsOf(named[w])'
      <3>1. CASE w = v
        BY <1>1, <1>2, <3>1
      <3>2. CASE w # v
        BY <1>1, <1>3, <3>2 DEF SettleInv, Stored
      <3>3. QED
        BY <3>1, <3>2
    <2>3. ASSUME NEW w \in Reviewers, pc'[w] # "idle"
          PROVE  w \in stored' /\ named'[w] \in Targets /\ Known(named[w])'
      BY <1>1, <2>3, TargetsSame DEF SettleInv, Stored
    <2>4. ASSUME NEW w \in Reviewers, pc'[w] = "ended" PROVE w # v /\ ~Unwritable(named[w])'
      BY <1>1, <2>4, TargetsSame DEF SettleInv, Stored
    <2>5. ASSUME NEW w \in Reviewers, pc'[w] = "idle" PROVE w \notin stored' /\ seen'[w] = {}
      BY <1>1, <2>5 DEF SettleInv, Stored
    <2>6. ASSUME NEW w \in Reviewers, pc'[w] \in {"write", "ended"} PROVE w \in seen'[w]
      BY <1>1, <2>6 DEF SettleInv, Stored
    <2>7. ASSUME NEW w \in Reviewers, pc'[w] \in {"idle", "aggregate"}, NEW z \in Reviewers
          PROVE  <<z, w>> \notin older'
      BY <1>1, <2>7 DEF SettleInv, Stored
    <2>8. QED
      BY <2>1, <2>3, <2>4, <2>5, <2>6, <2>7 DEF Stored
  <1>5. Pending'
    BY <1>1, <1>2 DEF SettleInv, Pending
  <1>6. RatingsSettle'
    <2>1. ASSUME NEW y \in Targets PROVE rating'[y] \subseteq ReviewsOf(y)'
      BY <1>1, <1>3 DEF SettleInv, RatingsSettle
    <2>2. ASSUME NEW y \in Targets, NEW w \in ReviewsOf(y)', pc'[w] = "ended", Rated(y)'
          PROVE  \/ seen'[w] \cup {w} \subseteq rating'[y]
                 \/ \E z \in ReviewsOf(y)' : <<w, z>> \in older' /\ rating'[y] = seen'[z]
      <3>1. w \in Reviewers /\ w # v /\ pc[w] = "ended"
        BY <1>1, <2>2 DEF ReviewsOf
      <3>2. w \in ReviewsOf(y) /\ Rated(y)
        BY <1>1, <1>3, <2>2, <3>1, TargetsSame
      <3>3. \/ seen[w] \cup {w} \subseteq rating[y]
            \/ \E z \in ReviewsOf(y) : <<w, z>> \in older /\ rating[y] = seen[z]
        BY <3>1, <3>2 DEF SettleInv, RatingsSettle
      <3>4. QED
        BY <1>1, <1>3, <3>3
    <2>3. QED
      BY <2>1, <2>2 DEF RatingsSettle
  <1>7. QED
    BY <1>4, <1>5, <1>6 DEF SettleInv

LEMMA SettleAggregate ==
  ASSUME TypeOK, SettleInv, UNCHANGED accountVars, NEW v \in Reviewers, Aggregate(v)
  PROVE  SettleInv'
  <1>T. /\ stored \subseteq Reviewers
        /\ pc \in [Calls -> {"idle", "insert", "count", "aggregate", "write"} \cup Ended]
        /\ seen \in [Reviewers -> SUBSET Reviewers]
    BY DEF TypeOK
  <1> USE Sets, <1>T
  <1>1. /\ pc[v] = "aggregate"
        /\ \A w \in Reviewers : /\ pc'[w] = IF w = v THEN "write" ELSE pc[w]
                                /\ seen'[w] = IF w = v THEN ReviewsOf(named[v]) ELSE seen[w]
        /\ older' = older \cup {<<v, w>> : w \in InHand(named[v])}
        /\ UNCHANGED <<trek, rating, named, stored, removed, account>>
    BY DEF Aggregate, Goto, accountVars
  <1>2. \A y : ReviewsOf(y)' = ReviewsOf(y)
    BY <1>1 DEF ReviewsOf
  <1>3. v \in ReviewsOf(named[v])
    BY <1>1 DEF SettleInv, Stored, ReviewsOf
  <1>4. Stored'
    <2>1. ASSUME NEW w \in Reviewers, pc'[w] \in {"idle", "aggregate"}, NEW z \in Reviewers
          PROVE  <<z, w>> \notin older'
      BY <1>1, <2>1 DEF SettleInv, Stored, InHand
    <2>2. QED
      BY <1>1, <1>2, <1>3, <2>1, TargetsSame DEF SettleInv, Stored
  <1>5. Pending'
    <2> SUFFICES ASSUME NEW z \in Reviewers, NEW w \in Reviewers, named[z] = named[w], pc'[w] = "write"
                 PROVE  seen'[z] \subseteq seen'[w] \/ <<z, w>> \in older'
      BY <1>1 DEF Pending
    <2>1. CASE w = v
      BY <1>1, <2>1 DEF SettleInv, Stored
    <2>2. CASE w # v /\ z = v
      BY <1>1, <2>2 DEF InHand
    <2>3. CASE w # v /\ z # v
      BY <1>1, <2>3 DEF SettleInv, Pending
    <2>4. QED
      BY <2>1, <2>2, <2>3
  <1>6. RatingsSettle'
    <2>1. ASSUME NEW y \in Targets PROVE rating'[y] \subseteq ReviewsOf(y)'
      BY <1>1, <1>2 DEF SettleInv, RatingsSettle
    <2>2. ASSUME NEW y \in Targets, NEW w \in ReviewsOf(y), pc'[w] = "ended", Rated(y)
          PROVE  \/ seen'[w] \cup {w} \subseteq rating'[y]
                 \/ \E z \in ReviewsOf(y) : <<w, z>> \in older' /\ rating'[y] = seen'[z]
      <3>1. w \in Reviewers /\ w # v /\ pc[w] = "ended"
        BY <1>1, <2>2 DEF ReviewsOf
      <3>2. CASE seen[w] \cup {w} \subseteq rating[y]
        BY <1>1, <3>1, <3>2
      <3>3. CASE \E z \in ReviewsOf(y) : <<w, z>> \in older /\ rating[y] = seen[z]
        <4>1. PICK z \in ReviewsOf(y) : <<w, z>> \in older /\ rating[y] = seen[z]
          BY <3>3
        <4>2. z \in Reviewers /\ named[z] = y
          BY DEF ReviewsOf
        <4>3. CASE z # v
          BY <1>1, <4>1, <4>2, <4>3
        <4>4. CASE z = v
          BY <1>1, <3>1, <4>1, <4>4 DEF SettleInv, Stored
        <4>5. QED
          BY <4>3, <4>4
      <3>4. QED
        BY <2>2, <3>1, <3>2, <3>3 DEF SettleInv, RatingsSettle
    <2>3. QED
      BY <1>1, <1>2, <2>1, <2>2, TargetsSame DEF RatingsSettle
  <1>7. QED
    BY <1>4, <1>5, <1>6 DEF SettleInv

LEMMA SettleWrite ==
  ASSUME TypeOK, SettleInv, UNCHANGED accountVars, NEW v \in Reviewers, WriteAggregate(v)
  PROVE  SettleInv'
  <1>T. /\ stored \subseteq Reviewers
        /\ pc \in [Calls -> {"idle", "insert", "count", "aggregate", "write"} \cup Ended]
        /\ rating \in [Targets -> SUBSET Reviewers]
    BY DEF TypeOK
  <1> USE Sets, <1>T
  <1> DEFINE x == named[v]
  <1>1. /\ pc[v] = "write"
        /\ pc'[v] = IF Unwritable(x) THEN "failed" ELSE "ended"
        /\ \A w \in Reviewers \ {v} : pc'[w] = pc[w]
        /\ UNCHANGED <<trek, seen, named, stored, removed, older, account>>
    BY DEF WriteAggregate, Goto, accountVars
  <1>2. \A y : ReviewsOf(y)' = ReviewsOf(y)
    BY <1>1 DEF ReviewsOf
  <1>3. /\ x \in Targets /\ v \in seen[v] /\ seen[v] \subseteq ReviewsOf(x)
    BY <1>1 DEF SettleInv, Stored
  <1>4. \A y \in Targets : rating'[y] = IF y = x /\ Rated(x) THEN seen[v] ELSE rating[y]
    BY <1>3 DEF WriteAggregate
  <1>5. Stored'
    BY <1>1, <1>2, TargetsSame DEF SettleInv, Stored
  <1>6. Pending'
    BY <1>1 DEF SettleInv, Pending
  <1>7. RatingsSettle'
    <2>1. ASSUME NEW y \in Targets PROVE rating'[y] \subseteq ReviewsOf(y)'
      BY <1>2, <1>3, <1>4 DEF SettleInv, RatingsSettle
    <2>2. ASSUME NEW y \in Targets, NEW z \in ReviewsOf(y), pc'[z] = "ended", Rated(y)
          PROVE  \/ seen[z] \cup {z} \subseteq rating'[y]
                 \/ \E w \in ReviewsOf(y) : <<z, w>> \in older /\ rating'[y] = seen[w]
      <3>1. CASE y # x
        <4>1. z # v /\ pc[z] = "ended" /\ rating'[y] = rating[y]
          BY <1>1, <1>4, <2>2, <3>1 DEF ReviewsOf
        <4>2. QED
          BY <2>2, <4>1 DEF SettleInv, RatingsSettle
      <3>2. CASE y = x /\ z = v
        BY <1>3, <1>4, <2>2, <3>2
      <3>3. CASE y = x /\ z # v
        <4>1. pc[z] = "ended" /\ named[z] = named[v] /\ rating'[y] = seen[v] /\ v \in ReviewsOf(y)
          BY <1>1, <1>3, <1>4, <2>2, <3>3 DEF ReviewsOf
        <4>2. z \in seen[z] /\ (seen[z] \subseteq seen[v] \/ <<z, v>> \in older)
          BY <1>1, <2>2, <4>1 DEF SettleInv, Stored, Pending, ReviewsOf
        <4>3. QED
          BY <4>1, <4>2
      <3>4. QED
        BY <3>1, <3>2, <3>3
    <2>3. QED
      BY <1>1, <1>2, <2>1, <2>2, TargetsSame DEF RatingsSettle
  <1>8. QED
    BY <1>5, <1>6, <1>7 DEF SettleInv

LEMMA SettleFail ==
  ASSUME TypeOK, SettleInv, UNCHANGED accountVars, NEW v \in Reviewers, Fail(v)
  PROVE  SettleInv'
  <1>T. /\ stored \subseteq Reviewers
        /\ pc \in [Calls -> {"idle", "insert", "count", "aggregate", "write"} \cup Ended]
    BY DEF TypeOK
  <1> USE Sets, <1>T
  <1>1. /\ pc[v] # "idle"
        /\ \A w \in Reviewers : pc'[w] = IF w = v THEN "failed" ELSE pc[w]
        /\ UNCHANGED <<trek, rating, seen, named, stored, removed, older, account>>
    BY DEF Fail, accountVars
  <1>2. \A y : ReviewsOf(y)' = ReviewsOf(y)
    BY <1>1 DEF ReviewsOf
  <1>3. Stored'
    BY <1>1, <1>2, TargetsSame DEF SettleInv, Stored
  <1>4. Pending'
    BY <1>1 DEF SettleInv, Pending
  <1>5. RatingsSettle'
    BY <1>1, <1>2, TargetsSame DEF SettleInv, RatingsSettle, ReviewsOf
  <1>6. QED
    BY <1>3, <1>4, <1>5 DEF SettleInv

LEMMA SettleStep ==
  ASSUME ListingInv, ListingInv', Grows, TreksMove, SettleInv, [Next]_vars
  PROVE  SettleInv'
  <1> USE Sets DEF ListingInv
  <1>T. /\ pc \in [Calls -> {"idle", "insert", "count", "aggregate", "write"} \cup Ended]
        /\ named \in [Calls -> Visits \cup Targets \cup {Nothing}]
    BY DEF TypeOK
  <1>1. CASE UNCHANGED reviewVars
    BY <1>1, SettleSame DEF reviewVars
  <1>2. ASSUME NEW r \in Calls, r \notin Reviewers,
               \A q \in Calls \ {r} : pc'[q] = pc[q] /\ named'[q] = named[q],
               UNCHANGED <<stored, seen, rating, older>>
        PROVE  SettleInv'
    BY <1>2, SettleSame
  <1>3. ASSUME NEW s \in Seeds, SeedTrek(s) PROVE SettleInv'
    <2>1. UNCHANGED <<pc, named, stored, seen, rating, older>>
      BY <1>3 DEF SeedTrek
    <2>2. QED
      BY <2>1, SettleSame
  <1>4. ASSUME NEW p \in Publishes,
               \/ \E u \in Visits, type \in {"vendor", "peer"} : CheckRole(p, u, type)
               \/ InsertTrek(p) \/ CountTrek(p)
        PROVE  SettleInv'
    BY <1>4, <1>T, <1>2 DEF CheckRole, InsertTrek, CountTrek, Goto
  <1>5. ASSUME NEW d \in Removals, NEW t \in Treks, RemoveTrek(d, t) PROVE SettleInv'
    BY <1>5, <1>T, <1>2 DEF RemoveTrek, Goto
  <1>6. ASSUME UNCHANGED accountVars, NEW v \in Reviewers, NEW x \in Targets,
               InsertReview(v, x) \/ Aggregate(v) \/ WriteAggregate(v)
        PROVE  SettleInv'
    BY <1>6, SettleInsert, SettleAggregate, SettleWrite
  <1>7. ASSUME UNCHANGED accountVars, NEW r \in Calls, Fail(r) PROVE SettleInv'
    <2>1. CASE r \in Reviewers
      BY <1>7, <2>1, SettleFail
    <2>2. CASE r \notin Reviewers
      BY <1>7, <2>2, <1>T, <1>2 DEF Fail
    <2>3. QED
      BY <2>1, <2>2
  <1>8. CASE UNCHANGED vars
    BY <1>1, <1>8 DEF vars
  <1>9. ASSUME UNCHANGED accountVars, NEW r \in Calls, CallStep(r) PROVE SettleInv'
    BY <1>4, <1>5, <1>6, <1>7, <1>9 DEF CallStep
  <1>10. QED
    BY <1>1, <1>3, <1>8, <1>9 DEF Next, Moves

\* In whatever order any number of reviews compute and write their aggregates:
\* one that has ended is counted, with all it counted itself, except where a
\* review that had computed before it wrote after it.
THEOREM RatingsAreSettled == Spec => []RatingsSettle
  <1>1. ListingInv /\ ListingInv' /\ SettleInv /\ [Next]_vars => SettleInv'
    BY AccountsNext, ListedStep, SettleStep DEF ListingInv
  <1>2. SettleInv => RatingsSettle
    BY DEF SettleInv
  <1>3. QED
    BY SettleInit, <1>1, <1>2, AlwaysListed, PTL DEF Spec
=============================================================================
