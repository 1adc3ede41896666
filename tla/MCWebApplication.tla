-------------------------- MODULE MCWebApplication --------------------------
(* The parts of the web application that share no state, for TLC: a          *)
(* behaviour is one of one part, the others stay as they began.  What users  *)
(* begin and what goes wrong or comes in between is limited in number.       *)
EXTENDS CaseForms, GeneralCases, CaseInput, EmailQuota,
        ReminderCreation, PasswordChange, ProfileImages, PageData, TLC

CONSTANTS
    Parts,                       \* the parts a behaviour may be one of
    MaxOpened, MaxMishaps,       \* [part -> bound]
    MaxTogether,                 \* [part -> bound of their sum]
    a1, a2, b1, b2, c1, c2       \* elements of the sets the parts are instantiated with

VARIABLES part, opened, mishaps

Mail(category, to) == [category |-> category, to |-> to]

\* A case that was created before.
FileCreated ==
    \E c \in Files, x \in Contents :
        /\ x.number # Nothing
        /\ file = [d \in Files |-> IF d = c
               THEN [state |-> "live", content |-> x, version |-> 1]
               ELSE [state |-> "none", content |-> Nothing, version |-> 0]]
        /\ changes = [d \in Files |-> IF d = c
               THEN <<[type |-> "CREATED", previous |-> 0, new |-> 1, snapshot |-> x,
                       shown |-> Nothing, refreshed |-> FALSE]>> ELSE << >>]
        /\ activity = [d \in Files |-> {}]
        /\ page = [p \in Pages |-> NoPage] /\ call = [k \in Calls |-> NoCall]
ClaimCreated ==
    \E c \in Claims, g \in Generals :
        LET l == CHOOSE l \in PaymentLists : TRUE IN
        /\ ApplicationNo[g] # Nothing
        /\ claim = [d \in Claims |-> IF d = c
               THEN [state |-> "live", general |-> g, payments |-> l, version |-> 1]
               ELSE [state |-> "none", general |-> Nothing, payments |-> Nothing,
                     version |-> 0]]
        /\ saves = [d \in Claims |-> IF d = c
               THEN <<[form |-> [general |-> g, payments |-> l], known |-> Unknown,
                       skipped |-> FALSE]>> ELSE << >>]
        /\ enclosed = [d \in Claims |-> {}]
        /\ window = [w \in Windows |-> NoWindow]
        /\ request = [r \in Requests |-> NoRequest]

\* Parts that begin in several ways begin in one where they are not looked at.
WebInit ==
    /\ part \in Parts /\ opened = 0 /\ mishaps = 0
    /\ IF part = "enforcement" THEN FileCreated ELSE EnforcementInit
    /\ IF part = "insurance" THEN ClaimCreated ELSE InsuranceInit
    /\ GeneralInit /\ InputInit /\ QuotaInit
    /\ CreationInit /\ PasswordInit /\ ImageInit /\ PageDataInit
    /\ part # "amounts" => amount.form = "general"
    /\ part # "quota" => \A m \in Mails : job[m] = Mail("reminder", "r1")
    /\ part # "list" => /\ list.query = CHOOSE q \in Queries : TRUE
                        /\ fetch[CHOOSE f \in Fetches : TRUE].pc = "sent"
    /\ part # "panel" => panel.kind = "notes" /\ stored = NoItems
    /\ \A i \in Items : stored[i] \in {Nothing, "x"}

Bounded(opening, work, mishap) ==
    \/ work /\ UNCHANGED <<opened, mishaps>>
    \/ /\ opened + mishaps < MaxTogether[part]
       /\ \/ /\ opening /\ opened < MaxOpened[part]
             /\ opened' = opened + 1 /\ UNCHANGED mishaps
          \/ /\ mishap /\ mishaps < MaxMishaps[part]
             /\ mishaps' = mishaps + 1 /\ UNCHANGED opened

Budget == <<opened, mishaps>>
Stays(p, x) == IF part = p THEN TRUE ELSE UNCHANGED x
OthersStay ==
    /\ Stays("enforcement", enforcementVars)
    /\ Stays("insurance", insuranceVars)
    /\ Stays("general", generalVars)
    /\ Stays("creation", creationVars)
    /\ Stays("quota", vars)
    /\ Stays("password", passwordVars)
    /\ Stays("image", imageVars)
    /\ Stays("list", listVars)
    /\ Stays("panel", panelVars)
    /\ IF part \in {"amounts", "claims"} THEN TRUE ELSE UNCHANGED inputVars

WebNext ==
    /\ UNCHANGED part
    /\ OthersStay
    /\ \/ /\ part = "enforcement"
          /\ Bounded(EnforcementOpening, EnforcementWork, EnforcementMishap)
       \/ /\ part = "insurance"
          /\ Bounded(InsuranceOpening, InsuranceWork, InsuranceMishap)
       \/ /\ part = "general"
          /\ Bounded(GeneralOpening, GeneralWork, GeneralMishap)
       \/ /\ part = "creation"
          /\ Bounded(CreationOpening, CreationWork, CreationMishap)
       \/ /\ part = "password" /\ Bounded(FALSE, PasswordWork, PasswordMishap)
       \/ /\ part = "image" /\ Bounded(FALSE, ImageWork, ImageMishap)
       \/ /\ part = "amounts" /\ AmountNext /\ UNCHANGED Budget
       \/ /\ part = "claims" /\ ClaimNext /\ UNCHANGED Budget
       \/ /\ part = "quota" /\ QuotaNext /\ UNCHANGED Budget
       \/ /\ part = "list" /\ ListNext /\ UNCHANGED Budget
       \/ /\ part = "panel" /\ Bounded(PanelOpening, PanelWork, PanelMishap)
allVars == <<enforcementVars, insuranceVars, generalVars, inputVars, vars, creationVars,
             passwordVars, imageVars, listVars, panelVars, part, opened, mishaps>>
WebSpec == WebInit /\ [][WebNext]_allVars
-----------------------------------------------------------------------------
(* Instances                                                               *)

FormContents ==
    {[body |-> "a", status |-> "s", number |-> "n1"],
     [body |-> "b", status |-> "t", number |-> Nothing]}
OneAttachment == <<"note">>
ApplicationNumbers == [g \in Generals |-> IF g = "g1" THEN "n1" ELSE Nothing]
SomeDrafts ==
    {[restricted |-> FALSE, people |-> {"u1"}, expected |-> 2, status |-> "ACTIVE",
      stage |-> "CASE_OPENING"],
     [restricted |-> TRUE, people |-> {"u1"}, expected |-> Nothing, status |-> "CLOSED",
      stage |-> "CLOSED"],
     [restricted |-> FALSE, people |-> {"u2"}, expected |-> 0, status |-> "ACTIVE",
      stage |-> "CLOSED"]}
SomeBeginnings ==
    {[amounts |-> [e \in Entries |-> IF e = x THEN 1 ELSE 0],
      notes |-> {[text |-> "n", private |-> TRUE]}] : x \in Entries}
Written(whole, dots, mark, fraction) ==
    [whole |-> whole, dots |-> dots, mark |-> mark, fraction |-> fraction]
SomeTexts ==
    {Written(1250, FALSE, "none", <<>>), Written(1250, TRUE, "comma", <<5>>),
     Written(12, FALSE, "dot", <<5, 0>>), Written(12, FALSE, "comma", <<5, 0, 5>>),
     Written(999, FALSE, "comma", <<>>), Written(1234567, FALSE, "none", <<>>),
     Written(3000000, FALSE, "none", <<>>)}
SomeInputs ==
    [claims : SUBSET {"damage", "depreciation", "profit"}, damage : {0, 7, 150},
     depreciation : {0, 5}, days : {0, 3}, daily : {0, 4}, interest : {1},
     discount : {0, 11, 150}, installments : {Nothing, 0, 1, 5},
     office : {TRUE}, number : BOOLEAN]
SmallAllowance ==
    [c \in Channels |-> [r \in RequestRules \cup DeliveryRules |->
        IF r \in {"request-daily", "hourly", "global-daily"}
            \/ (c = "reminder" /\ r = "channel-daily")
        THEN 2 ELSE 1]]

\* Two mails alike, which share every counter, or two that share those of their channel
\* or of all mails.
MailPairs ==
    {<<Mail("password-reset", "r1"), Mail("password-reset", "r1")>>,
     <<Mail("reminder", "r1"), Mail("reminder", "r1")>>,
     <<Mail("reminder", "r1"), Mail("reminder", "r2")>>,
     <<Mail("reminder", "r1"), Mail("password-reset", "r1")>>}
SomeJobs ==
    {j \in [Mails -> {Mail(c, to) : c \in Categories, to \in Recipients}] :
        \E m, n \in Mails : m # n /\ <<j[m], j[n]>> \in MailPairs}

\* The sets of several parts are made of the same elements, so that they are permuted
\* together.
Symmetry == Permutations({a1, a2}) \cup Permutations({b1, b2}) \cup Permutations({c1, c2})

OpenedAtMost ==
    [p \in Parts |-> CASE p = "enforcement" -> 3 [] p = "insurance" -> 3
                       [] p = "general" -> 3 [] p = "creation" -> 4
                       [] p = "panel" -> 3 [] OTHER -> 0]
MishapsAtMost ==
    [p \in Parts |-> CASE p = "enforcement" -> 2 [] p = "insurance" -> 1
                       [] p = "general" -> 1 [] p = "creation" -> 2
                       [] p = "password" -> 2 [] p = "image" -> 2
                       [] p = "panel" -> 2 [] OTHER -> 0]
TogetherAtMost ==
    [p \in Parts |-> CASE p = "enforcement" -> 4 [] p = "insurance" -> 3
                       [] p = "general" -> 3 [] p = "creation" -> 5
                       [] p = "panel" -> 4 [] OTHER -> 2]
=============================================================================
