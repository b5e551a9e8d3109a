----------------------------- MODULE MailerProofs ----------------------------
(* Theorems about Mailer, for all settings, rows, mails, locales, every    *)
(* MaxAttempts, number of tries and number of faults of any kind.          *)
EXTENDS Mailer, TLAPS

(* The locale a mail of command c is meant to be in. *)
LocaleOf(c) ==
    CASE given.mails[c].user = "anonymous" -> None
      [] given.mails[c].user # "anonymous" /\ given.mails[c].locale # None
            -> given.mails[c].locale
      [] OTHER -> TenantLocale

(* What a job holds is what its mail wants or, degraded, a substitute. *)
RightLocale == locale = LocaleOf(run[1]) \/ (locale = None /\ run \in degraded)

RightLanguage(l) == l = Wanted(run[1]) \/ (l = None /\ run \in degraded)

RightStyle(s) == Mine.style \in {None, s}

RightServer ==
    /\ config.provider \in {"smtp", "ses"}
    /\ config = ConfigOf(run[1]) \/ (config = App /\ run \in degraded)

-----------------------------------------------------------------------------
(* The inductive invariant *)

(* The locale is found before the request, what is installed for it is in  *)
(* place until the mail is rendered, and the mail keeps it.                *)
Language ==
    /\ pc \in {"idle", "load", "user"} => locale = None
    /\ pc \in {"user", "default_locale"} => Mine.user # "anonymous"
    /\ pc = "default_locale" => locale = None /\ Mine.locale = None
    /\ pc \in {"request", "config", "template", "load_locale"} => RightLocale
    /\ pc = "render" => RightLanguage(installed)
    /\ pc = "send" => RightLanguage(message.locale)

Styling ==
    /\ pc \in {"config", "template", "load_locale", "render"} => RightStyle(style)
    /\ pc = "send" => RightStyle(message.style)

ServerChosen == pc \in {"template", "load_locale", "render", "send"} => RightServer

(* A job that has succeeded has delivered. *)
Sent == pc = "succeeded" => ~App.enabled \/ \E m \in delivered : m.run[1] = run[1]

Trying == pc = "send" => tries < Tries

IInv ==
    /\ TypeOK
    /\ Language
    /\ Styling
    /\ ServerChosen
    /\ Sent
    /\ Trying
    /\ RenderedForRecipient
    /\ SentByNamedServer
    /\ DoneMeansDelivered
-----------------------------------------------------------------------------
(* Configurations *)

LEMMA GivenType ==
    ASSUME NEW g \in Given
    PROVE  /\ g.settings \in Settings
           /\ g.row # None => g.row \in Row
           /\ g.mails \in [Commands -> Mail]
<1>1. g \in [settings : Settings, row : {None} \cup Row, mails : [Commands -> Mail]]
  BY MailerAssumption
<1>. QED  BY <1>1

LEMMA ProviderType ==
    \A name : ProviderOf(name) # None => ProviderOf(name) \in {"smtp", "ses"}
BY DEF ProviderOf

(* Whoever fills in keys leaves the rest alone. *)
LEMMA UpdateAwsEffect ==
    ASSUME NEW enabled, NEW provider, NEW smtp, NEW ses, NEW origin, NEW aws, NEW cfg,
           cfg = [enabled |-> enabled, provider |-> provider, smtp |-> smtp,
                  ses |-> ses, origin |-> origin]
    PROVE  /\ UpdateAws(cfg, aws).enabled = enabled
           /\ UpdateAws(cfg, aws).provider = provider
           /\ UpdateAws(cfg, aws).smtp = smtp
           /\ provider = "ses" =>
                 LET keys == IF HasCredentials(ses) THEN ses ELSE aws
                 IN /\ UpdateAws(cfg, aws).ses.key = keys.key
                    /\ UpdateAws(cfg, aws).ses.secret = keys.secret
<1>1. CASE provider # "ses"
  BY <1>1 DEF UpdateAws
<1>2. CASE provider = "ses"
  <2>. DEFINE keys == IF HasCredentials(ses) THEN ses ELSE aws
  <2>1. cfg.provider = "ses" /\ cfg.ses = ses
    BY <1>2
  <2>2. PICK region :
          UpdateAws(cfg, aws) = [cfg EXCEPT !.ses =
            [key |-> keys.key, secret |-> keys.secret, region |-> region]]
    BY <2>1 DEF UpdateAws
  <2>. QED  BY <1>2, <2>2
<1>. QED  BY <1>1, <1>2

(* Keys of one section are together. *)
KeysTogether(ses) == HasCredentials(ses) => ses.key = ses.secret

LEMMA KeysAreTogether ==
    ASSUME NEW t, NEW ses \in KeySettings(t)
    PROVE  KeysTogether(ses)
BY DEF KeySettings, KeysTogether, HasCredentials

LEMMA SmtpConfigEffect ==
    ASSUME NEW s
    PROVE  /\ SmtpConfig(s).host = s.host
           /\ SmtpConfig(s).username = s.username
           /\ SmtpConfig(s).password = s.password
           /\ SmtpConfig(s).port = IF IsSet(s.port) THEN s.port
                                   ELSE DefaultPort(SmtpConfig(s).security)
BY DEF SmtpConfig

(* What SentByNamedServer says of a server that can be used. *)
SoundServer(m) ==
    m.host \notin {None, ""} /\ m.port # NotAPort =>
        /\ {m.username, m.password} \subseteq {m.host, None}
        /\ m.port = IF IsSet(PortSet(m.host)) THEN PortSet(m.host)
                    ELSE DefaultPort(m.security)

Sound(cfg) ==
    Usable(cfg) => CredentialsMatch(cfg) /\ PortFits(cfg, PortSet(cfg.smtp.host))

LEMMA SoundParts ==
    ASSUME NEW cfg, cfg.provider \in {"smtp", "ses"},
           cfg.provider = "smtp" => SoundServer(cfg.smtp),
           cfg.provider = "ses" => KeysTogether(cfg.ses)
    PROVE  Sound(cfg)
<1>1. CASE cfg.provider = "smtp"
  <2>. SUFFICES ASSUME Usable(cfg)
                PROVE  CredentialsMatch(cfg) /\ PortFits(cfg, PortSet(cfg.smtp.host))
    BY DEF Sound
  <2>1. cfg.smtp.host \notin {None, ""} /\ cfg.smtp.port # NotAPort
    BY <1>1 DEF Usable, Valid
  <2>. QED  BY <1>1, <2>1 DEF SoundServer, CredentialsMatch, PortFits
<1>2. CASE cfg.provider = "ses"
  BY <1>2 DEF Sound, Usable, Valid, KeysTogether, CredentialsMatch, PortFits
<1>. QED  BY <1>1, <1>2

(* The settings of a server come from one section. *)
OfSection(s, t) ==
    /\ s.host \in {t, "", None}
    /\ {s.username, s.password} \subseteq {t, None}
    /\ s.port \in {PortSet(t), NotAPort}

LEMMA TextIsSet == IsSet(NotAPort)
<1>1. NotAPort \in Nat /\ NotAPort # 0
  BY DEF NotAPort
<1>2. \A n \in Nat : None # n
  BY NoneAssumption
<1>. QED  BY <1>1, <1>2 DEF IsSet

LEMMA SmtpIsSound ==
    ASSUME NEW s, NEW t, OfSection(s, t)
    PROVE  SoundServer(SmtpConfig(s))
<1>. DEFINE m == SmtpConfig(s)
<1>. SUFFICES ASSUME m.host \notin {None, ""}, m.port # NotAPort
              PROVE  /\ {m.username, m.password} \subseteq {m.host, None}
                     /\ m.port = IF IsSet(PortSet(m.host)) THEN PortSet(m.host)
                                 ELSE DefaultPort(m.security)
  BY DEF SoundServer
<1>1. m.host = t /\ m.username = s.username /\ m.password = s.password
  BY SmtpConfigEffect DEF OfSection
<1>2. m.port = IF IsSet(s.port) THEN s.port ELSE DefaultPort(m.security)
  BY SmtpConfigEffect
<1>3. s.port = PortSet(t)
  <2>. s.port # NotAPort
    BY <1>2, TextIsSet
  <2>. QED  BY DEF OfSection
<1>. QED  BY <1>1, <1>2, <1>3 DEF OfSection

LEMMA AppIsSound ==
    ASSUME given \in Given
    PROVE  /\ App.provider \in {"smtp", "ses"}
           /\ SoundServer(App.smtp)
           /\ KeysTogether(App.ses)
           /\ \E settings : App.smtp = SmtpConfig(settings)
<1>. DEFINE s == given.settings
            smtp == [s.smtp EXCEPT !.security = Setting(s.env.security, @)]
            legacy == [s.legacy EXCEPT !.port = AsText(@)]
            chosen == IF s.smtp.host = "" THEN legacy ELSE smtp
            enabled == IF s.env.enabled # None THEN s.env.enabled # "" ELSE s.enabled
            cfg == [enabled |-> enabled, provider |-> ProviderOf(s.provider),
                    smtp |-> SmtpConfig(chosen), ses |-> s.ses, origin |-> "app"]
<1>0. s \in Settings
  BY GivenType
<1>1. /\ s.smtp \in SmtpSettings("app") /\ s.legacy \in SmtpSettings("legacy")
      /\ s.ses \in KeySettings("app") /\ s.aws \in KeySettings("aws")
      /\ s.provider \in Provider
  BY <1>0 DEF Settings
<1>2. App = UpdateAws(cfg, s.aws)
  BY DEF App, AppConfig
<1>. HIDE DEF chosen, enabled
<1>3. /\ App.provider = ProviderOf(s.provider)
      /\ App.smtp = SmtpConfig(chosen)
  BY <1>2, UpdateAwsEffect
<1>4. App.provider \in {"smtp", "ses"}
  BY <1>1, <1>3 DEF ProviderOf, Provider
<1>5. SoundServer(SmtpConfig(chosen))
  <2>1. CASE s.smtp.host = ""
    <3>1. /\ chosen.host \in {"legacy", "", None}
          /\ {chosen.username, chosen.password} \subseteq {"legacy", None}
          /\ chosen.port \in {s.legacy.port, NotAPort}
      BY <1>1, <2>1 DEF SmtpSettings, AsText, chosen
    <3>2. PortSet("legacy") = s.legacy.port
      BY DEF PortSet
    <3>3. OfSection(chosen, "legacy")
      BY <3>1, <3>2 DEF OfSection
    <3>. QED  BY <3>3, SmtpIsSound
  <2>2. CASE s.smtp.host # ""
    <3>1. /\ chosen.host \in {"app", "", None}
          /\ {chosen.username, chosen.password} \subseteq {"app", None}
          /\ chosen.port = s.smtp.port
      BY <1>1, <2>2 DEF SmtpSettings, chosen
    <3>2. PortSet("app") = s.smtp.port
      BY DEF PortSet
    <3>3. OfSection(chosen, "app")
      BY <3>1, <3>2 DEF OfSection
    <3>. QED  BY <3>3, SmtpIsSound
  <2>. QED  BY <2>1, <2>2
<1>6. KeysTogether(App.ses)
  <2>1. KeysTogether(s.ses) /\ KeysTogether(s.aws)
    BY <1>1, KeysAreTogether
  <2>2. CASE ProviderOf(s.provider) = "ses"
    BY <1>2, <2>1, <2>2, UpdateAwsEffect DEF KeysTogether, HasCredentials
  <2>3. CASE ProviderOf(s.provider) # "ses"
    BY <1>2, <2>1, <2>3 DEF UpdateAws
  <2>. QED  BY <2>2, <2>3
<1>. QED  BY <1>3, <1>4, <1>5, <1>6

LEMMA MergeIsSound ==
    ASSUME given \in Given, given.row # None,
           Merge(App, given.row, given.settings.aws).provider # None
    PROVE  /\ Merge(App, given.row, given.settings.aws).provider \in {"smtp", "ses"}
           /\ Sound(Merge(App, given.row, given.settings.aws))
<1>. DEFINE s == given.settings
            db == given.row
            smtp == IF db.provider = "smtp" THEN MergeSmtp(App, db) ELSE EmptySmtp
            ses == IF db.provider = "amazonses" THEN MergeSes(App, db) ELSE EmptySes
            cfg == [enabled |-> App.enabled, provider |-> ProviderOf(db.provider),
                    smtp |-> smtp, ses |-> ses, origin |-> "db"]
            merged == Merge(App, db, s.aws)
<1>0. s \in Settings /\ db \in Row
  BY GivenType
<1>1. merged = UpdateAws(cfg, s.aws)
  BY DEF Merge
<1>2. KeysTogether(App.ses) /\ SoundServer(App.smtp) /\ KeysTogether(s.aws)
  BY <1>0, AppIsSound, KeysAreTogether DEF Settings
<1>3. KeysTogether(ses)
  BY <1>0, <1>2 DEF MergeSes, EmptySes, KeysTogether, HasCredentials, Row
<1>4. ASSUME db.provider = "smtp" PROVE SoundServer(smtp)
  <2>1. CASE db.host = None
    <3>1. /\ smtp.host = App.smtp.host /\ smtp.port = App.smtp.port
          /\ smtp.username = App.smtp.username /\ smtp.password = App.smtp.password
          /\ smtp.security = App.smtp.security
      <4>1. smtp = [App.smtp EXCEPT !.auth = EmptySmtp.auth]
        BY <1>4, <2>1 DEF MergeSmtp
      <4>2. PICK settings : App.smtp = SmtpConfig(settings)
        BY AppIsSound
      <4>. QED  BY <4>1, <4>2 DEF SmtpConfig
    <3>. QED  BY <1>2, <3>1 DEF SoundServer
  <2>2. CASE db.host # None
    <3>1. /\ smtp.host = db.host /\ smtp.username = db.username
          /\ smtp.password = db.password /\ smtp.security = SecurityOf(App, db)
          /\ smtp.port = IF IsSet(db.port) THEN db.port ELSE DefaultPort(SecurityOf(App, db))
      BY <1>4, <2>2 DEF MergeSmtp, PortOf
    <3>2. /\ db.host \in {"db", "", None}
          /\ {db.username, db.password} \subseteq {"db", None}
      BY <1>0 DEF Row
    <3>3. PortSet("db") = db.port
      BY DEF PortSet
    <3>. QED  BY <3>1, <3>2, <3>3 DEF SoundServer
  <2>. QED  BY <2>1, <2>2
<1>. HIDE DEF smtp, ses
<1>5. /\ merged.provider = ProviderOf(db.provider)
      /\ merged.smtp = smtp
  BY <1>1, UpdateAwsEffect
<1>6. merged.provider \in {"smtp", "ses"}
  BY <1>5, ProviderType
<1>7. merged.provider = "smtp" => SoundServer(merged.smtp)
  <2>1. merged.provider = "smtp" => db.provider = "smtp"
    BY <1>5 DEF ProviderOf
  <2>. QED  BY <1>4, <1>5, <2>1
<1>8. merged.provider = "ses" => KeysTogether(merged.ses)
  BY <1>1, <1>2, <1>3, <1>5, UpdateAwsEffect DEF KeysTogether, HasCredentials
<1>. QED  BY <1>6, <1>7, <1>8, SoundParts

(* Whatever a row says, mail is enabled by the application alone. *)
LEMMA MergeEnabled ==
    ASSUME NEW db, NEW aws
    PROVE  Merge(App, db, aws).enabled = App.enabled
BY UpdateAwsEffect DEF Merge

-----------------------------------------------------------------------------
(* Types *)

LEMMA RunType ==
    ASSUME TypeOK, pc # "idle"
    PROVE  /\ run \in Run /\ run[1] \in Commands /\ run[2] \in Nat
           /\ run = <<run[1], run[2]>>
           /\ Mine \in Mail
<1>1. run \in Run /\ run[1] \in Commands /\ run[2] \in Nat /\ run = <<run[1], run[2]>>
  BY DEF TypeOK, Run
<1>2. given.mails \in [Commands -> Mail]
  BY GivenType DEF TypeOK
<1>. QED  BY <1>1, <1>2 DEF Mine

LEMMA RunningType == Running \subseteq PC /\ "idle" \notin Running
BY DEF Running, PC

LEMMA NoMessageType ==
    NoMessage \in [locale : Locales \cup {None}, style : Commands \cup {None}]
BY DEF NoMessage

LEMMA EndRunType ==
    ASSUME TypeOK, EndRun
    PROVE  /\ pc' = "idle" /\ pc' \in PC
           /\ run' \in Run \cup {NoRun}
           /\ locale' \in Locales \cup {None}
           /\ message' \in [locale : Locales \cup {None}, style : Commands \cup {None}]
           /\ tries' \in 0..Tries
BY NoMessageType, MailerAssumption DEF EndRun, PC, TypeOK

LEMMA TypeInit == Init => TypeOK
<1>. SUFFICES ASSUME Init PROVE TypeOK
  OBVIOUS
<1>1. 0 \in 0..Tries /\ 0 \in 0..MaxFaults
  BY MailerAssumption
<1>. QED  BY <1>1, NoMessageType DEF Init, TypeOK, PC

LEMMA JobType ==
    ASSUME TypeOK, RunJob
    PROVE  TypeOK'
<1>0. /\ run \in Run /\ run' = run /\ Mine \in Mail /\ pc' \in PC
      /\ given' = given /\ command' = command /\ aborted' = aborted /\ faults' = faults
      /\ pc \in Running
  <2>1. /\ pc \in Running
        /\ run' = run /\ given' = given /\ command' = command /\ aborted' = aborted
        /\ faults' = faults
    BY DEF RunJob, Load, GetUser, GetDefaultLocale, MakeRequest, GetMailConfig, HasTemplate,
           LoadLocale, Render, Send, Running
  <2>2. pc' \in PC
    BY DEF RunJob, Load, GetUser, GetDefaultLocale, MakeRequest, GetMailConfig, HasTemplate,
           LoadLocale, Render, Send, Goto, PC, Running
  <2>. QED  BY <2>1, <2>2, RunType, RunningType
<1>1. CASE Load \/ HasTemplate
  BY <1>0, <1>1 DEF Load, HasTemplate, TypeOK, shared
<1>2. CASE GetUser \/ GetDefaultLocale
  <2>1. locale' \in Locales \cup {None} /\ degraded' \subseteq Run
    BY <1>0, <1>2, MailerAssumption DEF GetUser, GetDefaultLocale, TypeOK, Degrade, Mail
  <2>. QED
    BY <1>0, <1>2, <2>1 DEF GetUser, GetDefaultLocale, TypeOK, shared
<1>3. CASE MakeRequest
  <2>1. style' \in Commands \cup {None}
    BY <1>0, <1>3 DEF MakeRequest, TypeOK, Mail
  <2>. QED  BY <1>0, <1>3, <2>1 DEF MakeRequest, TypeOK
<1>4. CASE GetMailConfig
  <2>1. degraded' \subseteq Run
    BY <1>0, <1>4 DEF GetMailConfig, TypeOK, Degrade
  <2>. QED  BY <1>0, <1>4, <2>1 DEF GetMailConfig, TypeOK, shared
<1>5. CASE LoadLocale
  <2>1. installed' \in Locales \cup {None} /\ degraded' \subseteq Run
    BY <1>0, <1>5 DEF LoadLocale, TypeOK, Degrade
  <2>. QED  BY <1>0, <1>5, <2>1 DEF LoadLocale, TypeOK
<1>6. CASE Render
  BY <1>0, <1>6, MailerAssumption DEF Render, TypeOK, shared
<1>7. CASE Send
  <2>1. \A m \in delivered' : m.run \in Run
    BY <1>0, <1>7 DEF Send, TypeOK, Delivery
  <2>. QED  BY <1>0, <1>7, <2>1 DEF Send, TypeOK, shared
<1>. QED  BY <1>1, <1>2, <1>3, <1>4, <1>5, <1>6, <1>7 DEF RunJob

LEMMA FaultType ==
    ASSUME TypeOK, Trying, FaultStep
    PROVE  TypeOK'
<1>0. ASSUME NEW k, Fault(k) PROVE faults' \in 0..MaxFaults
  BY <1>0, MailerAssumption DEF Fault, TypeOK
<1>1. CASE ReadFails \/ ReadLosesConnection
  <2>1. /\ pc \in ReadStep /\ TakeForMissing /\ aborted' \in BOOLEAN
        /\ faults' \in 0..MaxFaults
        /\ UNCHANGED <<given, command, run, message, tries, style, delivered>>
    BY <1>0, <1>1 DEF ReadFails, ReadLosesConnection, Reads
  <2>2. run \in Run
    BY <2>1, RunType DEF ReadStep
  <2>3. degraded' \subseteq Run /\ pc' \in PC
    BY <2>1, <2>2 DEF TakeForMissing, ReadStep, Degrade, Goto, TypeOK, PC, Running
  <2>4. locale' \in Locales \cup {None} /\ installed' \in Locales \cup {None}
    BY <2>1 DEF TakeForMissing, ReadStep, TypeOK
  <2>. QED  BY <2>1, <2>2, <2>3, <2>4 DEF TypeOK
<1>2. CASE DownloadFails
  <2>1. run \in Run
    BY <1>2, RunType DEF DownloadFails
  <2>. QED
    BY <1>0, <1>2, <2>1 DEF DownloadFails, TypeOK, Degrade, Goto, PC, Running
<1>3. CASE SendFails
  <2>1. run \in Run /\ tries < Tries /\ faults' \in 0..MaxFaults
    BY <1>0, <1>3, RunType DEF SendFails, Trying
  <2>2. \A m \in delivered' : m.run \in Run
    BY <1>3, <2>1 DEF SendFails, TypeOK, Delivery
  <2>3. tries' \in 0..Tries /\ pc' \in PC
    BY <1>3, <2>1, MailerAssumption DEF SendFails, TypeOK, Goto, PC, Running
  <2>. QED  BY <1>3, <2>1, <2>2, <2>3 DEF SendFails, TypeOK, shared
<1>4. CASE TimeOut
  <2>1. run \in Run /\ faults' \in 0..MaxFaults
    BY <1>0, <1>4, RunType, RunningType DEF TimeOut
  <2>2. \A m \in delivered' : m.run \in Run
    BY <1>4, <2>1 DEF TimeOut, TypeOK, Delivery
  <2>3. installed' \in Locales \cup {None}
    BY <1>4 DEF TimeOut, TypeOK
  <2>. QED  BY <1>4, <2>1, <2>2, <2>3 DEF TimeOut, TypeOK, Goto, PC
<1>5. CASE LoseOutcome
  BY <1>0, <1>5, EndRunType DEF LoseOutcome, TypeOK, shared
<1>6. CASE Crash
  BY <1>0, <1>6, EndRunType DEF Crash, Restart, NewProcess, TypeOK
<1>. QED  BY <1>1, <1>2, <1>3, <1>4, <1>5, <1>6 DEF FaultStep

LEMMA TypeNext ==
    ASSUME TypeOK, Trying, [Next]_vars
    PROVE  TypeOK'
<1>1. ASSUME NEW c \in Commands, Pick(c) PROVE TypeOK'
  <2>1. /\ command' \in [Commands -> [state : {"new", "done", "error"}, attempts : Nat]]
        /\ run' \in Run
    BY <1>1 DEF Pick, TypeOK, Run
  <2>. QED  BY <1>1, <2>1 DEF Pick, Goto, TypeOK, PC, Running, shared
<1>2. CASE RunJob
  BY <1>2, JobType
<1>3. CASE Record
  <2>1. command' \in [Commands -> [state : {"new", "done", "error"}, attempts : Nat]]
    BY <1>3, RunType DEF Record, TypeOK
  <2>. QED  BY <1>3, <2>1, EndRunType DEF Record, TypeOK, shared
<1>4. CASE RecordInFailedTransaction
  BY <1>4, EndRunType DEF RecordInFailedTransaction, TypeOK, shared
<1>5. CASE RetriesRunOut
  BY <1>5, EndRunType DEF RetriesRunOut, Restart, NewProcess, TypeOK
<1>6. CASE FaultStep
  BY <1>6, FaultType
<1>7. CASE Wait \/ UNCHANGED vars
  BY <1>7 DEF Wait, vars, jobVars, shared, TypeOK
<1>. QED
  BY <1>1, <1>2, <1>3, <1>4, <1>5, <1>6, <1>7 DEF Next, WorkerStep


-----------------------------------------------------------------------------
(* What a step does to the mails and to the runs *)

(* Nothing that was given, sent or degraded goes away, and only the sender *)
(* delivers: the mail of the job, by a server that can be used.            *)
Growing ==
    /\ given' = given
    /\ degraded \subseteq degraded'
    /\ delivered \subseteq delivered'
    /\ \A m \in delivered' :
          \/ m \in delivered
          \/ m = Delivery /\ pc = "send" /\ config.enabled /\ Usable(config)

(* A step outside of the send step delivers nothing. *)
Quiet == given' = given /\ delivered' = delivered /\ degraded \subseteq degraded'

LEMMA QuietGrows == Quiet => Growing
BY DEF Quiet, Growing

LEMMA StepGrows ==
    ASSUME [Next]_vars
    PROVE  Growing
<1>1. ASSUME NEW c \in Commands, Pick(c) PROVE Quiet
  BY <1>1 DEF Pick, Quiet
<1>2. CASE Load \/ MakeRequest \/ HasTemplate \/ Render
  BY <1>2, QuietGrows DEF Load, MakeRequest, HasTemplate, Render, Quiet
<1>3. CASE GetUser \/ GetDefaultLocale \/ GetMailConfig \/ LoadLocale
  BY <1>3, QuietGrows
  DEF GetUser, GetDefaultLocale, GetMailConfig, LoadLocale, Degrade, Quiet
<1>4. CASE Send
  BY <1>4 DEF Send, Growing
<1>5. CASE Record \/ RecordInFailedTransaction \/ RetriesRunOut \/ LoseOutcome \/ Crash
  BY <1>5, QuietGrows
  DEF Record, RecordInFailedTransaction, RetriesRunOut, LoseOutcome, Crash, Restart, Quiet
<1>6. CASE ReadFails \/ ReadLosesConnection \/ DownloadFails
  BY <1>6, QuietGrows
  DEF ReadFails, ReadLosesConnection, DownloadFails, TakeForMissing, Degrade, Quiet
<1>7. CASE SendFails
  BY <1>7 DEF SendFails, Growing
<1>8. CASE TimeOut
  BY <1>8 DEF TimeOut, Growing
<1>9. CASE Wait \/ UNCHANGED vars
  BY <1>9, QuietGrows DEF Wait, vars, Quiet
<1>. QED
  BY <1>1, <1>2, <1>3, <1>4, <1>5, <1>6, <1>7, <1>8, <1>9, QuietGrows
  DEF Next, WorkerStep, FaultStep, RunJob

(* What depends on what is given does not change. *)
LEMMA GivenStays ==
    ASSUME given' = given, NEW c
    PROVE  /\ App' = App /\ Wanted(c)' = Wanted(c) /\ ConfigOf(c)' = ConfigOf(c)
           /\ LocaleOf(c)' = LocaleOf(c)
           /\ \A h : PortSet(h)' = PortSet(h)
BY DEF App, Wanted, ConfigOf, LocaleOf, PortSet

LEMMA WantedLocale ==
    \A c : Wanted(c) = IF LocaleOf(c) # None /\ LocaleKind[LocaleOf(c)] = "translated"
                       THEN LocaleOf(c) ELSE None
BY DEF Wanted, LocaleOf

-----------------------------------------------------------------------------
(* The parts of the invariant *)

LEMMA LanguageNext ==
    ASSUME TypeOK, Language, [Next]_vars
    PROVE  Language'
<1>0. /\ given' = given /\ degraded \subseteq degraded'
      /\ run' = run => /\ LocaleOf(run[1])' = LocaleOf(run[1])
                       /\ Wanted(run[1])' = Wanted(run[1])
                       /\ Mine' = Mine
  <2>1. given' = given /\ degraded \subseteq degraded'
    BY StepGrows DEF Growing
  <2>. QED  BY <2>1 DEF LocaleOf, Wanted, Mine
<1>1. ASSUME NEW c \in Commands, Pick(c) PROVE Language'
  BY <1>1 DEF Pick, Goto, Language
<1>2. CASE Load
  BY <1>0, <1>2, RunType DEF Load, Goto, Language, RightLocale, LocaleOf, Mine, Mail
<1>3. CASE GetUser
  <2>1. run' = run /\ locale = None /\ pc = "user" /\ Mine.user # "anonymous"
    BY <1>3 DEF GetUser, Language
  <2>2. CASE aborted \/ Mine.user = "unknown"
    BY <1>3, <2>2 DEF GetUser, Goto, Language
  <2>3. CASE ~(aborted \/ Mine.user = "unknown") /\ Mine.locale = None
    <3>1. pc' = "default_locale" /\ locale' = None
      BY <1>3, <2>3 DEF GetUser, Goto
    <3>. QED  BY <1>0, <1>3, <2>1, <2>3, <3>1 DEF Language
  <2>4. CASE ~(aborted \/ Mine.user = "unknown") /\ Mine.locale # None
    <3>1. pc' = "request" /\ locale' = Mine.locale
      BY <1>3, <2>4 DEF GetUser, Goto
    <3>. QED  BY <1>0, <2>1, <2>4, <3>1 DEF Language, RightLocale, LocaleOf, Mine
  <2>. QED  BY <2>2, <2>3, <2>4
<1>4. CASE GetDefaultLocale
  BY <1>0, <1>4 DEF GetDefaultLocale, Goto, Language, RightLocale, LocaleOf, Mine, Degrade
<1>5. CASE MakeRequest \/ GetMailConfig \/ HasTemplate
  <2>1. /\ run' = run /\ locale' = locale /\ pc \in {"request", "config", "template"}
        /\ pc' \in {"config", "template", "load_locale", "error"}
    BY <1>5 DEF MakeRequest, GetMailConfig, HasTemplate, Goto
  <2>. QED  BY <1>0, <2>1 DEF Language, RightLocale
<1>6. CASE LoadLocale
  <2>1. RightLanguage(installed)'
    BY <1>0, <1>6, WantedLocale DEF LoadLocale, Language, RightLocale, RightLanguage, Degrade
  <2>. QED  BY <1>6, <2>1 DEF LoadLocale, Goto, Language
<1>7. CASE Render
  BY <1>0, <1>7 DEF Render, Goto, Language, RightLanguage
<1>8. CASE Send \/ SendFails
  BY <1>0, <1>8 DEF Send, SendFails, Goto, Language, RightLanguage
<1>9. CASE Record \/ RecordInFailedTransaction \/ RetriesRunOut \/ LoseOutcome \/ Crash
  BY <1>9 DEF Record, RecordInFailedTransaction, RetriesRunOut, LoseOutcome, Crash,
              Restart, EndRun, Language
<1>10. CASE ReadFails \/ ReadLosesConnection
  <2>1. /\ pc \in ReadStep /\ TakeForMissing /\ run' = run
        /\ message' = message
    BY <1>10 DEF ReadFails, ReadLosesConnection, Reads
  <2>. QED
    BY <1>0, <2>1 DEF TakeForMissing, ReadStep, Degrade, Goto, Language, RightLocale, RightLanguage
<1>11. CASE DownloadFails
  BY <1>0, <1>11 DEF DownloadFails, Degrade, Goto, Language, RightLanguage
<1>12. CASE TimeOut
  BY <1>12 DEF TimeOut, Goto, Language
<1>13. CASE Wait \/ UNCHANGED vars
  BY <1>0, <1>13 DEF Wait, vars, jobVars, shared, Language, RightLocale, RightLanguage
<1>. QED
  BY <1>1, <1>2, <1>3, <1>4, <1>5, <1>6, <1>7, <1>8, <1>9, <1>10, <1>11, <1>12, <1>13
  DEF Next, WorkerStep, FaultStep, RunJob

LEMMA StylingNext ==
    ASSUME TypeOK, Styling, [Next]_vars
    PROVE  Styling'
<1>0. run' = run => Mine' = Mine
  BY StepGrows DEF Growing, Mine
<1>1. ASSUME NEW c \in Commands, Pick(c) PROVE Styling'
  BY <1>1 DEF Pick, Goto, Styling
<1>2. CASE Load \/ GetUser \/ GetDefaultLocale
  BY <1>2 DEF Load, GetUser, GetDefaultLocale, Goto, Styling
<1>3. CASE MakeRequest
  BY <1>0, <1>3 DEF MakeRequest, Goto, Styling, RightStyle
<1>4. CASE GetMailConfig \/ HasTemplate \/ LoadLocale
  <2>1. /\ pc \in {"config", "template", "load_locale"} /\ run' = run /\ style' = style
        /\ pc' \in {"template", "load_locale", "render", "error"}
    BY <1>4 DEF GetMailConfig, HasTemplate, LoadLocale, Goto, shared
  <2>. QED  BY <1>0, <2>1 DEF Styling, RightStyle
<1>5. CASE Render
  BY <1>0, <1>5 DEF Render, Goto, Styling, RightStyle
<1>6. CASE Send \/ SendFails
  BY <1>0, <1>6 DEF Send, SendFails, Goto, Styling, RightStyle
<1>7. CASE Record \/ RecordInFailedTransaction \/ RetriesRunOut \/ LoseOutcome \/ Crash
  BY <1>7 DEF Record, RecordInFailedTransaction, RetriesRunOut, LoseOutcome, Crash,
              Restart, EndRun, Styling
<1>8. CASE ReadFails \/ ReadLosesConnection
  <2>1. /\ pc \in ReadStep /\ TakeForMissing /\ run' = run /\ style' = style
    BY <1>8 DEF ReadFails, ReadLosesConnection, Reads
  <2>. QED
    BY <1>0, <2>1 DEF TakeForMissing, ReadStep, Goto, Styling, RightStyle
<1>9. CASE DownloadFails
  BY <1>0, <1>9 DEF DownloadFails, Goto, Styling, RightStyle
<1>10. CASE TimeOut
  BY <1>10 DEF TimeOut, Goto, Styling
<1>11. CASE Wait \/ UNCHANGED vars
  BY <1>0, <1>11 DEF Wait, vars, jobVars, shared, Styling, RightStyle
<1>. QED
  BY <1>1, <1>2, <1>3, <1>4, <1>5, <1>6, <1>7, <1>8, <1>9, <1>10, <1>11
  DEF Next, WorkerStep, FaultStep, RunJob

LEMMA ServerNext ==
    ASSUME TypeOK, ServerChosen, [Next]_vars
    PROVE  ServerChosen'
<1>0. /\ given' = given /\ degraded \subseteq degraded'
      /\ run' = run => ConfigOf(run[1])' = ConfigOf(run[1]) /\ App' = App /\ Mine' = Mine
  <2>1. given' = given /\ degraded \subseteq degraded'
    BY StepGrows DEF Growing
  <2>. QED  BY <2>1 DEF ConfigOf, App, Mine
<1>1. ASSUME NEW c \in Commands, Pick(c) PROVE ServerChosen'
  BY <1>1 DEF Pick, Goto, ServerChosen
<1>2. CASE Load \/ GetUser \/ GetDefaultLocale \/ MakeRequest
  BY <1>2 DEF Load, GetUser, GetDefaultLocale, MakeRequest, Goto, ServerChosen
<1>3. CASE GetMailConfig
  <2>1. App.provider \in {"smtp", "ses"}
    BY AppIsSound DEF TypeOK
  <2>2. pc' \in {"template", "error"} /\ run' = run
    BY <1>3 DEF GetMailConfig, Goto
  <2>3. CASE Mine.named /\ ~aborted /\ given.row # None
    <3>1. /\ config' = Merge(App, given.row, given.settings.aws)
          /\ config' = ConfigOf(run[1])
          /\ pc' = IF config'.provider = None THEN "error" ELSE "template"
      BY <1>3, <2>3 DEF GetMailConfig, Goto, ConfigOf, Mine
    <3>2. config'.provider # None => config'.provider \in {"smtp", "ses"}
      BY <2>3, <3>1, MergeIsSound DEF TypeOK
    <3>. QED  BY <1>0, <2>2, <3>1, <3>2 DEF ServerChosen, RightServer
  <2>4. CASE ~(Mine.named /\ ~aborted /\ given.row # None)
    <3>1. config' = App /\ (Mine.named /\ aborted => run \in degraded')
      BY <1>3, <2>4 DEF GetMailConfig, Degrade
    <3>2. ConfigOf(run[1]) = App \/ run \in degraded'
      BY <2>4, <3>1 DEF ConfigOf, Mine
    <3>. QED  BY <1>0, <2>1, <2>2, <3>1, <3>2 DEF ServerChosen, RightServer
  <2>. QED  BY <2>3, <2>4
<1>4. CASE HasTemplate \/ LoadLocale \/ Render \/ Send \/ SendFails \/ DownloadFails
  <2>1. pc \in {"template", "load_locale", "render", "send"} /\ run' = run /\ config' = config
    BY <1>4 DEF HasTemplate, LoadLocale, Render, Send, SendFails, DownloadFails
  <2>. QED  BY <1>0, <2>1 DEF ServerChosen, RightServer
<1>5. CASE Record \/ RecordInFailedTransaction \/ RetriesRunOut \/ LoseOutcome \/ Crash
  BY <1>5 DEF Record, RecordInFailedTransaction, RetriesRunOut, LoseOutcome, Crash,
              Restart, EndRun, ServerChosen
<1>6. CASE ReadFails \/ ReadLosesConnection
  <2>1. /\ pc \in ReadStep /\ TakeForMissing /\ run' = run
    BY <1>6 DEF ReadFails, ReadLosesConnection, Reads
  <2>2. App.provider \in {"smtp", "ses"}
    BY AppIsSound DEF TypeOK
  <2>. QED
    BY <1>0, <2>1, <2>2 DEF TakeForMissing, ReadStep, Degrade, Goto, ServerChosen, RightServer
<1>7. CASE TimeOut
  BY <1>7 DEF TimeOut, Goto, ServerChosen
<1>8. CASE Wait \/ UNCHANGED vars
  BY <1>0, <1>8 DEF Wait, vars, jobVars, ServerChosen, RightServer
<1>. QED
  BY <1>1, <1>2, <1>3, <1>4, <1>5, <1>6, <1>7, <1>8
  DEF Next, WorkerStep, FaultStep, RunJob

LEMMA TryingNext ==
    ASSUME TypeOK, Trying, [Next]_vars
    PROVE  Trying'
<1>1. ASSUME NEW c \in Commands, Pick(c) PROVE Trying'
  BY <1>1 DEF Pick, Goto, Trying
<1>2. CASE Render
  BY <1>2, MailerAssumption DEF Render, Trying
<1>3. CASE SendFails
  BY <1>3 DEF SendFails, Goto, Trying
<1>4. CASE \/ Load \/ GetUser \/ GetDefaultLocale \/ MakeRequest \/ GetMailConfig
           \/ HasTemplate \/ LoadLocale \/ Send \/ TimeOut \/ DownloadFails
  BY <1>4 DEF Load, GetUser, GetDefaultLocale, MakeRequest, GetMailConfig, HasTemplate,
              LoadLocale, Send, TimeOut, DownloadFails, Goto, Trying
<1>5. CASE Record \/ RecordInFailedTransaction \/ RetriesRunOut \/ LoseOutcome \/ Crash
  BY <1>5 DEF Record, RecordInFailedTransaction, RetriesRunOut, LoseOutcome, Crash,
              Restart, EndRun, Trying
<1>6. CASE ReadFails \/ ReadLosesConnection
  BY <1>6 DEF ReadFails, ReadLosesConnection, Reads, TakeForMissing, ReadStep, Goto, Trying
<1>7. CASE Wait \/ UNCHANGED vars
  BY <1>7 DEF Wait, vars, jobVars, Trying
<1>. QED
  BY <1>1, <1>2, <1>3, <1>4, <1>5, <1>6, <1>7
  DEF Next, WorkerStep, FaultStep, RunJob

LEMMA SentNext ==
    ASSUME TypeOK, ServerChosen, Sent, [Next]_vars
    PROVE  Sent'
<1>. SUFFICES ASSUME pc' = "succeeded", App'.enabled
              PROVE  \E m \in delivered' : m.run[1] = run'[1]
  BY DEF Sent
<1>0. App' = App /\ delivered \subseteq delivered'
  BY StepGrows DEF Growing, App
<1>1. CASE Send
  <2>1. RightServer
    BY <1>1 DEF Send, ServerChosen
  <2>2. config.enabled
    BY <1>0, <2>1, MergeEnabled DEF RightServer, ConfigOf
  <2>3. Delivery \in delivered' /\ run' = run
    BY <1>1, <2>2 DEF Send, Goto
  <2>. QED  BY <2>3 DEF Delivery
<1>2. CASE ~Send
  <2>1. pc = "succeeded" /\ run' = run
    <3>1. ASSUME NEW c \in Commands, Pick(c) PROVE FALSE
      BY <3>1 DEF Pick, Goto
    <3>2. CASE \/ Load \/ GetUser \/ GetDefaultLocale \/ MakeRequest \/ GetMailConfig
               \/ HasTemplate \/ LoadLocale \/ Render \/ TimeOut \/ DownloadFails \/ SendFails
      BY <3>2 DEF Load, GetUser, GetDefaultLocale, MakeRequest, GetMailConfig, HasTemplate,
                  LoadLocale, Render, TimeOut, DownloadFails, SendFails, Goto
    <3>3. CASE Record \/ RecordInFailedTransaction \/ RetriesRunOut \/ LoseOutcome \/ Crash
      BY <3>3 DEF Record, RecordInFailedTransaction, RetriesRunOut, LoseOutcome, Crash,
                  Restart, EndRun
    <3>4. CASE ReadFails \/ ReadLosesConnection
      BY <3>4 DEF ReadFails, ReadLosesConnection, Reads, TakeForMissing, ReadStep, Goto
    <3>5. CASE Wait \/ UNCHANGED vars
      BY <3>5 DEF Wait, vars, jobVars
    <3>. QED
      BY <1>2, <3>1, <3>2, <3>3, <3>4, <3>5 DEF Next, WorkerStep, FaultStep, RunJob
  <2>. QED  BY <1>0, <2>1 DEF Sent
<1>. QED  BY <1>1, <1>2

-----------------------------------------------------------------------------
(* What is delivered *)

LEMMA RenderedNext ==
    ASSUME TypeOK, Language, Styling, RenderedForRecipient, [Next]_vars
    PROVE  RenderedForRecipient'
<1>. SUFFICES ASSUME NEW m \in delivered'
              PROVE  /\ m.locale # Wanted(m.run[1])' =>
                           m.locale = None /\ m.run \in degraded'
                     /\ given'.mails[m.run[1]].style \in {None, m.style}
  BY DEF RenderedForRecipient
<1>1. Growing /\ Wanted(m.run[1])' = Wanted(m.run[1])
  BY StepGrows, GivenStays DEF Growing
<1>2. CASE m \in delivered
  BY <1>1, <1>2 DEF Growing, RenderedForRecipient
<1>3. CASE m = Delivery /\ pc = "send"
  <2>1. m.run = run /\ m.locale = message.locale /\ m.style = message.style
    BY <1>3 DEF Delivery
  <2>2. RightLanguage(message.locale) /\ RightStyle(message.style)
    BY <1>3 DEF Language, Styling
  <2>. QED  BY <1>1, <2>1, <2>2 DEF Growing, RightLanguage, RightStyle, Mine
<1>. QED  BY <1>1, <1>2, <1>3 DEF Growing

LEMMA NamedServerNext ==
    ASSUME TypeOK, ServerChosen, SentByNamedServer, [Next]_vars
    PROVE  SentByNamedServer'
<1>. SUFFICES ASSUME NEW m \in delivered'
              PROVE  /\ App.enabled
                     /\ m.config # ConfigOf(m.run[1]) =>
                           m.config = App /\ m.run \in degraded'
                     /\ CredentialsMatch(m.config)
                     /\ PortFits(m.config, PortSet(m.config.smtp.host))
  <2>1. given' = given
    BY StepGrows DEF Growing
  <2>. QED  BY <2>1, GivenStays DEF SentByNamedServer
<1>1. Growing
  BY StepGrows
<1>2. CASE m \in delivered
  BY <1>1, <1>2 DEF Growing, SentByNamedServer
<1>3. CASE m = Delivery /\ pc = "send" /\ config.enabled /\ Usable(config)
  <2>1. m.run = run /\ m.config = config
    BY <1>3 DEF Delivery
  <2>2. RightServer
    BY <1>3 DEF ServerChosen
  <2>3. CASE config = App
    <3>1. Sound(App)
      BY AppIsSound, SoundParts DEF TypeOK
    <3>. QED  BY <1>1, <1>3, <2>1, <2>2, <2>3, <3>1 DEF Growing, RightServer, Sound
  <2>4. CASE config # App
    <3>1. /\ config = ConfigOf(run[1]) /\ given.row # None
          /\ config = Merge(App, given.row, given.settings.aws)
      BY <2>2, <2>4 DEF RightServer, ConfigOf
    <3>2. config.provider # None
      BY <2>2, NoneAssumption DEF RightServer, Provider
    <3>3. Sound(config)
      BY <3>1, <3>2, MergeIsSound DEF TypeOK
    <3>. QED  BY <1>3, <2>1, <3>1, <3>3, MergeEnabled DEF Sound
  <2>. QED  BY <2>3, <2>4
<1>. QED  BY <1>1, <1>2, <1>3 DEF Growing


LEMMA DoneByRecord ==
    ASSUME TypeOK, [Next]_vars, NEW c \in Commands,
           command'[c].state = "done", command[c].state # "done"
    PROVE  pc = "succeeded" /\ c = run[1]
<1>1. CASE Record
  BY <1>1, RunType DEF Record, TypeOK
<1>2. ASSUME NEW x \in Commands, Pick(x) PROVE FALSE
  BY <1>2 DEF Pick, TypeOK
<1>3. CASE \/ Load \/ GetUser \/ GetDefaultLocale \/ MakeRequest \/ GetMailConfig
           \/ HasTemplate \/ LoadLocale \/ Render \/ Send
  BY <1>3 DEF Load, GetUser, GetDefaultLocale, MakeRequest, GetMailConfig, HasTemplate,
              LoadLocale, Render, Send
<1>4. CASE \/ RecordInFailedTransaction \/ RetriesRunOut \/ Crash \/ LoseOutcome
           \/ ReadFails \/ ReadLosesConnection \/ DownloadFails \/ SendFails \/ TimeOut
           \/ Wait \/ UNCHANGED vars
  BY <1>4 DEF RecordInFailedTransaction, RetriesRunOut, Crash, Restart, LoseOutcome,
              ReadFails, ReadLosesConnection, DownloadFails, SendFails, TimeOut, Wait, vars
<1>. QED  BY <1>1, <1>2, <1>3, <1>4 DEF Next, WorkerStep, FaultStep, RunJob

LEMMA DoneNext ==
    ASSUME TypeOK, Sent, DoneMeansDelivered, [Next]_vars
    PROVE  DoneMeansDelivered'
<1>. SUFFICES ASSUME NEW c \in Commands, command'[c].state = "done", App.enabled
              PROVE  \E m \in delivered' : m.run[1] = c
  <2>1. App' = App
    BY StepGrows, GivenStays DEF Growing
  <2>. QED  BY <2>1 DEF DoneMeansDelivered
<1>1. \E m \in delivered : m.run[1] = c
  BY DoneByRecord DEF DoneMeansDelivered, Sent
<1>. QED  BY <1>1, StepGrows DEF Growing

-----------------------------------------------------------------------------
(* The theorems *)

LEMMA InvInit == Init => IInv
<1>. SUFFICES ASSUME Init PROVE IInv
  OBVIOUS
<1>1. TypeOK
  BY TypeInit
<1>2. Language /\ Styling /\ ServerChosen /\ Sent /\ Trying
  BY DEF Init, Language, Styling, ServerChosen, Sent, Trying
<1>3. RenderedForRecipient /\ SentByNamedServer /\ DoneMeansDelivered
  BY DEF Init, RenderedForRecipient, SentByNamedServer, DoneMeansDelivered
<1>. QED  BY <1>1, <1>2, <1>3 DEF IInv

LEMMA InvNext == IInv /\ [Next]_vars => IInv'
BY TypeNext, LanguageNext, StylingNext, ServerNext, SentNext, TryingNext, RenderedNext,
   NamedServerNext, DoneNext DEF IInv

(* Every variable always has the type of the code's value: the tries of    *)
(* the sender stay within RETRY_SMTP_TRIES, and a job has a run.           *)
THEOREM TypeCorrect == Spec => []TypeOK
<1>1. IInv => TypeOK
  BY DEF IInv
<1>. QED  BY <1>1, InvInit, InvNext, PTL DEF Spec

(* Every mail is in the language of its recipient, or in none when         *)
(* something could not be read, and in the style its command sets, though  *)
(* the translations and the style are shared by all jobs of the process.   *)
THEOREM RenderedCorrect == Spec => []RenderedForRecipient
<1>1. IInv => RenderedForRecipient
  BY DEF IInv
<1>. QED  BY <1>1, InvInit, InvNext, PTL DEF Spec

(* For all settings and rows there can be, a mail leaves by the server the *)
(* command names, or by that of the application when the row cannot be     *)
(* read, which is shown its own credentials and addressed at its own port. *)
THEOREM ServerCorrect == Spec => []SentByNamedServer
<1>1. IInv => SentByNamedServer
  BY DEF IInv
<1>. QED  BY <1>1, InvInit, InvNext, PTL DEF Spec

(* A command whose outcome says it is done was delivered, whatever tries   *)
(* of the sender failed, unless mail is disabled.                          *)
THEOREM DeliveredCorrect == Spec => []DoneMeansDelivered
<1>1. IInv => DoneMeansDelivered
  BY DEF IInv
<1>. QED  BY <1>1, InvInit, InvNext, PTL DEF Spec


=============================================================================
