------------------------------- MODULE Mailer --------------------------------
(***************************************************************************)
(* The mailer: a process that renders and sends a mail for every command   *)
(* of the queue, for all tenants.  The style of the mails, a class         *)
(* attribute, and the translations of the Jinja environment are shared by  *)
(* the jobs of the process.                                                *)
(*                                                                         *)
(* The readers of the database take an exception for "no such row" and     *)
(* leave the transaction failed.  Of the queue, as in DocumentJob, picks,  *)
(* charged attempts and outcomes are kept.                                 *)
(***************************************************************************)
EXTENDS MailConfig, FiniteSets

CONSTANTS
    Commands,      \* commands of the queue
    Given,         \* what a process may be given: settings, row and mails
    LocaleKind,    \* what the table and S3 hold of a locale
    TenantLocale,  \* the default locale of the tenants, or None
    NoRun,         \* "no job"
    MaxAttempts,   \* max_attempts of a command
    Tries,         \* RETRY_SMTP_TRIES
    FaultKinds,    \* faults the environment may inject
    MaxFaults      \* bound: number of faults of a behaviour

AllFaultKinds == {"crash", "connection", "sql", "storage", "smtp", "timeout"}

Locales == DOMAIN LocaleKind

(* The body of a command: whether it can be parsed, names recipients and a *)
(* client URL; the first recipient, without uuid, known or not; the locale *)
(* of that user; whether a mail configuration is named; the style it sets; *)
(* whether the template is there and renders.                              *)
Mail == [body : {"valid", "no_client_url", "invalid"},
         user : {"anonymous", "known", "unknown"},
         locale : Locales \cup {None},
         named : BOOLEAN,
         style : {None} \cup Commands,
         template : {"good", "bad", "missing"}]

ASSUME MailerAssumption ==
    /\ \A g \in Given : g \in [settings : Settings, row : {None} \cup Row,
                             mails : [Commands -> Mail]]
    /\ LocaleKind \in [Locales -> {"default", "translated", "no_file", "gone"}]
    /\ TenantLocale \in Locales \cup {None}
    /\ None \notin Locales \cup Commands
    /\ NoRun \notin Commands \X Nat
    /\ MaxAttempts \in Nat \ {0}
    /\ Tries \in Nat \ {0}
    /\ FaultKinds \subseteq AllFaultKinds
    /\ MaxFaults \in Nat

VARIABLES
    given,      \* the settings of the application; the row that is stored
                \* under the mail configuration's uuid, or None; the bodies
                \* of the commands: none of them changes
    command,    \* persistent_command
    aborted,    \* the transaction of conn_query has failed
    pc,         \* where the worker is
    run,        \* the command and the number of its attempt
    locale,     \* locale_uuid of the request
    config,     \* mail_cfg of the job
    style,      \* StyleConfig.default(): who set its values last
    installed,  \* translations of the Jinja environment
    message,    \* locale and style the mail was rendered with
    tries,      \* tries of the sender so far
    delivered,  \* the mails that were accepted for delivery
    degraded,   \* history: runs in which a read found nothing or failed
    faults      \* history: number of faults so far

jobVars == <<pc, run, locale, config, message, tries>>
shared  == <<style, installed>>
vars == <<given, command, aborted, jobVars, shared, delivered, degraded, faults>>

-----------------------------------------------------------------------------
Run == Commands \X Nat

Mine == given.mails[run[1]]

NoMessage == [locale |-> None, style |-> None]

App == AppConfig(given.settings)

(* The steps of work() in their order. *)
Running == {"load", "user", "default_locale", "request", "config", "template",
            "load_locale", "render", "send"}

PC == {"idle", "succeeded", "error"} \cup Running

(* Steps that read the database. *)
ReadStep == {"user", "default_locale", "config", "load_locale"}

NewProcess ==
    /\ style' = None
    /\ installed' = None

EndRun ==
    /\ pc' = "idle"
    /\ run' = NoRun
    /\ locale' = None
    /\ config' = App
    /\ message' = NoMessage
    /\ tries' = 0

Init ==
    /\ given \in Given
    /\ command = [c \in Commands |-> [state |-> "new", attempts |-> 0]]
    /\ aborted = FALSE
    /\ pc = "idle"
    /\ run = NoRun
    /\ locale = None
    /\ config = App
    /\ style = None
    /\ installed = None
    /\ message = NoMessage
    /\ tries = 0
    /\ delivered = {}
    /\ degraded = {}
    /\ faults = 0

Fault(k) ==
    /\ k \in FaultKinds
    /\ faults < MaxFaults
    /\ faults' = faults + 1

Goto(step) == pc' = step

Degrade == degraded' = degraded \cup {run}

-----------------------------------------------------------------------------
(* The queue, as the mailer sees it *)

Pickable(c) ==
    command[c].state \in {"new", "error"} /\ command[c].attempts < MaxAttempts

Pick(c) ==
    /\ pc = "idle"
    /\ ~aborted
    /\ Pickable(c)
    /\ command' = [command EXCEPT ![c].attempts = @ + 1]
    /\ run' = <<c, command[c].attempts + 1>>
    /\ Goto("load")
    /\ UNCHANGED <<given, aborted, locale, config, message, tries, shared,
                   delivered, degraded, faults>>

Wait ==
    /\ pc = "idle"
    /\ ~aborted
    /\ \A c \in Commands : ~Pickable(c)
    /\ UNCHANGED vars

Record ==
    /\ pc \in {"succeeded", "error"}
    /\ ~aborted
    /\ command' = [command EXCEPT ![run[1]].state =
                     IF pc = "succeeded" THEN "done" ELSE "error"]
    /\ EndRun
    /\ UNCHANGED <<given, aborted, shared, delivered, degraded, faults>>

(* Mutant: the outcome is tried again, of a command that is forgotten. *)
ForgetRun ==
    /\ pc \in {"succeeded", "error"}
    /\ aborted
    /\ run' = NoRun
    /\ UNCHANGED <<given, command, aborted, pc, locale, config, message, tries,
                   shared, delivered, degraded, faults>>

(* In a failed transaction the outcome cannot be written. *)
RecordInFailedTransaction ==
    /\ pc \in {"succeeded", "error"}
    /\ aborted
    /\ EndRun
    /\ UNCHANGED <<given, command, aborted, shared, delivered, degraded, faults>>

Restart ==
    /\ aborted' = FALSE
    /\ NewProcess
    /\ EndRun
    /\ UNCHANGED <<given, command, delivered, degraded>>

(* Mutant: the statement is tried for ever. *)
RetriesNeverRunOut ==
    /\ pc = "idle"
    /\ aborted
    /\ UNCHANGED vars

(* The retries of run() are used up in the failed transaction. *)
RetriesRunOut ==
    /\ pc = "idle"
    /\ aborted
    /\ Restart
    /\ UNCHANGED faults

-----------------------------------------------------------------------------
(* MailerWorker.work *)

(* MailerCommand.load *)
Load ==
    /\ pc = "load"
    /\ Goto(CASE Mine.body = "invalid" -> "error"
              [] Mine.body # "invalid" /\ Mine.user = "anonymous" -> "request"
              [] OTHER -> "user")
    /\ UNCHANGED <<given, command, aborted, run, locale, config, message, tries,
                   shared, delivered, degraded, faults>>

(* get_user of _get_locale_uuid: no row is an error of the job. *)
GetUser ==
    /\ pc = "user"
    /\ IF aborted \/ Mine.user = "unknown"
       THEN Goto("error") /\ Degrade /\ UNCHANGED locale
       ELSE /\ locale' = Mine.locale
            /\ Goto(IF Mine.locale = None THEN "default_locale" ELSE "request")
            /\ UNCHANGED degraded
    /\ UNCHANGED <<given, command, aborted, run, config, message, tries, shared,
                   delivered, faults>>

GetDefaultLocale ==
    /\ pc = "default_locale"
    /\ IF aborted THEN Degrade /\ UNCHANGED locale
       ELSE locale' = TenantLocale /\ UNCHANGED degraded
    /\ Goto("request")
    /\ UNCHANGED <<given, command, aborted, run, config, message, tries, shared,
                   delivered, faults>>

(* MessageRequest, which refuses a context without client URL, and its     *)
(* style: the shared one, updated with what the command sets.              *)
MakeRequest ==
    /\ pc = "request"
    /\ IF Mine.body = "no_client_url"
       THEN Goto("error") /\ UNCHANGED style
       ELSE /\ style' = IF Mine.style # None THEN Mine.style ELSE style
            /\ Goto("config")
    /\ UNCHANGED <<given, command, aborted, run, locale, config, message, tries,
                   installed, delivered, degraded, faults>>

(* _get_mail_config: a row that is not there -- or cannot be read -- means *)
(* the configuration of the application; an unknown provider raises.       *)
GetMailConfig ==
    /\ pc = "config"
    /\ IF Mine.named /\ ~aborted /\ given.row # None
       THEN /\ config' = Merge(App, given.row, given.settings.aws)
            /\ Goto(IF config'.provider = None THEN "error" ELSE "template")
       ELSE config' = App /\ Goto("template")
    /\ IF Mine.named /\ aborted THEN Degrade ELSE UNCHANGED degraded
    /\ UNCHANGED <<given, command, aborted, run, locale, message, tries, shared,
                   delivered, faults>>

HasTemplate ==
    /\ pc = "template"
    /\ Goto(IF Mine.template = "missing" THEN "error" ELSE "load_locale")
    /\ UNCHANGED <<given, command, aborted, run, locale, config, message, tries,
                   shared, delivered, degraded, faults>>

(* Mutant: only what is found is installed. *)
LoadLocaleIfAny ==
    /\ pc = "load_locale"
    /\ installed' = IF locale # None /\ ~aborted /\ LocaleKind[locale] = "translated"
                    THEN locale ELSE installed
    /\ Goto("render")
    /\ UNCHANGED <<given, command, aborted, run, locale, config, message, tries,
                   style, delivered, degraded, faults>>

(* _load_locale, with the handler of render: whatever cannot be loaded --  *)
(* a locale that is gone makes None.id an exception -- leaves the mail     *)
(* without translations; so do no locale and the default one.              *)
LoadLocale ==
    /\ pc = "load_locale"
    /\ installed' = IF locale # None /\ ~aborted /\ LocaleKind[locale] = "translated"
                    THEN locale ELSE None
    /\ IF locale # None /\ aborted THEN Degrade ELSE UNCHANGED degraded
    /\ Goto("render")
    /\ UNCHANGED <<given, command, aborted, run, locale, config, message, tries,
                   style, delivered, faults>>

Render ==
    /\ pc = "render"
    /\ message' = [locale |-> installed, style |-> style]
    /\ tries' = 0
    /\ Goto(IF Mine.template = "bad" THEN "error" ELSE "send")
    /\ UNCHANGED <<given, command, aborted, run, locale, config, shared,
                   delivered, degraded, faults>>

(* The server has accepted the mail. *)
Delivery == [run |-> run, try |-> tries, locale |-> message.locale,
             style |-> message.style, config |-> config]

(* A sender that can work: neither does validate_config refuse its         *)
(* configuration, nor has it a text for a port that no server listens at.  *)
Usable(cfg) ==
    Valid(cfg) /\ (cfg.provider = "smtp" => cfg.smtp.port # NotAPort)

Send ==
    /\ pc = "send"
    /\ delivered' = IF config.enabled /\ Usable(config)
                    THEN delivered \cup {Delivery} ELSE delivered
    /\ Goto(IF config.enabled /\ ~Usable(config) THEN "error" ELSE "succeeded")
    /\ UNCHANGED <<given, command, aborted, run, locale, config, message, tries,
                   shared, degraded, faults>>

-----------------------------------------------------------------------------
(* Faults *)

(* What a reader returns when its statement fails: None, which every       *)
(* caller takes for a row that is not there.                               *)
TakeForMissing ==
    /\ Degrade
    /\ CASE pc = "user" -> Goto("error") /\ UNCHANGED <<locale, config, installed>>
         [] pc = "default_locale" ->
              locale' = None /\ Goto("request") /\ UNCHANGED <<config, installed>>
         [] pc = "config" ->
              config' = App /\ Goto("template") /\ UNCHANGED <<locale, installed>>
         [] pc = "load_locale" ->
              installed' = None /\ Goto("render") /\ UNCHANGED <<locale, config>>

Reads == pc \in ReadStep /\ (pc = "config" => Mine.named)
                         /\ (pc = "load_locale" => locale # None)

(* A statement fails, and the transaction with it. *)
ReadFails ==
    /\ Reads
    /\ ~aborted
    /\ Fault("sql")
    /\ aborted' = TRUE
    /\ TakeForMissing
    /\ UNCHANGED <<given, command, run, message, tries, style, delivered>>

(* The connection is lost under a statement; the next one has a new one. *)
ReadLosesConnection ==
    /\ Reads
    /\ Fault("connection")
    /\ aborted' = FALSE
    /\ TakeForMissing
    /\ UNCHANGED <<given, command, run, message, tries, style, delivered>>

(* mail.po cannot be downloaded. *)
DownloadFails ==
    /\ pc = "load_locale"
    /\ locale # None /\ LocaleKind[locale] = "translated"
    /\ Fault("storage")
    /\ Degrade
    /\ installed' = None
    /\ Goto("render")
    /\ UNCHANGED <<given, command, aborted, run, locale, config, message, tries,
                   style, delivered>>

(* Mutant: the last exception of the sender is swallowed. *)
SendFailsSilently ==
    /\ pc = "send"
    /\ config.enabled /\ Usable(config)
    /\ Fault("smtp")
    /\ tries' = tries + 1
    /\ Goto(IF config.provider = "smtp" /\ tries' < Tries THEN "send" ELSE "succeeded")
    /\ UNCHANGED <<given, command, aborted, run, locale, config, message, shared,
                   delivered, degraded>>

(* A try of the sender raises; the server may have accepted the mail.      *)
(* Only the SMTP sender tries again.                                       *)
SendFails ==
    /\ pc = "send"
    /\ config.enabled /\ Usable(config)
    /\ Fault("smtp")
    /\ delivered' \in {delivered, delivered \cup {Delivery}}
    /\ tries' = tries + 1
    /\ Goto(IF config.provider = "smtp" /\ tries' < Tries THEN "send" ELSE "error")
    /\ UNCHANGED <<given, command, aborted, run, locale, config, message, shared,
                   degraded>>

(* The job timeout strikes; a mail that is being sent may be accepted, and *)
(* translations that are being changed may be gone.                        *)
TimeOut ==
    /\ pc \in Running
    /\ Fault("timeout")
    /\ delivered' \in {delivered} \cup
         (IF pc = "send" /\ config.enabled /\ Usable(config)
          THEN {delivered \cup {Delivery}} ELSE {})
    /\ installed' \in {installed} \cup (IF pc = "load_locale" THEN {None} ELSE {})
    /\ Goto("error")
    /\ UNCHANGED <<given, command, aborted, run, locale, config, message, tries,
                   style, degraded>>

(* The connection is lost before the commit of the outcome. *)
LoseOutcome ==
    /\ pc \in {"succeeded", "error"}
    /\ Fault("connection")
    /\ aborted' = FALSE
    /\ EndRun
    /\ UNCHANGED <<given, command, shared, delivered, degraded>>

Crash ==
    /\ pc # "idle"
    /\ Fault("crash")
    /\ Restart

-----------------------------------------------------------------------------
RunJob ==
    \/ Load \/ GetUser \/ GetDefaultLocale \/ MakeRequest \/ GetMailConfig
    \/ HasTemplate \/ LoadLocale \/ Render \/ Send

WorkerStep ==
    \/ \E c \in Commands : Pick(c)
    \/ RunJob \/ Record \/ RecordInFailedTransaction \/ RetriesRunOut

FaultStep ==
    \/ ReadFails \/ ReadLosesConnection \/ DownloadFails \/ SendFails
    \/ TimeOut \/ LoseOutcome \/ Crash

Next == WorkerStep \/ Wait \/ FaultStep

Spec == Init /\ [][Next]_vars

(* The process is scheduled, and started again when it ends. *)
FairSpec == Spec /\ WF_vars(WorkerStep)

-----------------------------------------------------------------------------
(* Properties *)

(* Every variable has the type of the code's value, and a job has a run.   *)
TypeOK ==
    /\ given \in Given
    /\ command \in [Commands -> [state : {"new", "done", "error"}, attempts : Nat]]
    /\ aborted \in BOOLEAN
    /\ pc \in PC
    /\ run \in Run \cup {NoRun}
    /\ locale \in Locales \cup {None}
    /\ style \in Commands \cup {None}
    /\ installed \in Locales \cup {None}
    /\ message \in [locale : Locales \cup {None}, style : Commands \cup {None}]
    /\ tries \in 0..Tries
    /\ degraded \subseteq Run
    /\ faults \in 0..MaxFaults
    /\ \A m \in delivered : m.run \in Run
    /\ pc # "idle" => run \in Run

(* The configuration and the translations a mail of command c is meant to  *)
(* be sent with.                                                           *)
ConfigOf(c) ==
    IF given.mails[c].named /\ given.row # None
    THEN Merge(App, given.row, given.settings.aws) ELSE App

Wanted(c) ==
    LET l == CASE given.mails[c].user = "anonymous" -> None
               [] given.mails[c].user # "anonymous" /\ given.mails[c].locale # None -> given.mails[c].locale
               [] OTHER -> TenantLocale
    IN IF l # None /\ LocaleKind[l] = "translated" THEN l ELSE None

(* A mail is in the language of its recipient or, when something could not *)
(* be read, in none, and in the style its command sets, if it sets one:    *)
(* translations are installed in an environment, and styles set in an      *)
(* object, that all mails share, by jobs that fail and time out at any     *)
(* point.  (A mail whose command sets no style has the one of whatever     *)
(* command set it last: nothing is said of it.)                            *)
RenderedForRecipient ==
    \A m \in delivered :
        /\ m.locale # Wanted(m.run[1]) => m.locale = None /\ m.run \in degraded
        /\ given.mails[m.run[1]].style \in {None, m.style}

(* The port that is set where a host is named. *)
PortSet(host) ==
    CASE host = "app" -> given.settings.smtp.port
      [] host = "legacy" -> given.settings.legacy.port
      [] OTHER -> given.row.port

(* A mail leaves by the server the command names, and by that of the       *)
(* application only when none is named, none is there, or a row could not  *)
(* be read -- and not at all when mail is disabled.  The settings come     *)
(* from five sources, yet that server is shown its own credentials and     *)
(* addressed at its own port or at that of the security mode in use.       *)
SentByNamedServer ==
    \A m \in delivered :
        /\ App.enabled
        /\ m.config # ConfigOf(m.run[1]) => m.config = App /\ m.run \in degraded
        /\ CredentialsMatch(m.config)
        /\ PortFits(m.config, PortSet(m.config.smtp.host))

(* A command that is done was delivered, unless mail is disabled. *)
DoneMeansDelivered ==
    \A c \in Commands : command[c].state = "done" =>
        ~App.enabled \/ \E m \in delivered : m.run[1] = c

(* Mails that nothing but faults can keep from being sent. *)
Sendable(c) ==
    /\ given.mails[c].body = "valid"
    /\ given.mails[c].user # "unknown"
    /\ given.mails[c].template = "good"
    /\ ConfigOf(c).provider # None
    /\ App.enabled => Usable(ConfigOf(c))

(* With fewer faults than attempts, every mail that can be sent is sent in *)
(* the end (or dropped, where mail is disabled): a failed transaction that *)
(* the readers hide ends with the process, and the command is tried again. *)
MailsSettle == \A c \in Commands : Sendable(c) ~> (command[c].state = "done")

=============================================================================
