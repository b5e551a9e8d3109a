----------------------------- MODULE MailConfig ------------------------------
(***************************************************************************)
(* The mail configuration: from the settings of the application (a file,   *)
(* the environment, an older layout of the file, the AWS section) to what  *)
(* a sender is prepared with, for the configuration of the application and *)
(* for one that a command names and the database holds.                    *)
(*                                                                         *)
(* Hosts, names, passwords and keys are abstracted to where they come      *)
(* from: "app", "legacy", "aws" or "db"; security modes, ports and         *)
(* switches keep their values.                                             *)
(***************************************************************************)
EXTENDS Naturals

CONSTANT None  \* the value None, and "is not set"

(* What a port can be set to; zero means that it is not set, except in the *)
(* older layout, where it is text, as is the one not set.  A server can be *)
(* addressed at neither text: NotAPort is both of them.                    *)
Port == 0..65535

NotAPort == 65536

IsSet(port) == port \notin {None, 0}

AsText(port) == IF IsSet(port) THEN port ELSE NotAPort

(* What can be set of a server in section t, and of keys; a host, a switch *)
(* or an environment variable may be set to nothing.                       *)
SmtpSettings(t) ==
    [host     : {t, "", None},
     security : {None} \cup STRING,
     ssl      : {None} \cup STRING,
     port     : {None} \cup Port,
     auth     : {None} \cup BOOLEAN,
     username : {t, None},
     password : {t, None}]

KeySettings(t) == [key : {t, None}, secret : {t, None}, region : {t, None}]

Provider == {"smtp", "ses", "amazonses", "amazon_ses"}

(* None is neither a port nor a provider. *)
ASSUME NoneAssumption == None \notin Nat \cup Provider

(* With another provider a process does not start; ssl and auth are keys   *)
(* of the older layout alone.                                              *)
Settings ==
    [enabled  : BOOLEAN,
     env      : [enabled : {None} \cup STRING, security : {None} \cup STRING],
     provider : Provider,
     smtp     : {s \in SmtpSettings("app") : s.ssl = None /\ s.auth = None},
     legacy   : SmtpSettings("legacy"),
     ses      : KeySettings("app"),
     aws      : KeySettings("aws")]

(* A row of the database. *)
Row ==
    [provider : STRING, host : {"db", "", None}, security : {None} \cup STRING,
     port : {None} \cup Port, username : {"db", None}, password : {"db", None},
     key : {"db", None}, secret : {"db", None}, region : {"db", None}]

-----------------------------------------------------------------------------
(* MailSMTPConfig *)

SecurityMode == {"plain", "ssl", "tls"}

DefaultPort(security) ==
    CASE security = "plain" -> 25 [] security = "ssl" -> 465 [] OTHER -> 587

(* MailSMTPConfig.__init__.  A mode that is unknown is no mode.  Without a *)
(* mode the old switch ssl is looked at, a string of which only the empty  *)
(* one is false: "False" means SSL, too.                                   *)
SmtpConfig(s) ==
    LET security ==
            CASE s.security \in SecurityMode -> s.security
              [] s.security \notin SecurityMode /\ s.ssl \notin {None, ""} -> "ssl"
              [] OTHER -> "plain"
    IN [host     |-> s.host,
        security |-> security,
        port     |-> IF IsSet(s.port) THEN s.port ELSE DefaultPort(security),
        auth     |-> IF s.auth # None THEN s.auth
                     ELSE s.username # None /\ s.password # None,
        username |-> s.username,
        password |-> s.password]

(* MailSMTPConfig() *)
EmptySmtp ==
    SmtpConfig([host |-> None, security |-> None, ssl |-> None, port |-> None,
                auth |-> None, username |-> None, password |-> None])

(* MailAmazonSESConfig() *)
EmptySes == [key |-> None, secret |-> None, region |-> None]

HasCredentials(ses) == ses.key # None /\ ses.secret # None

(* MailConfig.__init__: the provider a name stands for; None: it raises. *)
ProviderOf(name) ==
    CASE name = "smtp" -> "smtp"
      [] name \in Provider \ {"smtp"} -> "ses"
      [] OTHER -> None

(* MailConfig.update_aws; mutant: what is missing is filled in. *)
FillAws(cfg, aws) ==
    [cfg EXCEPT !.ses =
        [key    |-> IF @.key = None THEN aws.key ELSE @.key,
         secret |-> IF @.secret = None THEN aws.secret ELSE @.secret,
         region |-> IF @.region = None THEN aws.region ELSE @.region]]

UpdateAws(cfg, aws) ==
    IF cfg.provider # "ses" THEN cfg
    ELSE LET keys == IF HasCredentials(cfg.ses) THEN cfg.ses ELSE aws
         IN [cfg EXCEPT !.ses =
                [key    |-> keys.key,
                 secret |-> keys.secret,
                 region |-> IF @.region = None THEN aws.region ELSE @.region]]

-----------------------------------------------------------------------------
(* The configuration of the application *)

(* DSWConfigParser.get: a variable of the environment wins over the file. *)
Setting(env, yaml) == IF env # None THEN env ELSE yaml

(* MailerConfigParser.mail: a section smtp whose host is the empty string, *)
(* its default, is replaced by the older layout, whose port is cast with   *)
(* str.  The switch of the environment is cast with bool: only an empty    *)
(* string is false.                                                        *)
AppConfig(s) ==
    LET smtp == [s.smtp EXCEPT !.security = Setting(s.env.security, @)]
        legacy == [s.legacy EXCEPT !.port = AsText(@)]
    IN UpdateAws(
        [enabled  |-> IF s.env.enabled # None THEN s.env.enabled # "" ELSE s.enabled,
         provider |-> ProviderOf(s.provider),
         smtp     |-> SmtpConfig(IF s.smtp.host = "" THEN legacy ELSE smtp),
         ses      |-> s.ses,
         origin   |-> "app"],
        s.aws)

-----------------------------------------------------------------------------
(* A configuration of the database: merge_mail_configs *)

SecurityOf(app, db) ==
    CASE db.security = None -> app.smtp.security
      [] db.security \in SecurityMode -> db.security
      [] OTHER -> "plain"

(* The port of a server that the row names; mutant: chosen before the      *)
(* security mode is.                                                       *)
PortOfEmpty(app, db) == IF IsSet(db.port) THEN db.port ELSE EmptySmtp.port

PortOf(app, db) ==
    IF IsSet(db.port) THEN db.port ELSE DefaultPort(SecurityOf(app, db))

(* Without a host in the row, the server of the application is taken, with *)
(* its credentials; with one, nothing but the security mode is.  Either    *)
(* way auth stays what MailSMTPConfig() has made it.                       *)
MergeSmtp(app, db) ==
    IF db.host = None
    THEN [app.smtp EXCEPT !.auth = EmptySmtp.auth]
    ELSE [host     |-> db.host,
          security |-> SecurityOf(app, db),
          port     |-> PortOf(app, db),
          auth     |-> EmptySmtp.auth,
          username |-> db.username,
          password |-> db.password]

MergeSes(app, db) ==
    IF db.key = None /\ db.secret = None
    THEN app.ses
    ELSE [key |-> db.key, secret |-> db.secret, region |-> db.region]

(* Whether mails are sent at all is left to the application.  Only one of  *)
(* the names of Amazon SES makes use of the keys in the row.               *)
Merge(app, db, aws) ==
    UpdateAws(
        [enabled  |-> app.enabled,
         provider |-> ProviderOf(db.provider),
         smtp     |-> IF db.provider = "smtp" THEN MergeSmtp(app, db) ELSE EmptySmtp,
         ses      |-> IF db.provider = "amazonses" THEN MergeSes(app, db) ELSE EmptySes,
         origin   |-> "db"],
        aws)

-----------------------------------------------------------------------------
(* What a sender makes of a configuration *)

(* validate_config of the senders *)
Valid(cfg) ==
    CASE cfg.provider = "smtp" -> cfg.smtp.host \notin {None, ""}
      [] cfg.provider = "ses" -> HasCredentials(cfg.ses) /\ cfg.ses.region # None

(* The credentials a server is shown belong to it, whatever the settings,  *)
(* older settings, AWS settings and rows the configuration was put         *)
(* together from: none of them travels to a foreign server.                *)
CredentialsMatch(cfg) ==
    CASE cfg.provider = "smtp" ->
            {cfg.smtp.username, cfg.smtp.password} \subseteq {cfg.smtp.host, None}
      [] cfg.provider = "ses" -> cfg.ses.key = cfg.ses.secret

(* A server is addressed at the port that is set for it or, when none is,  *)
(* at the one of the security mode in use.                                 *)
PortFits(cfg, port) ==
    cfg.provider = "smtp" =>
        cfg.smtp.port = IF IsSet(port) THEN port ELSE DefaultPort(cfg.smtp.security)

=============================================================================
