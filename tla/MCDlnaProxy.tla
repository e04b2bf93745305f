---------------------------- MODULE MCDlnaProxy ----------------------------
(* A small instance of DlnaProxy for TLC.                                  *)
EXTENDS DlnaProxy, TLC

OneSearcher == {"tv"}
FullOnly    == {"full"}
OneStream   == {10}
TwoConns    == 1..2

\* A host name with its address, and the address of the proxy.
Hosts == "origin" :> {"server"} @@ "proxy" :> {"proxy"}

Url     == "description_url" :> [host |-> "origin", path |-> "description"]
Proxied == "proxy" :> "proxy"

\* Lines that are accepted: with and without a proxy, with and without the wait
\* option, from the command line and from a file, with settings and defaults,
\* and arguments that the file makes ineffective.
FileLine ==
  CommandLine("wait" :> 10 @@ "connect_timeout" :> 4, "read",
              Url @@ Proxied @@ "period" :> 60 @@ "proxy_timeout" :> 5)
ArgsLine ==
  CommandLine(Url @@ "wait" :> BareWait @@ "connect_timeout" :> 3 @@ "proxy_timeout" :> 5,
              "absent", Nothing)

\* Lines that clap or get_config refuse.
BadLines ==
  {CommandLine(Proxied, "absent", Nothing),
   CommandLine("description_url" :> Bad, "absent", Nothing),
   CommandLine(Url @@ "proxy" :> Bad, "absent", Nothing),
   CommandLine(Url, "read", Url),
   CommandLine(Nothing, "unreadable", Nothing),
   CommandLine(Nothing, "malformed", Nothing),
   CommandLine(Nothing, "read", Proxied),
   CommandLine(Nothing, "read", "description_url" :> Bad),
   CommandLine(Nothing, "read", Url @@ "proxy" :> Bad)}

AllLines == {FileLine, ArgsLine} \cup BadLines
=============================================================================
