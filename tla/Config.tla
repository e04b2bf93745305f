------------------------------- MODULE Config -------------------------------
(***************************************************************************)
(* The settings of a run (src/src/config.rs, and the command line that     *)
(* main.rs:21-63 describes to clap).  A source of settings, the arguments  *)
(* or the file, is a function from the names of the options it gives to    *)
(* their values; an Option of the code is a sequence of at most one value. *)
(*                                                                         *)
(* A URL is a record of a host, port included, and a path.  The verbosity  *)
(* is left out.                                                            *)
(***************************************************************************)
EXTENDS Naturals, Sequences

CONSTANTS
  Bad,     \* a text that does not parse as the URL or address it should be
  Resolve  \* the addresses each host has, which to_socket_addrs asks for

\* A command line: the arguments it gives, and what became of the file that -c
\* names: "absent" (no -c), "unreadable", "malformed" (not the TOML that is
\* expected), or "read", and then what it gives.
CommandLine(args, file, content) == [args |-> args, file |-> file, content |-> content]

Nothing  == [o \in {} |-> 0]
BareWait == 30  \* what -w stands for when it has no value

\* clap: -c excludes three of the options (the period is called interval on the
\* command line) and replaces the URL.
Excluded == {"description_url", "period", "proxy"}
Accepted(line) ==
  /\ \A o \in {"description_url", "proxy"} \cap DOMAIN line.args : line.args[o] # Bad
  /\ IF line.file = "absent" THEN "description_url" \in DOMAIN line.args
     ELSE Excluded \cap DOMAIN line.args = {}

\* A file, when one is named, is the only source: what else the command line
\* gives is not looked at.
Source(line) == IF line.file = "absent" THEN line.args ELSE line.content

Given(source, o) == IF o \in DOMAIN source THEN <<source[o]>> ELSE <<>>
OrElse(option, default) == IF option = <<>> THEN default ELSE Head(option)

\* mutant of Fields: two of three numbers change places
FieldsSwapped(source) ==
  [i \in 1..8 |-> Given(source, <<"description_url", "period", "proxy", "iface", "wait",
                                  "proxy_timeout", "connect_timeout", "stream_timeout">>[i])]

\* The tuple in which both branches of get_config hand the options on.
Fields(source) ==
  [i \in 1..8 |-> Given(source, <<"description_url", "period", "proxy", "iface", "wait",
                                  "connect_timeout", "proxy_timeout", "stream_timeout">>[i])]

\* get_config fails, and with it the program.
Refused(line) ==
  \/ line.file \in {"unreadable", "malformed"}
  \/ Given(Source(line), "description_url") \in {<<>>, <<Bad>>}
  \/ Given(Source(line), "proxy") = <<Bad>>

get_config(line) ==
  LET f == Fields(Source(line)) IN
  [description_url |-> Head(f[1]),
   period          |-> OrElse(f[2], 895),
   proxy           |-> f[3],
   broadcast_iface |-> f[4],
   wait            |-> f[5],
   connect_timeout |-> OrElse(f[6], 2),
   proxy_timeout   |-> OrElse(f[7], 10),
   stream_timeout  |-> OrElse(f[8], 300)]

\* One of the addresses of the URL's host; there may be none.
sockaddr_from_url(url) == Resolve[url.host]
=============================================================================
