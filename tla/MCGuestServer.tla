--------------------------- MODULE MCGuestServer ---------------------------
(* A small instance of GuestServer. *)
EXTENDS GuestServer, TLC

CONSTANTS c1, c2, w, a1, a2, a3

MCClients == {c1, c2}
MCAddresses == {a1, a2, a3}

Ip(addresses) == [kind |-> "v4", covers |-> addresses, labels |-> <<>>]
Domain(k, labels) == [kind |-> k, covers |-> {}, labels |-> labels]

Doc(legacy, command, enabled, network) ==
  [allowed_commands |-> legacy, command |-> command, network_enabled |-> enabled,
   network |-> network, max_runtime_secs |-> 3, max_output_bytes |-> 4,
   workspace_absolute |-> TRUE]

CommandTable(d, m) == {[default |-> d, max |-> m, read_only |-> <<"ls">>, edit |-> <<"sed">>]}
NetworkTable(d, m) == {[default |-> d, max |-> m,
   allowlist |-> <<Ip({a1}), Domain("wild", <<"y", "io">>)>>]}

\* Documents of each shape, some of which do not validate.
MCRawPolicies ==
  { Doc({<<"ls">>}, {}, FALSE, {}),
    Doc({}, CommandTable("read_only", "edit"), TRUE, NetworkTable("none", "allowlist")),
    Doc({}, CommandTable("none", "yolo"), TRUE, NetworkTable("allowlist", "full")),
    Doc({}, CommandTable("edit", "edit"), TRUE, {}),
    Doc({}, CommandTable("edit", "read_only"), TRUE, NetworkTable("allowlist", "none")),
    Doc({<<"ls", "ls">>}, {}, TRUE, {}),
    Doc({}, CommandTable("none", "edit"), TRUE, NetworkTable("full", "allowlist")),
    Doc({}, CommandTable("none", "edit"), FALSE, NetworkTable("none", "none")) }

Name(labels) == [parses |-> TRUE, name |-> [labels |-> labels, spelling |-> "Cased."]]
MCQueries == { Name(<<"x", "y", "io">>), Name(<<"y", "io">>) }
MCDnsOf == (<<"x", "y", "io">> :> {a2}) @@ (<<"y", "io">> :> {a3})

Args == [ok |-> TRUE, command |-> "ls", cwd |-> "inside", to_command |-> {}, to_network |-> {}]
Frame == [line |-> "object", shaped |-> TRUE, id |-> "r", version |-> 1, control |-> {},
          target |-> FALSE, limits |-> {}, tool |-> {"bash_command"}, args |-> {Args}]
SetMode(command, network) ==
  [Frame EXCEPT !.control = {"set_mode"}, !.tool = {},
                !.args = {[Args EXCEPT !.to_command = command, !.to_network = network]}]
Bash(command) == [Frame EXCEPT !.args = {[Args EXCEPT !.command = command]}]
Limited(t, b) == [Frame EXCEPT !.limits = {[timeout_ms |-> t, max_output_bytes |-> b]}]

\* Modes and commands.  The runtime cap of 3 s is 12 ticks and wraps to 2.
ModeFrames ==
  { SetMode({}, {"allowlist"}), SetMode({"edit"}, {"full"}), Bash("sed"), Limited({2}, {4}) }

\* Frames refused by each group of checks, and one for the language servers.
OtherFrames ==
  { [Frame EXCEPT !.line = "text"], [Frame EXCEPT !.id = ""], [Frame EXCEPT !.control = {"cancel"}],
    Limited({0}, {}), Limited({3}, {}), Limited({}, {5}), Bash("a/b"),
    [Frame EXCEPT !.args = {[Args EXCEPT !.cwd = "outside"]}],
    SetMode({"yolo"}, {}), SetMode({}, {"bogus"}), [Frame EXCEPT !.tool = {"lsp_hover"}] }

MCFramesOf == (c1 :> ModeFrames) @@ (c2 :> {SetMode({}, {"none"}), Bash("sed")} \cup OtherFrames)
=============================================================================
