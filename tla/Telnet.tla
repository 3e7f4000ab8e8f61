------------------------------- MODULE Telnet -------------------------------
(***************************************************************************)
(* What both ends of an RFC 2217 connection share (serial/rfc2217.py): the *)
(* bytes of commands and data on the wire, the state machine that takes    *)
(* them apart, and the negotiation of one Telnet option.  A byte is a      *)
(* string; the two bytes COM_PORT_OPTION and sub-option are one, and so is *)
(* the value that follows them, which may be IAC like any data byte.       *)
(***************************************************************************)
EXTENDS Naturals, Sequences, SequencesExt

CONSTANTS
  MaxOpens,           (* How many connections are made.                    *)
  Scenarios           (* What happens at most: calls, setters, timeouts,   *)
                      (* losses, bytes, changes of the modem line and      *)
                      (* looks at it, options that come before open has    *)
                      (* asked; and whether ign_set_control is given.      *)

ASSUME TelnetAssumption ==
  /\ MaxOpens \in Nat
  /\ Scenarios \subseteq
       [opens : 0 .. MaxOpens, sets : Nat, calls : Nat, timeouts : Nat, cuts : Nat,
        flips : Nat, looks : Nat, bytes : Nat, overtakes : Nat, ignore : BOOLEAN]

VARIABLES
  net,                (* The TCP connections.  Each has the bytes on their *)
                      (* way up to the server and down to the client, and  *)
                      (* whether each end is open.                         *)
  left                (* What may still happen.                            *)

Spend(what) == left[what] > 0 /\ left' = [left EXCEPT ![what] = @ - 1]

Conns == 1 .. MaxOpens
NoConn == [up |-> <<>>, down |-> <<>>, client |-> FALSE, server |-> "none"]

Commands == {"DO", "DONT", "WILL", "WONT"}

Escape(data) ==
  FlattenSeq([i \in DOMAIN data |->
                IF data[i] = "IAC" THEN <<"IAC", "IAC">> ELSE <<data[i]>>])
OptionBytes(command, option) == <<"IAC", command, option>>
SubBytes(option, value) ==
  <<"IAC", "SB", option>> \o Escape(<<value>>) \o <<"IAC", "SE">>

-----------------------------------------------------------------------------
(* The state machine of the input: the mode, the sub-option collected so   *)
(* far if one was begun, and the command that awaits its option.           *)

Framing == [mode |-> "normal", inSub |-> FALSE, sub |-> <<>>, command |-> "none"]
Nothing == [kind |-> "none"]

(* A byte that is not a command belongs to the sub-option or is data.      *)
Collect(f, b) ==
  IF f.inSub
  THEN [frame |-> [f EXCEPT !.mode = "normal", !.sub = Append(@, b)], event |-> Nothing]
  ELSE [frame |-> [f EXCEPT !.mode = "normal"], event |-> [kind |-> "data", byte |-> b]]

(* MUTANT: the second of two IACs is taken for a command.                  *)
AfterIacUndoubled(f, b) ==
  CASE b = "SB" -> [frame |-> [f EXCEPT !.mode = "normal", !.inSub = TRUE, !.sub = <<>>],
                    event |-> Nothing]
    [] b = "SE" -> [frame |-> Framing, event |-> [kind |-> "sub", sub |-> f.sub]]
    [] b \in Commands -> [frame |-> [f EXCEPT !.mode = "negotiate", !.command = b],
                          event |-> Nothing]
    [] OTHER -> [frame |-> [f EXCEPT !.mode = "normal"], event |-> Nothing]

AfterIac(f, b) ==
  CASE b = "IAC" -> Collect(f, b)
    [] b = "SB" -> [frame |-> [f EXCEPT !.mode = "normal", !.inSub = TRUE, !.sub = <<>>],
                    event |-> Nothing]
    [] b = "SE" -> [frame |-> Framing, event |-> [kind |-> "sub", sub |-> f.sub]]
    [] b \in Commands -> [frame |-> [f EXCEPT !.mode = "negotiate", !.command = b],
                          event |-> Nothing]
    [] OTHER -> [frame |-> [f EXCEPT !.mode = "normal"], event |-> Nothing]

Deframe(f, b) ==
  CASE f.mode = "normal" /\ b = "IAC" -> [frame |-> [f EXCEPT !.mode = "iac"], event |-> Nothing]
    [] f.mode = "normal" /\ b # "IAC" -> Collect(f, b)
    [] f.mode = "iac" -> AfterIac(f, b)
    [] f.mode = "negotiate" ->
         [frame |-> [f EXCEPT !.mode = "normal"],
          event |-> [kind |-> "option", command |-> f.command, option |-> b]]

(* The loop over the bytes received, up to the first that amounts to       *)
(* something; the bytes before it only change the framing.                 *)
Taken(seen, b) ==
  IF seen.event # Nothing THEN seen
  ELSE LET d == Deframe(seen.frame, b)
       IN [frame |-> d.frame, event |-> d.event, rest |-> Tail(seen.rest)]
FirstEvent(frame, bytes) ==
  LET After[i \in 0 .. Len(bytes)] ==
        IF i = 0 THEN [frame |-> frame, event |-> Nothing, rest |-> bytes]
        ELSE CHOOSE t \in {Taken(seen, bytes[i]) : seen \in {After[i - 1]}} : TRUE
  IN After[Len(bytes)]

-----------------------------------------------------------------------------
(* Negotiation.  An end keeps, for each option and each direction, whether *)
(* it is active; <<option, yes>> names it by the command that asks for it. *)

No(yes) == IF yes = "DO" THEN "DONT" ELSE "WONT"

(* DO and DONT are about what we do, WILL and WONT about what they do.     *)
About(command) == IF command \in {"DO", "DONT"} THEN "WILL" ELSE "DO"

(* The new state and the answer.                                           *)
(* MUTANT: an option is activated for the other end without a word to it.  *)
ProcessIncomingSilent(state, yes, command) ==
  IF command \in {"DO", "WILL"}
  THEN [state |-> "active", reply |-> <<>>]
  ELSE [state |-> "inactive",
        reply |-> IF state = "active" THEN <<No(yes)>> ELSE <<>>]

ProcessIncoming(state, yes, command) ==
  IF command \in {"DO", "WILL"}
  THEN [state |-> "active",
        reply |-> IF state = "inactive" THEN <<yes>> ELSE <<>>]
  ELSE [state |-> "inactive",
        reply |-> IF state = "active" THEN <<No(yes)>> ELSE <<>>]

(* The table after a command, and the bytes to send.                       *)
NegotiateOption(table, command, option) ==
  LET item == <<option, About(command)>>
      done == ProcessIncoming(table[item], item[2], command)
  IN IF item \in DOMAIN table
     THEN [table |-> [table EXCEPT ![item] = done.state],
           bytes |-> IF done.reply = <<>> THEN <<>>
                     ELSE OptionBytes(done.reply[1], option)]
     ELSE [table |-> table, bytes |-> <<>>]

(* The initial requests of an end, in the order of its table.              *)
Requests(order, table) ==
  FlattenSeq([i \in DOMAIN order |->
                IF table[order[i]] = "requested"
                THEN OptionBytes(order[i][2], order[i][1]) ELSE <<>>])
Table(order, requested) ==
  [item \in ToSet(order) |-> IF item \in requested THEN "requested" ELSE "inactive"]
=============================================================================
