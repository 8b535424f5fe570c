-------------------------------- MODULE Voice --------------------------------
(***************************************************************************)
(* Voice control (uart_contorl_thread in src/src/user/voice_control.c)     *)
(* beside the panel.  The voice module sends its commands as bytes on a    *)
(* serial line; here a command is two pieces.  read returns what has come, *)
(* up to its limit of 20 bytes: more than one command, less than two.      *)
(***************************************************************************)
EXTENDS Panel

CONSTANT MaxSpoken   \* bound: commands spoken in a behaviour

VARIABLES
  uart,     \* the pieces sent and not yet read
  spoken,   \* commands spoken (see MaxSpoken)
  started   \* the handler threads started for commands that have not run yet

voice == <<uart, spoken, started>>
wvars == <<pvars, voice>>

ReadLimit == 3

VoiceCommands == {"open camera", "close camera"}

Bytes(command) == <<<<command, "first">>, <<command, "second">>>>

Speak ==
  /\ spoken < MaxSpoken
  /\ spoken' = spoken + 1
  /\ \E command \in VoiceCommands : uart' = uart \o Bytes(command)
  /\ UNCHANGED <<pvars, started>>

\* strcmp wants one whole command and nothing else, and the command is acted upon
\* if it asks for a change of camera_using as it is now.
Acted(text) ==
  {command \in VoiceCommands :
     text = Bytes(command) /\ (command = "close camera") = shared["camera_using"]}

Read ==
  /\ \E n \in 1 .. ReadLimit :
       /\ n <= Len(uart)
       /\ uart' = SubSeq(uart, n + 1, Len(uart))
       /\ started' = started \cup Acted(SubSeq(uart, 1, n))
  /\ UNCHANGED <<pvars, spoken>>

\* The thread's argument is the event number itself, which message_handler_thread
\* takes for the address of a parameter and reads: no page is mapped at 0 or 1.
HandlerOfEvent ==
  /\ started # {}
  /\ crash' = "bad parameter"
  /\ UNCHANGED <<pc, locks, bus, orders, result, panel, voice>>

VoiceInit == PanelInit /\ uart = <<>> /\ spoken = 0 /\ started = {}

VoiceNext == Running /\ (Speak \/ Read \/ HandlerOfEvent \/ (PanelNext /\ UNCHANGED voice))

VoiceSpec == VoiceInit /\ [][VoiceNext]_wvars

-----------------------------------------------------------------------------

\* main.c:45 casts the thread's argument, "message_handler_parameter* param =
\* (message_handler_parameter*)param_;": no handler reads a parameter through an
\* argument that is not the address of one.
HandlersGetParameters == crash # "bad parameter"

=============================================================================
