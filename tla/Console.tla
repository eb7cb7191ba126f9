------------------------------ MODULE Console ------------------------------
(***************************************************************************)
(* The serial console while a CTF challenge runs (ProcessIO in main.c).    *)
(* Each pass looks at the first character received.  What is printed is    *)
(* left out; whether an answer is the right one is arbitrary, since it is  *)
(* compared with a buffer that is not cleared between two attempts and,    *)
(* for the bits, with a table that the index can leave.                    *)
(***************************************************************************)
EXTENDS CTF

VARIABLE usb_console  \* ProcessIO gets as far as the console: USB is ready, the
                      \* badge is not in Forth mode

\* States left in the next pass.
Prompts ==
  [INJECTION5 |-> "INJECTION6",
   HELLO |-> "HELLO2", HELLO2 |-> "HELLO3", HELLO3 |-> "HELLO4", HELLO4 |-> "HELLO5",
   HELLO5 |-> "DONE",
   EYECOLOR_SER |-> "EYECOLOR_SER2", BITBANGING_SER |-> "BITBANGING2_SER",
   BITBANGING_CHAL_SER |-> "BITBANGING_CHAL_SER2"]

\* States left once the stopwatch has run down, which start it again.
InjectionThen ==
  [INJECTION1 |-> "INJECTION2", INJECTION2 |-> "INJECTION3", INJECTION3 |-> "INJECTION4",
   INJECTION4 |-> "INJECTION5"]

Say(state) ==
  /\ g_ctf_serial_state' = state
  /\ granted' = (granted \/ state \in {"EYECOLOR_PASS", "BITBANGING_PASS"}
                         \/ g_ctf_serial_state = "HELLO5")
  /\ UNCHANGED g_ctf_server_enable

Prompt ==
  /\ g_ctf_serial_state \in DOMAIN Prompts
  /\ Say(Prompts[g_ctf_serial_state])
  /\ UNCHANGED sw_ctf_test

\* The fourth picture is printed again and again.
InjectionAgain(state) == IF state = "INJECTION4" THEN state ELSE InjectionThen[state]
InjectionNext(state) == InjectionThen[state]

CtfInjection ==
  /\ g_ctf_serial_state \in DOMAIN InjectionThen /\ sw_ctf_test = 0
  /\ Say(InjectionNext(g_ctf_serial_state))
  /\ sw_ctf_test' = 1

Login ==
  \/ /\ g_ctf_serial_state = "LOGIN"
     /\ Say("HACKIT") /\ UNCHANGED sw_ctf_test
  \/ /\ g_ctf_serial_state = "HACKIT"
     /\ Say("INJECTION1") /\ sw_ctf_test' = 1
  \/ /\ g_ctf_serial_state = "INJECTION6"
     /\ \E yes \in BOOLEAN : Say(IF yes THEN "HELLO" ELSE "LOGIN")
     /\ UNCHANGED sw_ctf_test

\* The end of an answer: a return, or the 33rd character of the first one.
Answer ==
  /\ \E right \in BOOLEAN :
       \/ g_ctf_serial_state = "EYECOLOR_SER2" /\ Say(IF right THEN "EYECOLOR_PASS" ELSE "DONE")
       \/ g_ctf_serial_state = "BITBANGING_CHAL_SER2" /\ Say(IF right THEN "BITBANGING_PASS" ELSE "DONE")
  /\ UNCHANGED sw_ctf_test

\* What needs no character, and what answers one.
Continue == Prompt \/ CtfInjection
Received == Login \/ Answer

ConsolePass(step) ==
  /\ usb_console /\ g_ctf_server_enable /\ step
  /\ UNCHANGED <<runningApp, menuVars, ctf_state, ctf_menu_state, ctf_lightme_index, followed,
                 usb_console>>

\* The cable is plugged in or pulled, Forth mode begins or ends.
UsbChanges ==
  /\ usb_console' = ~usb_console
  /\ UNCHANGED <<runningApp, menuVars, ctfVars>>

ConsoleStates ==
  DOMAIN Prompts \cup DOMAIN InjectionThen
    \cup {"LOGIN", "HACKIT", "INJECTION6", "EYECOLOR_SER2", "EYECOLOR_PASS", "BITBANGING2_SER",
          "BITBANGING_CHAL_SER2", "BITBANGING_PASS", "DONE"}
=============================================================================
