----------------------------- MODULE MCPrintJob -----------------------------
(* Small instances of PrintJob for TLC.                                    *)
EXTENDS PrintJob

CONSTANTS Web, Panel, Sensor, Owner, Benchy, Vase

MCGreenlets == Clients \cup {Sd}

\* Jobs with an ordinary command, a pause of their own, a loop, and a command
\* the card refuses.
ScriptLines ==
    [f \in Files |-> IF f = Benchy THEN <<"MOVE", "PAUSE", "SDCARD_LOOP_END">>
                     ELSE <<"SDCARD_RESET_FILE">>]

\* Two users who send scripts, one of them a script of several commands.
ScriptRequests ==
    [c \in Clients |->
        IF c = Web THEN {<<"CANCEL_PRINT">>, <<"SDCARD_RESET_FILE">>,
                         <<"M24">>, <<"M26">>, <<"SDCARD_LOOP_END">>}
        ELSE {<<"PAUSE">>, <<"RESUME">>, <<"M9925", "CLEAR_PAUSE", "M24">>,
              <<"SDCARD_PRINT_FILE">>, <<"M23", "M24">>}]

ScriptBudget == [c \in Clients |-> IF c = Web THEN 2 ELSE 3]

\* A job, or one to be continued after a power loss, a request to cancel, a
\* user who pauses or cancels by script, a runout.
EventLines == [f \in Files |-> <<"MOVE", "CANCEL_PRINT">>]

EventRequests ==
    [c \in Clients |->
        IF c = Owner THEN {<<"SDCARD_PRINT_FILE">>,
                           <<"SDCARD_POWER_OFF_CONTINUES_PINT_FILE">>}
        ELSE IF c = Web THEN {WebCancel}
        ELSE IF c = Panel THEN {<<"PAUSE">>, <<"CANCEL_PRINT">>}
        ELSE {SensorRunout}]

\* A job and two users who cancel it.
TwoCancels ==
    [c \in Clients |->
        IF c = Owner THEN {<<"SDCARD_PRINT_FILE">>} ELSE {WebCancel}]

Once == [c \in Clients |-> 1]
Twice == [c \in Clients |-> 2]
=============================================================================
