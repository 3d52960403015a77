----------------------------- MODULE MC_BleuIo -----------------------------
EXTENDS BleuIo

Line(words) == words \o <<"cr", "lf">>

(* Echoes and unrequested lines, line feeds without a carriage return,     *)
(* lines and answers that are too long, and what follows a terminal line.  *)
BasicResponses ==
    {Line(<<"ERROR">>), Line(<<"OK">>) \o Line(<<"noise">>), <<"OK", "lf">> \o Line(<<"OK">>),
     Line(<<"noise">>) \o Line(<<"noise", "noise">>) \o Line(<<"OK">>)}

ScanResponses ==
    {Line(<<"SCANNING">>) \o Line(<<"DEVICE">>) \o Line(<<"COMPLETE">>),
     Line(<<"SCANNING">>) \o Line(<<"COMPLETE">>), Line(<<"ERROR">>), Line(<<"BAD">>),
     Line(<<"noise", "noise">>)}

SomeWords ==
    {"OK", "ERROR", "SCANNING", "DEVICE", "COMPLETE", "BAD", "noise", "cr", "lf"}

SomeResponses == [basic |-> BasicResponses, scan |-> ScanResponses]
=============================================================================
