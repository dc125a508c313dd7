-------------------------------- MODULE Text --------------------------------
(***************************************************************************)
(* The configuration file, next to requests and forms.  The properties     *)
(* compare what the code makes of a text with definitions that do not scan *)
(* it: a grammar, an inverse.                                              *)
(***************************************************************************)
EXTENDS ConfValues, JsonPrinter, Requests, Forms

\* What the printer makes of a value is read back as that value, if its digits
\* are enough for the numbers in it.  ConfigManager relies on it for every string.
PrintedReadsBack ==
  \A v \in Documents :
    (\A u \in Nested(v, Len(text)) : u[1] = "number" => Shown(u[2], u[3]))
      => JsonParse(Stringify(v, Len(text))).val = v
=============================================================================
