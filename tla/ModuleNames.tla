----------------------------- MODULE ModuleNames ------------------------------
(***************************************************************************)
(* The two searches of ConfUtils.cpp: the libraries and the directories    *)
(* that a document lists, as the server looks for them.                    *)
(***************************************************************************)
EXTENDS JsonGrammar, StringPrinter

\* find_modules and find_modules_path: a value is printed; only the directories
\* lose their backslashes.  A mutant forgets the quotes.
ModuleQuoted(printed) == <<"lib">> \o printed \o <<".so">>
ModuleFile(printed) == <<"lib">> \o Erased(printed, {Quote}) \o <<".so">>
ModuleDir(printed) == Erased(printed, {Quote, Backslash})

\* No character that JSON escapes, but the slash.
PlainString(s) == \A i \in DOMAIN s : s[i] = "/" \/ Escaped(s[i]) = <<s[i]>>

\* A library is looked for under the name the file gives it, if that has no
\* slash either, and a directory under its own: find_modules,
\* find_modules_path.
NamesKept ==
  \A v \in Documents : v[1] = "string" /\ PlainString(v[2]) =>
    /\ ModuleDir(StringifyString(v[2])) = v[2]
    /\ "/" \notin ToSet(v[2]) =>
         ModuleFile(StringifyString(v[2])) = <<"lib">> \o v[2] \o <<".so">>
===============================================================================
