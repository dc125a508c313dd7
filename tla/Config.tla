-------------------------------- MODULE Config --------------------------------
(***************************************************************************)
(* ConfigManager (sources/server/conf_manager): what browser_conf makes of *)
(* the configuration file, the first time and every time a reload calls it *)
(* again on the same object.                                               *)
(*                                                                         *)
(* A file is what its JSON says: which keys with which values, which       *)
(* libraries in which directories.  Text tells how the JSON is read.       *)
(***************************************************************************)
EXTENDS Integers, Sequences, FiniteSets, Lists

CONSTANTS
  Keys, Values,  \* the keys of zia.json and what they may have
  Null,          \* the value `null'
  Unreadable,    \* a file that is missing, or no .json, or whose text is no object
  Names, Dirs,   \* libraries (`libX.so') and directories
  Libraries,     \* the pairs <<name, directory>> there is a file for
  Defaults,      \* DefaultValue(): values for some of the keys
  Files,         \* what the administrator may put into zia.json
  MaxReads       \* bound: how many times the file is read

\* What an object in zia.json may say.
Contents ==
  [keys : UNION {[K -> Values \cup {Null}] : K \in SUBSET Keys},
   modules : Seq(Names), dirs : Seq(Dirs)]

ASSUME ConfigAssumption ==
  /\ Null \notin Values
  /\ Unreadable \notin Contents
  /\ Libraries \subseteq Names \X Dirs
  /\ Defaults \in UNION {[K -> Values] : K \in SUBSET Keys}
  /\ \A f \in Files : f \in Contents \cup {Unreadable}
  /\ MaxReads \in Nat \ {0}

VARIABLES
  file,   \* what zia.json says
  conf,   \* _conf: a value for some of the keys
  names,  \* _modules
  dirs,   \* _modules_path
  list,   \* _list: the libraries found, each with its directory
  reads   \* history: what every call of browser_conf found

confVars == <<file, conf, names, dirs, list, reads>>

ConfigInit ==
  /\ file \in Files
  /\ conf = [k \in {} |-> Null]
  /\ names = <<>> /\ dirs = <<>> /\ list = <<>>
  /\ reads = <<>>

ConfigTypeOK ==
  /\ file \in Files
  /\ conf \in UNION {[K -> Values] : K \in SUBSET Keys}
  /\ names \in Seq(Names) /\ dirs \in Seq(Dirs)
  /\ list \in Seq(Libraries)
  /\ reads \in Seq(Files) /\ Len(reads) <= MaxReads

\* The keys a file gives a value; getKey passes over the others.
Told(f) == {k \in DOMAIN f.keys : f.keys[k] # Null}

\* _conf[k] = ...: f over g.
Over(f, g) == [k \in DOMAIN f \cup DOMAIN g |-> IF k \in DOMAIN f THEN f[k] ELSE g[k]]

\* Mutant: the defaults are for the first time only.
KeepValues(c) == Over(c, Defaults)

\* DefaultValue: it comes first, so that it stays where the file is silent.
WithDefaults(c) == Over(Defaults, c)

\* Mutant: IsNull is not asked.
WithAllKeys(c, f) == Over(f.keys, c)

\* getKey.
WithKeys(c, f) == Over([k \in Told(f) |-> f.keys[k]], c)

\* getModByPath: every library of the list that is in a directory, from the first that
\* has it.
There(ds) == {n \in Names : \E i \in DOMAIN ds : <<n, ds[i]>> \in Libraries}
FirstDir(n, ds) ==
  ds[CHOOSE i \in DOMAIN ds : <<n, ds[i]>> \in Libraries
                              /\ \A j \in 1 .. i - 1 : <<n, ds[j]>> \notin Libraries]
Found(ns, ds) ==
  LET there == Only(ns, There(ds))
  IN  [i \in DOMAIN there |-> <<there[i], FirstDir(there[i], ds)>>]

\* browser_conf on a file that cannot be read: the defaults are back, and that is all.
ReadNothing ==
  /\ file = Unreadable
  /\ conf' = WithDefaults(conf)
  /\ UNCHANGED <<names, dirs, list>>

\* browser_conf: the names and directories of this file come after those of earlier
\* ones, and all of them are looked for again.
ReadContents ==
  /\ file # Unreadable
  /\ conf' = WithKeys(WithDefaults(conf), file)
  /\ names' = names \o file.modules
  /\ dirs' = dirs \o file.dirs
  /\ list' = list \o Found(names', dirs')

BrowserConf ==
  /\ Len(reads) < MaxReads
  /\ ReadNothing \/ ReadContents
  /\ reads' = Append(reads, file)
  /\ UNCHANGED file

\* The administrator saves another file, while it may still be read.
Edit ==
  /\ Len(reads) < MaxReads
  /\ file' \in Files \ {file}
  /\ UNCHANGED <<conf, names, dirs, list, reads>>

-------------------------------------------------------------------------------
(* What a configuration promises. *)

\* The reads that gave the key a value.
Tellers(k) == {i \in DOMAIN reads : reads[i] # Unreadable /\ k \in Told(reads[i])}

\* After any history of edits, failed reads and reloads: a key with a default has what
\* the last file said, or the default; any other key what the last file that knew it
\* said, and none if no file did.  Nothing is left of a half-read file, and a default
\* never covers what the file says (`refresh all conf with browser_conf',
\* includes/server/config_manager/ConfigManager.hpp).
ConfFollowsReads ==
  reads # <<>> =>
    \A k \in Keys :
      IF Len(reads) \in Tellers(k)
      THEN k \in DOMAIN conf /\ conf[k] = reads[Len(reads)].keys[k]
      ELSE IF k \in DOMAIN Defaults
      THEN k \in DOMAIN conf /\ conf[k] = Defaults[k]
      ELSE /\ k \in DOMAIN conf <=> Tellers(k) # {}
           /\ \A i \in Tellers(k) :
                (\A j \in Tellers(k) : j <= i) => conf[k] = reads[i].keys[k]
===============================================================================
