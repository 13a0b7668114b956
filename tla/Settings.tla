------------------------------ MODULE Settings ------------------------------
(***************************************************************************)
(* What the program is started with: the words of its command line (main)  *)
(* and the lines of its ini files (config_load).                           *)
(*                                                                         *)
(* A word is a flag or something else. A line is a record of a key and a   *)
(* value; comments, and lines without =, are left out.                     *)
(*                                                                         *)
(* An operator named X_how is X with a plausible mistake, kept beside it   *)
(* for the properties to be tested against; nothing else uses it.          *)
(***************************************************************************)
EXTENDS Integers, Sequences, SequencesExt

CONSTANTS
  MAX_EXTENSIONS,   \* the entries of cfg->extensions
  MaxWorkers,       \* the largest pool: 64 in the program
  Default,          \* the value of what no line and no word sets
  Number,           \* Number[w]: the number that atoi reads from a word
  IniFile           \* IniFile[w]: the file that a word --ini=path names

-----------------------------------------------------------------------------
(* config_init and config_load_file, one line after the other.             *)
Keys == {"memory_limit", "max_execution_time", "display_errors", "error_log",
         "upload_max_filesize", "upload_dir", "extension_dir"}

Initial == [value |-> [key \in Keys |-> Default], extensions |-> <<>>]

Setting(cfg, line) ==
  IF line.key \in Keys THEN [cfg EXCEPT !.value[line.key] = line.value]
  ELSE IF line.key = "extension" /\ Len(cfg.extensions) < MAX_EXTENSIONS
  THEN [cfg EXCEPT !.extensions = Append(@, line.value)]
  ELSE cfg

(* A file that is not there has no lines.                                  *)
LoadFile(cfg, lines) ==
  LET load[i \in 0..Len(lines)] == IF i = 0 THEN cfg ELSE Setting(load[i - 1], lines[i])
  IN load[Len(lines)]

(* config_load: the file that is named, or those of the system and of the  *)
(* program's directory.                                                    *)
Load_all(files, override) ==
  LoadFile(LoadFile(IF override = Default THEN Initial ELSE LoadFile(Initial, files[override]),
                    files["system"]), files["local"])

Load(files, override) ==
  IF override # Default THEN LoadFile(Initial, files[override])
  ELSE LoadFile(LoadFile(Initial, files["system"]), files["local"])

-----------------------------------------------------------------------------
(* The loop over argv.  The first word that is no option is the script (or *)
(* the document root), and all that follows is the script's.               *)
Told == [ini |-> Default, serve |-> Default, fastcgi |-> Default, workers |-> 4,
         router |-> Default, script |-> Default, argv |-> <<>>, help |-> FALSE]

Option(words, at) ==
  LET word == words[at.next]
      more == at.next < Len(words)
      value == words[at.next + 1]
      Off(n, told) == [next |-> at.next + n, told |-> told]
      End(told) == [next |-> Len(words) + 1, told |-> told]
  IN IF at.next > Len(words) THEN at
     ELSE CASE word \in DOMAIN IniFile -> Off(1, [at.told EXCEPT !.ini = IniFile[word]])
            [] word \in {"--help", "--version"} -> End([at.told EXCEPT !.help = TRUE])
            [] word = "--serve" -> Off(2, [at.told EXCEPT !.serve = IF more THEN value ELSE "8000"])
            [] word = "--fastcgi" -> Off(2, [at.told EXCEPT !.fastcgi = IF more THEN value ELSE "9000"])
            [] word = "--workers" -> Off(2, IF more THEN [at.told EXCEPT !.workers = Number[value]]
                                            ELSE at.told)
            [] word = "--router" -> Off(2, IF more THEN [at.told EXCEPT !.router = value] ELSE at.told)
            [] OTHER -> End([at.told EXCEPT !.script = word,
                                            !.argv = SubSeq(words, at.next + 1, Len(words))])

Options(words) ==
  LET loop[i \in 0..Len(words)] ==
        IF i = 0 THEN [next |-> 1, told |-> Told] ELSE Option(words, loop[i - 1])
  IN loop[Len(words)].told

(* What runs: one server, or one script, with the settings of its files.   *)
Clip(n) == IF n < 1 THEN 1 ELSE IF n > MaxWorkers THEN MaxWorkers ELSE n

Started(words, files) ==
  LET told == Options(words)
  IN [runs |-> IF told.help THEN <<"help">>
               ELSE IF told.serve # Default THEN <<"serve", told.serve, told.script, told.router>>
               ELSE IF told.fastcgi # Default THEN <<"fastcgi", told.fastcgi, Clip(told.workers)>>
               ELSE <<"script", told.script, told.argv>>,
      settings |-> Load(files, told.ini)]
=============================================================================
