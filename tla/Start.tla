-------------------------------- MODULE Start -------------------------------
(***************************************************************************)
(* An administrator writes a command line and ini files: said.options and  *)
(* said.script are the options and the words after them, said.lines[f] the *)
(* lines of a file; text is the words of the command line.                 *)
(***************************************************************************)
EXTENDS Settings, Texts, FiniteSets

CONSTANTS
  Word,    \* words of a command line
  Key,     \* what a line of an ini file may be about
  Value,   \* what it may say
  Files    \* the ini files there are

Flags == {"--help", "--version", "--serve", "--fastcgi", "--workers", "--router"}

ASSUME StartAssumption ==
  /\ MAX_EXTENSIONS \in Nat
  /\ MaxWorkers \in Nat \ {0}
  /\ Default \notin Word \cup Files
  /\ DOMAIN IniFile \cap Flags = {}
  /\ \A w \in DOMAIN IniFile : IniFile[w] \in Files
  /\ \A w \in DOMAIN Number : w \in Word /\ Number[w] \in Int
  /\ {"system", "local"} \subseteq Files

(* An option that may have a value has one.                                *)
WriteOption(words) ==
  /\ kind = "start"
  /\ said.script = <<>>
  /\ text' = text \o words
  /\ said' = [said EXCEPT !.options = Append(@, words)]
  /\ UNCHANGED kind

(* The script and its arguments, which may look like options.              *)
WriteScript(word) ==
  /\ kind = "start"
  /\ said.script = <<>> => word \notin Flags \cup DOMAIN IniFile
  /\ text' = Append(text, word)
  /\ said' = [said EXCEPT !.script = Append(@, word)]
  /\ UNCHANGED kind

WriteLine(file, key, value) ==
  /\ kind = "start"
  /\ said' = [said EXCEPT !.lines[file] = Append(@, [key |-> key, value |-> value])]
  /\ UNCHANGED <<kind, text>>

StartInit ==
  /\ kind = "start"
  /\ text = <<>>
  /\ said = [options |-> <<>>, script |-> <<>>, lines |-> [f \in Files |-> <<>>]]

StartNext ==
  \/ \E word \in DOMAIN IniFile : WriteOption(<<word>>)
  \/ \E flag \in {"--serve", "--fastcgi", "--router"}, value \in Word : WriteOption(<<flag, value>>)
  \/ \E value \in DOMAIN Number : WriteOption(<<"--workers", value>>)
  \/ \E word \in Word : WriteScript(word)
  \/ \E file \in Files, key \in Key, value \in Value : WriteLine(file, key, value)

StartSpec == StartInit /\ [][StartNext]_<<kind, text, said>>

-----------------------------------------------------------------------------
(* What the last of the options with one of some flags says.               *)
Those(flags, n) == {i \in 1..n : said.options[i][1] \in flags}

LastOption(flag) ==
  LET those == Those({flag}, Len(said.options))
  IN IF those = {} THEN Default ELSE said.options[Max(those)][2]

(* The settings that lines ask for.  A setting has the value of the last   *)
(* line that is about it; of the extensions there are as many as there is  *)
(* room for, in their order.                                               *)
LastLine(lines, key) ==
  LET about == {i \in 1..Len(lines) : lines[i].key = key}
  IN IF about = {} THEN Default ELSE lines[Max(about)].value

Place(lines, i) == Cardinality({j \in 1..i : lines[j].key = "extension"})

AskedFor(settings, lines) ==
  /\ \A key \in Keys : settings.value[key] = LastLine(lines, key)
  /\ Len(settings.extensions) = LET asked == Place(lines, Len(lines))
                                IN IF asked < MAX_EXTENSIONS THEN asked ELSE MAX_EXTENSIONS
  /\ \A i \in 1..Len(lines) :
       lines[i].key = "extension" /\ Place(lines, i) <= MAX_EXTENSIONS =>
         settings.extensions[Place(lines, i)] = lines[i].value

(* The program does what it was started for, with the settings that its    *)
(* files ask for: those of the file that is named last, or if none is of   *)
(* the system's and then of the program's directory (main, config_load).   *)
StartsAsTold == kind = "start" =>
  LET named == Those(DOMAIN IniFile, Len(said.options))
      lines == IF named = {} THEN said.lines["system"] \o said.lines["local"]
               ELSE said.lines[IniFile[said.options[Max(named)][1]]]
      started == Started(text, said.lines)
      script == IF said.script = <<>> THEN Default ELSE said.script[1]
      workers == LastOption("--workers")
      asked == IF workers = Default THEN 4 ELSE Number[workers]
  IN /\ AskedFor(started.settings, lines)
     /\ started.runs =
          IF LastOption("--serve") # Default
          THEN <<"serve", LastOption("--serve"), script, LastOption("--router")>>
          ELSE IF LastOption("--fastcgi") # Default
          THEN <<"fastcgi", LastOption("--fastcgi"), Max({1, Min({asked, MaxWorkers})})>>
          ELSE <<"script", script, IF said.script = <<>> THEN <<>> ELSE Tail(said.script)>>
=============================================================================
