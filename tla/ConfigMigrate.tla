----------------------------- MODULE ConfigMigrate -----------------------------
(***************************************************************************)
(* What every start of mc does to config.json before its command runs:     *)
(* fixConfig of cmd/config-fix.go, migrateConfig of cmd/config-migrate.go  *)
(* with the versions of cmd/config-old.go and config-v10.go, initMC, and   *)
(* then a command that saves the configuration, alias set or remove.       *)
(*                                                                         *)
(* Each function loads the file, converts it and saves it: whole, or not   *)
(* at all (minio/pkg/quick, external).  mc may end between any two of them *)
(* and is then started again.  One mc runs at a time.                      *)
(*                                                                         *)
(* A configuration is [version, broken, hosts, aliases].  `hosts' and      *)
(* `aliases' are its JSON objects of these names, here functions from keys *)
(* to [url, keys].  The hosts of versions 1 to 6 have their name as url,   *)
(* their aliases have no keys; from version 7 on the names are those of    *)
(* the aliases, which are under "hosts" until version 9.                   *)
(***************************************************************************)
EXTENDS Integers, Sequences, FiniteSets

CONSTANTS
  Configs,    \* the files that an mc of long ago may have left
  UserKeys,   \* the keys of the user; others are "default" and "none"
  Clouds,     \* bound: the names cloud0, cloud1, ... that there may be
  MaxStarts   \* bound: starts of mc

VARIABLES
  config,      \* config.json
  step,        \* 0 if mc does not run, or the place of the next function
  refused,     \* fatalIf has ended the last start
  starts,
  first, commands  \* history: config at first; how many commands have saved it

configVars == <<config, step, refused, starts, first, commands>>

Old == <<"1.0.0", "1.0.1", "2", "3", "4", "5", "6", "7", "8", "9">>
globalMCConfigVersion == "10"
ConfigVersions == {Old[i] : i \in DOMAIN Old} \cup {"", globalMCConfigVersion}

\* strings.Contains(host, "*"), (host, "s3") and strings.HasPrefix(host, "http").
Glob == {"localhost:*", "127.0.0.1:*", "*.s3*.amazonaws.com", "*s3*amazonaws.com",
         "*storage.googleapis.com"}
NamesS3 == {"*.s3*.amazonaws.com", "*s3*amazonaws.com", "https://s3.amazonaws.com",
            "s3.amazonaws.com", "https://s3.mine.org"}
WithScheme == {"https://s3.amazonaws.com", "https://s3.mine.org",
               "https://storage.googleapis.com", "https://mine.org"}
Known == {"s3.amazonaws.com", "localhost:9000"}  \* of fixConfigV6ForHosts
Schemed(n) == CASE n = "s3.amazonaws.com" -> "https://s3.amazonaws.com"
                [] n = "localhost:9000"   -> "https://localhost:9000"

Entry(url, keys) == [url |-> url, keys |-> keys]
Hosts(names, keys) == [n \in names |-> Entry(n, keys)]
Empty == Hosts({}, "none")
Keep(f, S) == [n \in DOMAIN f \cap S |-> f[n]]
Drop(f, S) == [n \in DOMAIN f \ S |-> f[n]]
\* f, and of g what f has not.
WithDefaults(f, g) ==
  [n \in DOMAIN f \cup DOMAIN g |-> IF n \in DOMAIN f THEN f[n] ELSE g[n]]

File(version, aliases) ==
  [version |-> version, broken |-> FALSE, hosts |-> Empty, aliases |-> aliases]
NoConfig == File("", Empty)
KeysIn(f) == {f[n].keys : n \in DOMAIN f} \cap UserKeys

\* Keys are under "hosts" until version 9, and under "aliases" in version 10.
\* The hosts of a file, and those that its migration adds, are not more than
\* there are names for.
ASSUME ConfigAssumption ==
  /\ MaxStarts \in Nat /\ UserKeys \cap {"default", "none"} = {}
  /\ Clouds \in Seq({Clouds[i] : i \in DOMAIN Clouds})
  /\ \A i, j \in DOMAIN Clouds : Clouds[i] = Clouds[j] => i = j
  /\ \A i \in DOMAIN Clouds : Clouds[i] \notin {"s3", "gcs", "player", "dl", "play"}
  /\ \A c \in Configs :
       /\ c = [version |-> c.version, broken |-> c.broken,
               hosts |-> c.hosts, aliases |-> c.aliases]
       /\ c.version \in ConfigVersions /\ c.broken \in BOOLEAN
       /\ c.version = "" => c = NoConfig
       /\ IF c.version = globalMCConfigVersion THEN KeysIn(c.hosts) = {} ELSE KeysIn(c.aliases) = {}
       /\ c.hosts = [n \in DOMAIN c.hosts |-> Entry(c.hosts[n].url, c.hosts[n].keys)]
       /\ LET all == DOMAIN c.hosts \cup Glob \cup {Schemed(n) : n \in Known}
          IN IsFiniteSet(all) /\ Cardinality(all) <= Len(Clouds)

\* One of the values that are written for each name: maps have no order.
Written(W) ==
  {f \in [{w[1] : w \in W} -> {w[2] : w \in W}] : \A n \in DOMAIN f : <<n, f[n]>> \in W}

-----------------------------------------------------------------------------
(***************************************************************************)
(* The conversions: what each may make of a configuration of its version.  *)
(***************************************************************************)

\* Version 3 was written with other names for the keys: read with the right
\* ones they are empty, as those of a right file are with the wrong ones.
Read3(c) == IF c.broken THEN [n \in DOMAIN c.hosts |-> [c.hosts[n] EXCEPT !.keys = "none"]]
            ELSE c.hosts

fixedV3(c) ==
  IF c.broken /\ \E n \in DOMAIN c.hosts : c.hosts[n].keys # "none"
  THEN [c EXCEPT !.broken = FALSE] ELSE c

\* Hosts without a scheme get one if they are known, and are dropped if not,
\* but only if there is a known one.
fixedV6Hosts(c) ==
  IF DOMAIN c.hosts \cap Known = {} THEN {c}
  ELSE {[c EXCEPT !.hosts = f] : f \in
          Written({<<n, c.hosts[n]>> : n \in DOMAIN c.hosts \cap WithScheme}
             \cup {<<Schemed(n), Entry(Schemed(n), c.hosts[n].keys)>> :
                     n \in DOMAIN c.hosts \cap Known})}

\* The examples of version 1.0.1, unless they are there.
migratedV1(c) ==
  LET examples == [n \in {"localhost:*", "127.0.0.1:*", "*.s3*.amazonaws.com"} |->
                    Entry(n, IF n = "*.s3*.amazonaws.com" THEN "default" ELSE "none")]
  IN {[c EXCEPT !.hosts = WithDefaults(@, examples)]}

\* All keys of the user for a host with s3 in its name go to the one entry
\* for Amazon.
migratedV5(c) ==
  LET others == Drop(c.hosts, NamesS3)
      userS3 == {n \in DOMAIN c.hosts \cap NamesS3 : c.hosts[n].keys \in UserKeys}
      amazon == IF userS3 = {} THEN {"default"} ELSE {c.hosts[n].keys : n \in userS3}
      new(keys) == [n \in {"*s3*amazonaws.com", "*storage.googleapis.com"} |->
                     Entry(n, IF n = "*s3*amazonaws.com" THEN keys ELSE "default")]
      gcs == [a \in {"gcs"} |-> Entry("https://storage.googleapis.com", "none")]
  IN {[c EXCEPT !.aliases = WithDefaults(@, gcs), !.hosts = WithDefaults(others, new(keys))] :
        keys \in amazon}

\* setHost and setAlias of the four loadDefaults: what is not there yet.
DefaultsV8 ==
  [a \in {"local", "s3", "gcs", "play"} |->
     Entry(CASE a = "local" -> "http://localhost:9000"
             [] a = "s3"    -> "https://s3.amazonaws.com"
             [] a = "gcs"   -> "https://storage.googleapis.com"
             [] a = "play"  -> "https://play.min.io",
           IF a = "local" THEN "none" ELSE "default")]
\* In version 7 "player" has the keys that "play" has later.
DefaultsV7 ==
  WithDefaults([a \in {"play", "player", "dl"} |->
                  Entry(CASE a = "play"   -> "https://play.min.io"
                          [] a = "player" -> "https://play.min.io:9002"
                          [] a = "dl"     -> "https://dl.min.io:9000",
                        IF a = "player" THEN "default" ELSE "none")],
               DefaultsV8)
DefaultsV10 == DefaultsV8

\* A host gets the names of the aliases that point to it, and a name of its own.
migratedV6(c) ==
  LET names == DOMAIN c.hosts
      own == [n \in names |->
                IF n = "https://s3.amazonaws.com" THEN "s3"
                ELSE IF n = "https://storage.googleapis.com" THEN "gcs" ELSE "cloud"]
      clouds == {n \in names : own[n] = "cloud"}
      numbered == {g \in [clouds -> 1..Cardinality(clouds)] :
                     \A m, n \in clouds : m # n => g[m] # g[n]}
      byAlias == {<<a, c.hosts[c.aliases[a].url]>> :
                    a \in {b \in DOMAIN c.aliases : c.aliases[b].url \in names}}
      byOwn(g) == {<<IF n \in clouds THEN Clouds[g[n]] ELSE own[n], c.hosts[n]>> : n \in names}
  IN {[c EXCEPT !.aliases = Empty, !.hosts = WithDefaults(f, DefaultsV7)] :
        f \in UNION {Written(byAlias \cup byOwn(g)) : g \in numbered}}

Reserved == {"player", "dl", "play"}
migratedV7(c) == {[c EXCEPT !.hosts = WithDefaults(Drop(c.hosts, Reserved), DefaultsV8)]}
migratedV8(c) == {[c EXCEPT !.hosts = Drop(c.hosts, Reserved)]}
\* Mutant: the new configuration begins and stays with its defaults.
migratedV9Defaults(c) == {[c EXCEPT !.hosts = Empty, !.aliases = DefaultsV10]}

migratedV9(c) ==
  {[c EXCEPT !.hosts = Empty,
             !.aliases = IF c.hosts = Empty THEN DefaultsV10 ELSE c.hosts]}

newVersion(old) ==
  CASE old = "7" -> globalMCConfigVersion  \* newConfigV8 begins with this one
    [] old = "9" -> globalMCConfigVersion
    [] OTHER -> Old[(CHOOSE i \in DOMAIN Old : Old[i] = old) + 1]

migrated(c) ==
  LET results == CASE c.version = "1.0.0" -> migratedV1(c)
                   [] c.version = "3" -> {[c EXCEPT !.hosts = Read3(c)]}
                   [] c.version = "5" -> migratedV5(c)
                   [] c.version = "6" -> migratedV6(c)
                   [] c.version = "7" -> migratedV7(c)
                   [] c.version = "8" -> migratedV8(c)
                   [] c.version = "9" -> migratedV9(c)
                   [] OTHER -> {c}
  IN {[r EXCEPT !.version = newVersion(c.version), !.broken = FALSE] : r \in results}

-----------------------------------------------------------------------------
ConfigInit ==
  /\ config \in Configs /\ first = config
  /\ step = 0 /\ refused = FALSE /\ starts = 0 /\ commands = 0

StartMc ==
  /\ step = 0 /\ starts < MaxStarts
  /\ step' = 1 /\ starts' = starts + 1 /\ refused' = FALSE
  /\ UNCHANGED <<config, first, commands>>

fixConfigV3 ==
  /\ step = 1 /\ step' = 2
  /\ config' = IF config.version = "3" THEN fixedV3(config) ELSE config
  /\ UNCHANGED <<refused, starts, first, commands>>

\* Mutant: files of every version.
fixConfigEvery ==
  /\ step = 2
  /\ refused' = (DOMAIN config.hosts \cap Glob # {})
  /\ step' = IF refused' THEN 0 ELSE 3
  /\ UNCHANGED <<config, starts, first, commands>>

\* The first host with a "*" ends mc; the replacements after that line are
\* never reached.
fixConfigV6 ==
  /\ step = 2
  /\ refused' = (config.version = "6" /\ DOMAIN config.hosts \cap Glob # {})
  /\ step' = IF refused' THEN 0 ELSE 3
  /\ UNCHANGED <<config, starts, first, commands>>

fixConfigV6ForHosts ==
  /\ step = 3 /\ step' = 4
  /\ config' \in IF config.version = "6" THEN fixedV6Hosts(config) ELSE {config}
  /\ UNCHANGED <<refused, starts, first, commands>>

\* migrateConfigV1ToV101 to migrateConfigV9ToV10, one after the other.
migrateConfig ==
  /\ step \in 4..(3 + Len(Old)) /\ step' = step + 1
  /\ config' \in IF config.version = Old[step - 3] THEN migrated(config) ELSE {config}
  /\ UNCHANGED <<refused, starts, first, commands>>

\* A file is made if there is none.
initMC ==
  /\ step = 4 + Len(Old) /\ step' = step + 1
  /\ config' = IF config = NoConfig
               THEN File(globalMCConfigVersion, DefaultsV10)
               ELSE config
  /\ UNCHANGED <<refused, starts, first, commands>>

\* mc ends: it was killed, or a save has failed and left the file alone.
EndMc ==
  /\ step > 0 /\ step' = 0
  /\ UNCHANGED <<config, refused, starts, first, commands>>

Ready == step = 5 + Len(Old)

\* alias set and alias remove write what they have read of the file, which is
\* its version and what is under "aliases".
SaveAliases(aliases) ==
  /\ Ready /\ step' = 0
  /\ config' = File(config.version, aliases)
  /\ commands' = commands + 1
  /\ UNCHANGED <<refused, starts, first>>

setAlias ==
  SaveAliases([a \in DOMAIN config.aliases \cup {"new"} |->
                 IF a = "new" THEN Entry("https://new.org", "none") ELSE config.aliases[a]])
removeAlias == "gcs" \in DOMAIN config.aliases /\ SaveAliases(Drop(config.aliases, {"gcs"}))

ConfigNext ==
  \/ StartMc \/ fixConfigV3 \/ fixConfigV6 \/ fixConfigV6ForHosts
  \/ migrateConfig \/ initMC \/ EndMc \/ setAlias \/ removeAlias

ConfigSpec == ConfigInit /\ [][ConfigNext]_configVars

-----------------------------------------------------------------------------
KeysAt(c, S) == {c.hosts[n].keys : n \in DOMAIN c.hosts \cap S} \cap UserKeys

ConfigTypeOK ==
  /\ config.version \in ConfigVersions
  /\ step \in 0..(5 + Len(Old)) /\ starts \in 0..MaxStarts
  /\ refused \in BOOLEAN /\ commands \in 0..MaxStarts
  /\ KeysIn(config.hosts) \cup KeysIn(config.aliases) \subseteq KeysIn(first.hosts) \cup KeysIn(first.aliases)

\* The keys that the migration of a configuration may lose, whatever is said of
\* them: all but one of those for hosts with s3 in the name, in version 6 those
\* for hosts without a scheme, those of the reserved names, and one of two that
\* get the same name.
SameName(c) ==
  LET others(a, host) == a \in DOMAIN c.aliases /\ c.aliases[a].url # host
  IN {n \in {"https://s3.amazonaws.com", "s3.amazonaws.com"} :
        others("s3", "https://s3.amazonaws.com")}
     \cup {n \in {"https://storage.googleapis.com"} : others("gcs", n)}
     \cup {n \in DOMAIN c.hosts : \E i \in DOMAIN Clouds : others(Clouds[i], n)}
MayLose(c) ==
  LET fixed == {n \in DOMAIN c.hosts \cap Known : Schemed(n) \in DOMAIN c.hosts}
      userS3 == KeysAt(c, NamesS3)
  IN CASE c.version \in {"7", "8"} -> KeysAt(c, Reserved)
       [] c.version = "6" ->
            KeysAt(c, SameName(c) \cup fixed \cup {Schemed(n) : n \in fixed}
                      \cup (DOMAIN c.hosts \ (WithScheme \cup Known)))
       [] c.version \in {"", "9", globalMCConfigVersion} -> {}
       [] OTHER -> KeysAt(c, SameName(c)) \cup IF \E k, l \in userS3 : k # l THEN userS3 ELSE {}

\* What the user asks to replace, or to remove: setAlias, removeAlias.
Replaced == {"new", "gcs"}
KeysReplaced(c) ==
  KeysAt(c, Replaced) \cup ({c.aliases[a].keys : a \in DOMAIN c.aliases \cap Replaced} \cap UserKeys)

\* Whatever the version of the file, wherever mc ends and however often it is
\* started again: the keys of the user stay in the file, but for those of an
\* alias that a command was told to replace, until a command saves what it has
\* read of a file that was of version 7 or earlier.  And mc refuses to start only
\* because of a "*" that was in a file of version 6, or that the interrupted
\* migration of an older file has left in one.
KeysKept ==
  LET all == KeysIn(first.hosts) \cup KeysIn(first.aliases)
      given == IF commands > 0 THEN KeysReplaced(first) ELSE {}
  IN /\ \/ all \ (MayLose(first) \cup given) \subseteq KeysIn(config.hosts) \cup KeysIn(config.aliases)
        \/ commands > 0 /\ first.version \notin {"8", "9", globalMCConfigVersion}
     /\ refused => \/ first.version = "6" /\ DOMAIN first.hosts \cap Glob # {}
                   \/ starts > 1 /\ first.version \in {"1.0.0", "1.0.1", "2", "3", "4", "5"}

\* What is migrated to the latest version is found there: when the command
\* runs, the keys of the user are those of some alias.
MigratedAreAliases ==
  Ready => KeysIn(first.hosts) \cup KeysIn(first.aliases) \subseteq KeysIn(config.aliases)

===============================================================================
