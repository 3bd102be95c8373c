---------------------------- MODULE MCConfigMigrate ----------------------------
(* Instances of ConfigMigrate for TLC.                                       *)
EXTENDS ConfigMigrate, TLC

Cfg(v, hosts, aliases) == [version |-> v, broken |-> FALSE, hosts |-> hosts, aliases |-> aliases]
K(h, k) == h :> Entry(h, k)
OldVersions == {"1.0.0", "1.0.1", "2", "3", "4", "5"}

CloudNames == <<"cloud0", "cloud1", "cloud2", "cloud3", "cloud4", "cloud5", "cloud6", "cloud7",
                "cloud8", "cloud9", "cloud10">>

\* Files of every version: hosts of the user with and without s3 in the name,
\* patterns, names without a scheme, aliases and a file that cannot be parsed.
SomeConfigs ==
  {NoConfig}
  \cup {Cfg(v, K("https://mine.org", "k1") @@ K("https://s3.amazonaws.com", "k2"),
         "m" :> Entry("https://mine.org", "none")) : v \in OldVersions \cup {"6"}}
  \cup {Cfg(v, K("https://s3.mine.org", "k1") @@ K("https://s3.amazonaws.com", "k2") @@ K("localhost:*", "none") @@ K("*.s3*.amazonaws.com", "default"),
         "m" :> Entry("https://mine.org", "none")) : v \in OldVersions \ {"1.0.0"}}
  \cup {[Cfg("3", K("https://mine.org", "k1"), Empty) EXCEPT !.broken = TRUE]}
  \cup {Cfg("6", K("mine:9000", "k1") @@ K("s3.amazonaws.com", "k2") @@ K("https://s3.amazonaws.com", "default"), Empty)}
  \cup {Cfg("6", K("*s3*amazonaws.com", "k1"), Empty)}
  \cup {Cfg("6", K("https://mine.org", "k1") @@ K("https://s3.amazonaws.com", "k2"), "s3" :> Entry("https://mine.org", "none"))}
  \cup {Cfg(v, "m" :> Entry("https://mine.org", "k1") @@ "play" :> Entry("https://play.min.io", "k2"), Empty) : v \in {"7", "8"}}
  \cup {Cfg("9", "m" :> Entry("https://mine.org", "k1"), Empty), Cfg("9", Empty, Empty)}
  \cup {Cfg("10", Empty, "m" :> Entry("https://mine.org", "k1"))}

\* A file of version 7 as mc has left it: one host of the user.
VersionSeven == {Cfg("7", K("m", "k1"), Empty)}

===============================================================================
