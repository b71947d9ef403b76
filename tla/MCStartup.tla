---- MODULE MCStartup ----
EXTENDS Startup
\* A network in reach, and one that is not or has another password.
MCGood  == {"home"}
MCCreds == {"home", "wrong"}
====
