---- MODULE MCWifiFrames ----
EXTENDS WifiFrames
\* No JSON, one byte of it, and a name with "JL" in it (every BLE name of the
\* device has one, start_ble_provision.sh:26-29).
MCBodies == {<<>>, <<J, L, Text>>}
====
