\* The gateway in every working mode.
CONSTANTS
    Modes = {"TCP_CLIENT", "TCP_SERVER", "TCP_MIXED", "UDP", "SSL_TCP_CLIENT", "MQTT_CLIENT", "MQTTS_CLIENT"}
    MaxConn = 2
    Chunks = {"password", "data"}
    MaxRx = 1
    MaxBytes = 1
    Retries = 2
    MaxFaults = 1
    Loads = {{"peer"}, {"uart", "faults", "races"}, {"uart", "inactivity"}}
    Passwords = {TRUE}
    XonXoff = FALSE
SPECIFICATION Spec
INVARIANT StatusOfConnection
PROPERTIES PasswordGate Reopens SerialServed
CHECK_DEADLOCK FALSE
