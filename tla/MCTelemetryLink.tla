---------------------------- MODULE MCTelemetryLink ----------------------------
\* TelemetryLink for TLC, with ticks of a second: the watchdog's timeout
\* (TelemetryNetClient::start) and ConnectionTimeout.
EXTENDS TelemetryLink

WatchdogSeconds == 2
ConnectionTimeout == 5

=============================================================================
