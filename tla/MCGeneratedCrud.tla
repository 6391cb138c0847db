---------------------------- MODULE MCGeneratedCrud ----------------------------
(* An instance of GeneratedCrud for TLC: two or three ids per table, values at  *)
(* the edges of the rules, one value where nothing depends on it.               *)
EXTENDS GeneratedCrud

CONSTANTS s1, s2, s9, x1, x2, e1, e2, u1, any   \* ids, an absent session, a unit, a value

MCIds ==
  [attendances |-> {x1, x2}, attendance_clocks |-> {x1}, attendance_sessions |-> {s1, s2},
   attendance_corrections |-> {x1}, kiosk_pins |-> {x1, x2}, overtime_requests |-> {x1},
   roster_entries |-> {x1}, shifts |-> {x1}]

\* A nullable column nothing depends on stays NULL: requests try a wrong type only.
MCDomain ==
  [attendances |->
     [employee_id |-> {e1, e2}, date |-> {0, 1}, schedule |-> {}, clockin |-> {any},
      clockout |-> {any}, time_debt |-> {}, timeoff |-> {}],
   attendance_clocks |->
     [session_id |-> {s1, s2, s9}, employee_id |-> {}, date |-> {}, punched_at |-> {},
      direction |-> {"out"}, device_ref |-> {80, 81}, source |-> {}],
   attendance_sessions |->
     [employee_id |-> {e1, e2}, date |-> {}, check_in |-> {0, 2}, check_out |-> {1},
      source |-> {}, correction_reason |-> {256}],
   attendance_corrections |->
     [session_id |-> {s1, s9}, employee_id |-> {}, check_in |-> {}, check_out |-> {},
      reason |-> {0, 1, 500, 501}, status |-> {"applied"}, approval_request_id |-> {},
      submitted_at |-> {}],
   kiosk_pins |->
     [employee_id |-> {e1, e2}, badge_code |-> {0, 1, 64, 65}, pin_hash |-> {0, 254, 256},
      failed_attempts |-> {0, 1}, locked_until |-> {}, last_attempt_at |-> {},
      expires_at |-> {}],
   overtime_requests |->
     [employee_id |-> {}, date |-> {}, hours_planned |-> {0, 4, 1000, 1000000},
      reason |-> {0, 1, 1000, 1001}, status |-> {"pending", "approved"},
      approval_request_id |-> {any}, decided_at |-> {any}],
   roster_entries |-> [employee_id |-> {e1, e2}, date |-> {0, 1}, shift_id |-> {x1, x2}],
   shifts |->
     [name |-> {0, 1}, code |-> {0, 1}, start_time |-> {any}, end_time |-> {any},
      break_minutes |-> {1}, is_active |-> BOOLEAN]]

MCTemplate ==
  [attendances |->
     [employee_id |-> e1, date |-> 0, schedule |-> None, clockin |-> None, clockout |-> None,
      time_debt |-> None, timeoff |-> None],
   attendance_clocks |->
     [session_id |-> s1, employee_id |-> e1, date |-> 0, punched_at |-> 0, direction |-> "in",
      device_ref |-> None, source |-> "kiosk"],
   attendance_sessions |->
     [employee_id |-> e1, date |-> 0, check_in |-> 0, check_out |-> None, source |-> "kiosk",
      correction_reason |-> None],
   attendance_corrections |->
     [session_id |-> s1, employee_id |-> e1, check_in |-> 0, check_out |-> None, reason |-> 1,
      status |-> "pending", approval_request_id |-> None, submitted_at |-> 0],
   kiosk_pins |->
     [employee_id |-> e1, badge_code |-> 1, pin_hash |-> 255, failed_attempts |-> 0,
      locked_until |-> None, last_attempt_at |-> None, expires_at |-> None],
   overtime_requests |->
     [employee_id |-> e1, date |-> 0, hours_planned |-> 1000, reason |-> 1,
      status |-> "pending", approval_request_id |-> None, decided_at |-> None],
   roster_entries |-> [employee_id |-> e1, date |-> 0, shift_id |-> None],
   shifts |->
     [name |-> 1, code |-> 1, start_time |-> None, end_time |-> None, break_minutes |-> None,
      is_active |-> TRUE]]

\* Tables that share a constraint are together.
MCParts ==
  {{"attendance_sessions", "attendance_clocks", "attendance_corrections"}, {"attendances"},
   {"kiosk_pins"}, {"overtime_requests"}, {"roster_entries", "shifts"}}

MCUnits == {u1, None}
================================================================================
